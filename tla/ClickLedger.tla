---------------------------- MODULE ClickLedger ----------------------------
(***************************************************************************)
(* What the click pipeline promises about each click, whatever queue,      *)
(* batches, retries and files lie in between: an accepted click is held in *)
(* memory until it is kept (in the database or in the spool), reported as  *)
(* dropped, or lost because the whole process ended.  A click that is kept *)
(* stays kept.                                                             *)
(***************************************************************************)
CONSTANT Clicks

VARIABLE status   \* what became of each click

Init == status = [c \in Clicks |-> "new"]

In(s) == {c \in Clicks : status[c] = s}

Become(S, s) == status' = [c \in Clicks |-> IF c \in S THEN s ELSE status[c]]

Accept == \E c \in In("new") : Become({c}, "memory")

Refuse == \E c \in In("new") : Become({c}, "dropped")

Keep == \E S \in SUBSET In("memory") : Become(S, "kept")

Drop == \E S \in SUBSET In("memory") : Become(S, "dropped")

\* The process ends: everything it only held in memory is lost at once.
Die == Become(In("memory"), "lost")

Next == Accept \/ Refuse \/ Keep \/ Drop \/ Die

Spec == Init /\ [][Next]_status

=============================================================================
