--------------------------- MODULE MonotoneReads ---------------------------
(***************************************************************************)
(* What the link service promises a visitor, without caches or loads: each *)
(* key has a current version, a request is answered with some version of   *)
(* its key that is not newer than the current one and not older than any   *)
(* answer already given for that key, or it fails.  Visitors may see old   *)
(* versions, but never first a newer one and then an older one.            *)
(***************************************************************************)
EXTENDS Integers

CONSTANTS
  Keys,      \* lowercased codes
  Requests   \* redirect requests

VARIABLES
  stamp,     \* the current version of each key
  issued,    \* the newest version any request was answered with
  key,       \* the key each request asks for
  answer     \* what it was answered, or Nothing

vars == <<stamp, issued, key, answer>>

Nothing == -1

Init ==
  /\ stamp = [k \in Keys |-> 0]
  /\ issued = [k \in Keys |-> 0]
  /\ key \in [Requests -> Keys]
  /\ answer = [r \in Requests |-> Nothing]

\* The rows behind the keys of S change.
Change(S) ==
  /\ stamp' = [k \in Keys |-> IF k \in S THEN stamp[k] + 1 ELSE stamp[k]]
  /\ UNCHANGED <<issued, key, answer>>

\* A request arrives, replacing an earlier one that has ended.
Ask(r, k) ==
  /\ key' = [key EXCEPT ![r] = k]
  /\ answer' = [answer EXCEPT ![r] = Nothing]
  /\ UNCHANGED <<stamp, issued>>

\* The requests of R, all for key k, are answered with version v.
Answer(R, k, v) ==
  /\ v \in issued[k] .. stamp[k]
  /\ \A r \in R : answer[r] = Nothing /\ key[r] = k
  /\ issued' = [issued EXCEPT ![k] = v]
  /\ answer' = [r \in Requests |-> IF r \in R THEN v ELSE answer[r]]
  /\ UNCHANGED <<stamp, key>>

\* A request that is answered as it arrives.
AskAnswered(r, k, v) ==
  /\ v \in issued[k] .. stamp[k]
  /\ key' = [key EXCEPT ![r] = k]
  /\ answer' = [answer EXCEPT ![r] = v]
  /\ issued' = [issued EXCEPT ![k] = v]
  /\ UNCHANGED stamp

Next ==
  \/ \E S \in SUBSET Keys : Change(S)
  \/ \E r \in Requests, k \in Keys :
       Ask(r, k) \/ \E v \in issued[k] .. stamp[k] : AskAnswered(r, k, v)
  \/ \E R \in SUBSET Requests, k \in Keys :
       \E v \in issued[k] .. stamp[k] : Answer(R, k, v)

Spec == Init /\ [][Next]_vars

=============================================================================
