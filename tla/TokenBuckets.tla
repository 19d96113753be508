---------------------------- MODULE TokenBuckets ----------------------------
(***************************************************************************)
(* What the rate limiter promises: every key there is has a bucket that    *)
(* fills continuously up to its burst, a request takes one token or is     *)
(* refused, and a bucket that is not full is lost in two cases only.       *)
(* While at least Sample keys are short of tokens, a request may make the  *)
(* limiter forget a tenth of that number; and a key that has not asked for *)
(* a time of IdleFor may be forgotten.  A rate whose interval is IdleFor   *)
(* or less never shows the second, for its buckets are full by then.       *)
(* There is no table and no collection.  Buckets implements it.            *)
(***************************************************************************)
EXTENDS Integers, FiniteSets

CONSTANTS
  Clients,  \* keys: addresses, accounts, API keys
  Cost,     \* one token, measured by the time it takes to gain it
  Full,     \* the burst, measured likewise: the interval of the rate
  Sample,   \* how many keys must be short before one is forgotten
  IdleFor   \* a key that has not asked for so long may be forgotten

VARIABLES
  level,    \* what each bucket holds
  idle,     \* how long ago a key that is short asked last
  reply     \* the last question and its answer

-----------------------------------------------------------------------------
Init ==
  /\ level = [k \in Clients |-> Full]
  /\ idle = [k \in Clients |-> 0]
  /\ reply = [to |-> "nobody", ok |-> TRUE]

\* Those whose buckets a request may make the limiter forget now.
Forgettable(F) ==
  \/ F = {}
  \/ /\ Cardinality({k \in Clients : level[k] < Full}) >= Sample
     /\ Cardinality(F) <= (Sample \div 10) + 1

Take(k) ==
  \E F \in SUBSET (Clients \ {k}) :
    /\ Forgettable(F)
    /\ reply' = [to |-> k, ok |-> level[k] >= Cost]
    /\ level' = [j \in Clients |->
                   IF j = k THEN IF level[k] >= Cost THEN level[k] - Cost
                                                     ELSE level[k]
                   ELSE IF j \in F THEN Full ELSE level[j]]
    /\ idle' = [j \in Clients |-> IF j \in F \cup {k} THEN 0 ELSE idle[j]]

Look(k) ==
  /\ reply' = [to |-> k, ok |-> level[k] >= Cost]
  /\ UNCHANGED <<level, idle>>

Forgotten(F) ==
  /\ level' = [k \in Clients |-> IF k \in F THEN Full ELSE level[k]]
  /\ idle' = [k \in Clients |-> IF k \in F THEN 0 ELSE idle[k]]
  /\ UNCHANGED reply

Forgive(k) == Forgotten({k})

\* Keys that have not asked for a long time lose their buckets.
Lapse == \E F \in SUBSET {k \in Clients : idle[k] >= IdleFor} : Forgotten(F)

Refill ==
  /\ level' = [k \in Clients |-> IF level[k] < Full THEN level[k] + 1 ELSE Full]
  /\ idle' = [k \in Clients |-> IF level'[k] < Full THEN idle[k] + 1 ELSE 0]
  /\ UNCHANGED reply

Next ==
  \/ \E k \in Clients : Take(k) \/ Look(k) \/ Forgive(k)
  \/ Lapse
  \/ Refill

Spec == Init /\ [][Next]_<<level, idle, reply>>

=============================================================================
