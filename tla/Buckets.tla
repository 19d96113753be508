------------------------------ MODULE Buckets -------------------------------
(***************************************************************************)
(* The rate limiter (internal/ratelimit/bucket.go): a bounded table of     *)
(* token buckets that are brought up to date when they are used, thinned   *)
(* out when the table is full, and collected when they have been idle.     *)
(* Every call holds the lock of the limiter throughout.                    *)
(*                                                                         *)
(* Time and tokens are measured in the same unit, the time it takes to     *)
(* gain a fraction of a token: a token is Cost of it, and a full bucket,   *)
(* as much as the interval of the rate.  lastRefill and lastAccess are     *)
(* always set together, and kept as the time since then.  Floating point   *)
(* is exact here.  A rate of zero, which allows everything, is left out.   *)
(***************************************************************************)
EXTENDS Integers, FiniteSets, FiniteSetsExt

CONSTANTS
  Clients,  \* keys: addresses, accounts, API keys
  Cost,     \* one token
  Full,     \* a full bucket, and the interval of the rate
  MaxKeys,  \* size of the table
  Sample,   \* how many buckets are looked at to make room
  IdleFor,  \* buckets idle for so long are collected
  Forever   \* bound: idle times from here on are not told apart

\* The interval of a rate may be longer than the ten minutes after which idle
\* buckets are collected: ParseRate takes any.
ASSUME BucketsAssumption ==
  /\ IsFiniteSet(Clients)
  /\ "nobody" \notin Clients
  /\ Cost \in Nat \ {0} /\ Full \in Nat /\ Full >= Cost
  /\ MaxKeys \in Nat /\ Sample \in Nat \ {0} /\ Sample <= MaxKeys
  /\ IdleFor \in Nat
  /\ Forever \in Nat /\ Forever >= IdleFor /\ Forever >= Full

VARIABLES
  buckets,  \* the table
  reply     \* the last call that asked, and what it returned

bucketsVars == <<buckets, reply>>

-----------------------------------------------------------------------------
NoBucket == [kept |-> FALSE, tokens |-> Full, idle |-> 0]
Bucket   == [kept : BOOLEAN, tokens : 0..Full, idle : 0..Forever]
Kept     == {k \in Clients : buckets[k].kept}

BucketsTypeOK ==
  /\ buckets \in [Clients -> Bucket]
  /\ \A k \in Clients : buckets[k].kept \/ buckets[k] = NoBucket
  /\ Cardinality(Kept) <= MaxKeys
  /\ reply \in [to : Clients \cup {"nobody"}, ok : BOOLEAN]

BucketsInit ==
  /\ buckets = [k \in Clients |-> NoBucket]
  /\ reply = [to |-> "nobody", ok |-> TRUE]

\* A bucket brought up to date.
Tokens(b) == IF b.tokens + b.idle >= Full THEN Full ELSE b.tokens + b.idle

-----------------------------------------------------------------------------
Without(gone) ==
  [k \in Clients |-> IF k \in gone THEN NoBucket ELSE buckets[k]]

\* Buckets that are full again, and restrict nobody.
\* A mutant looks at what they held when they were last used.
Refilled_AsStored(met) == {k \in met : buckets[k].tokens = Full}
Refilled(met) == {k \in met : Tokens(buckets[k]) = Full}

\* evictOldestLocked, on the buckets the iteration happens to meet: those
\* that are full again go; if there are none, the longest idle tenth and one.
Victims(met) ==
  LET Oldest(D) == /\ Cardinality(D) = Cardinality(met) \div 10 + 1
                   /\ \A d \in D, e \in met \ D :
                        buckets[d].idle >= buckets[e].idle
  IN IF Refilled(met) # {} THEN {Refilled(met)} ELSE {D \in SUBSET met : Oldest(D)}

MakeRoom(k) ==
  IF buckets[k].kept \/ Cardinality(Kept) < MaxKeys
    THEN {{}}
    ELSE UNION {Victims(met) : met \in kSubset(Sample, Kept)}

\* Allow, with the bucket made if need be.
Allow(k) ==
  \E gone \in MakeRoom(k) :
    LET has == Tokens(buckets[k])
        ok  == has >= Cost
    IN /\ buckets' = [Without(gone) EXCEPT
                        ![k] = [kept |-> TRUE, idle |-> 0,
                                tokens |-> IF ok THEN has - Cost ELSE has]]
       /\ reply' = [to |-> k, ok |-> ok]

Peek(k) ==
  /\ reply' = [to |-> k, ok |-> Tokens(buckets[k]) >= Cost]
  /\ UNCHANGED buckets

Reset(k) ==
  /\ buckets' = Without({k})
  /\ UNCHANGED reply

\* GC, from a timer.
Collect ==
  /\ buckets' = Without({k \in Kept : buckets[k].idle >= IdleFor})
  /\ UNCHANGED reply

Older(b) ==
  IF b.kept /\ b.idle < Forever THEN [b EXCEPT !.idle = @ + 1] ELSE b

Tick ==
  /\ buckets' = [k \in Clients |-> Older(buckets[k])]
  /\ UNCHANGED reply

BucketsNext ==
  \/ \E k \in Clients : Allow(k) \/ Peek(k) \/ Reset(k)
  \/ Collect
  \/ Tick

BucketsSpec == BucketsInit /\ [][BucketsNext]_bucketsVars

-----------------------------------------------------------------------------
\* With updates put off, a bounded table, eviction and collection, the
\* limiter still answers as if it had a bucket for every key.  A key that is
\* short of tokens is forgotten in two cases only: while at least Sample keys
\* are short, a tenth of them at a time (evictOldestLocked), and when it has not
\* asked for IdleFor (GC): of a rate with a longer interval, as 10/1h, such a key
\* has its burst again before it has gained it.
TB == INSTANCE TokenBuckets WITH
        level <- [k \in Clients |-> Tokens(buckets[k])],
        idle  <- [k \in Clients |-> IF Tokens(buckets[k]) < Full
                                   THEN buckets[k].idle ELSE 0]
ImplementsTokenBuckets == TB!Spec

=============================================================================
