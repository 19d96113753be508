-------------------------- MODULE LinkCacheProofs --------------------------
(***************************************************************************)
(* Proofs about LinkCache for every set of codes, links, requests and      *)
(* handlers, and every value of the timeouts.                              *)
(***************************************************************************)
EXTENDS LinkCache, TLAPS

\* A lowercased code is its own key (cache.go toLower is idempotent).
LEMMA KeysLower ==
  /\ Keys \subseteq Codes
  /\ \A c \in Codes : Lower[c] \in Keys
  /\ \A k \in Keys : Lower[k] = k
BY LowerAssumption DEF Keys

\* The idle values are of their types.
LEMMA IdleTypes ==
  /\ AnyCode \in Codes
  /\ NoMut \in [op : Ops, id : Links, old : Codes, new : Codes]
  /\ NoEntry \in Entry
  /\ NoFlight \in Flight
  /\ NoResult \in Value
<1>1. AnyCode \in Codes
  BY NonEmptyAssumption DEF AnyCode
<1>2. (CHOOSE i \in Links : TRUE) \in Links
  BY NonEmptyAssumption
<1> QED
  BY <1>1, <1>2 DEF NoMut, Ops, NoEntry, Entry, NoFlight, Flight, NoResult, Value

\* Max2 is the larger of two numbers.
LEMMA Max2Nat ==
  ASSUME NEW a \in Nat, NEW b \in Nat
  PROVE  /\ Max2(a, b) \in Nat
         /\ Max2(a, b) >= a
         /\ Max2(a, b) >= b
         /\ Max2(a, b) = a \/ Max2(a, b) = b
BY DEF Max2

\* Stamps only grow, one at a time.
LEMMA BumpType ==
  ASSUME stamp \in [Keys -> Nat], NEW S
  PROVE  Bump(S) \in [Keys -> Nat]
BY DEF Bump

-----------------------------------------------------------------------------
(* Type correctness.                                                       *)

\* The initial state is of its types.
LEMMA TypeInit == Init => TypeOK
<1> SUFFICES ASSUME Init PROVE TypeOK
  OBVIOUS
<1>1. links \in [Links -> [code : Codes, st : States]]
  <2>1. Past \subseteq States
    BY BoundAssumption DEF States
  <2>2. links \in [Links -> [code : Codes, st : Past]]
    BY DEF Init
  <2> QED
    BY <2>1, <2>2
<1>2. QED
  BY <1>1, IdleTypes DEF Init, TypeOK, States

\* The type of the state after a step of a request.
LEMMA TypeRequests ==
  ASSUME TypeOK, NEW r \in Requests, Lookup(r) \/ JoinLoad(r)
  PROVE  TypeOK'
<1>1. CASE Lookup(r)
  <2>1. PICK c \in Codes :
          /\ rcode' = [rcode EXCEPT ![r] = c]
          /\ floor' = [floor EXCEPT ![r] = issued[Lower[c]]]
          /\ fresh' = [fresh EXCEPT ![r] = acked[Lower[c]]]
          /\ Hit(r, c) \/ Miss(r, c)
          /\ UNCHANGED <<linkVars, cache, flight, mutVars, doomed>>
    BY <1>1 DEF Lookup
  <2>2. Lower[c] \in Keys
    BY KeysLower
  <2>3. /\ floor' \in [Requests -> Nat]
        /\ fresh' \in [Requests -> Nat]
        /\ rcode' \in [Requests -> Codes]
    BY <2>1, <2>2 DEF TypeOK
  <2>4. CASE Hit(r, c)
    <3>1. AsValue(cache[Lower[c]]) \in Value /\ cache[Lower[c]].stamp \in Nat
      BY <2>2 DEF TypeOK, Entry, Value, AsValue
    <3>2. /\ rpc' \in [Requests -> {"idle", "load", "wait", "done", "error"}]
          /\ res' \in [Requests -> Value]
      BY <2>4, <3>1 DEF Hit, TypeOK
    <3>3. issued' \in [Keys -> Nat]
      BY <2>4, <2>2, <3>1, Max2Nat DEF Hit, TypeOK
    <3> QED
      BY <2>1, <2>3, <3>2, <3>3 DEF TypeOK, linkVars, mutVars
  <2>5. CASE Miss(r, c)
    BY <2>1, <2>3, <2>5, IdleTypes DEF Miss, TypeOK, linkVars, mutVars
  <2> QED
    BY <2>1, <2>4, <2>5
<1>2. CASE JoinLoad(r)
  <2>1. [NoFlight EXCEPT !.phase = "query", !.left = LoadTimeout] \in Flight
    BY TimeAssumption DEF NoFlight, Flight
  <2>2. flight' \in [Codes -> Flight]
    BY <1>2, <2>1 DEF JoinLoad, TypeOK
  <2>3. rpc' \in [Requests -> {"idle", "load", "wait", "done", "error"}]
    BY <1>2 DEF JoinLoad, TypeOK
  <2> QED
    BY <1>2, <2>2, <2>3 DEF JoinLoad, TypeOK, linkVars, mutVars
<1> QED
  BY <1>1, <1>2

\* So is the state after a step of a load or an eviction.
LEMMA TypeLoads ==
  ASSUME TypeOK, NEW f \in Codes, LoadStep(f)
  PROVE  TypeOK'
<1>0. Lower[f] \in Keys /\ flight[f] \in Flight /\ stamp[Lower[f]] \in Nat
  BY KeysLower DEF TypeOK
<1>1. CASE QueryAnswers(f)
  <2>1. flight' \in [Codes -> Flight]
    BY <1>0, <1>1 DEF QueryAnswers, CurrentValue, TypeOK, Flight
  <2> QED
    BY <1>1, <2>1 DEF QueryAnswers, TypeOK, linkVars, reqVars, mutVars
<1>2. CASE FillCache(f)
  <2>1. [flight[f] EXCEPT !.phase = "put"] \in Flight
    BY <1>0 DEF Flight
  <2>2. flight' = [flight EXCEPT ![f] = [flight[f] EXCEPT !.phase = "put"]]
    BY <1>2 DEF FillCache
  <2>3. flight' \in [Codes -> Flight]
    BY <2>1, <2>2 DEF TypeOK
  <2>4. cache' \in [Keys -> Entry]
    BY <1>0, <1>2, TimeAssumption DEF FillCache, Stored, TypeOK, Flight, Entry
  <2> QED
    BY <1>2, <2>3, <2>4 DEF FillCache, TypeOK, linkVars, reqVars, mutVars
<1>3. CASE AnswerWaiters(f)
  <2>1. AsValue(flight[f]) \in Value /\ flight[f].stamp \in Nat
    BY <1>0 DEF Flight, Value, AsValue
  <2>2. res' \in [Requests -> Value]
    BY <1>3, <2>1 DEF AnswerWaiters, TypeOK
  <2>3. issued' \in [Keys -> Nat]
    BY <1>0, <1>3, <2>1, Max2Nat DEF AnswerWaiters, TypeOK
  <2>4. /\ rpc' \in [Requests -> {"idle", "load", "wait", "done", "error"}]
        /\ flight' \in [Codes -> Flight]
    BY <1>3, IdleTypes DEF AnswerWaiters, TypeOK
  <2> QED
    BY <1>3, <2>2, <2>3, <2>4 DEF AnswerWaiters, TypeOK, linkVars, mutVars
<1>4. CASE LoadFails(f)
  BY <1>4, IdleTypes DEF LoadFails, TypeOK, linkVars, mutVars
<1> QED
  BY <1>1, <1>2, <1>3, <1>4 DEF LoadStep

\* So is the state after a step of a mutating handler.
LEMMA TypeMutations ==
  ASSUME TypeOK, NEW m \in Mutators, StartMutation(m) \/ MutationStep(m)
  PROVE  TypeOK'
<1>0. /\ mut[m] \in [op : Ops, id : Links, old : Codes, new : Codes]
      /\ Lower[mut[m].old] \in Keys /\ Lower[mut[m].new] \in Keys
  BY KeysLower DEF TypeOK
<1>1. CASE StartMutation(m)
  <2>1. PICK id \in Links, op \in Ops, c \in Codes :
          /\ mpc' = [mpc EXCEPT ![m] = "commit"]
          /\ mut' = [mut EXCEPT ![m] =
               [op |-> op, id |-> id, new |-> c,
                old |-> IF op = "create" THEN c ELSE links[id].code]]
          /\ UNCHANGED <<linkVars, cache, flight, reqVars, mack, acked, doomed>>
    BY <1>1 DEF StartMutation
  <2>2. links[id].code \in Codes
    BY DEF TypeOK
  <2> QED
    BY <2>1, <2>2 DEF TypeOK, linkVars, reqVars
<1>2. CASE Commit(m)
  <2>1. NewRow(m) \in [code : Codes, st : States]
    <3>1. links[mut[m].id] \in [code : Codes, st : States]
      BY <1>0 DEF TypeOK
    <3> QED
      BY <1>0, <3>1 DEF NewRow, States, Ops
  <2>2. links' \in [Links -> [code : Codes, st : States]]
    BY <1>2, <2>1 DEF Commit, TypeOK
  <2>3. stamp' \in [Keys -> Nat]
    BY <1>2, BumpType DEF Commit, TypeOK
  <2>4. [k \in Keys |-> IF k \in Changed(m) THEN stamp[k] + 1 ELSE 0]
          \in [Keys -> Nat]
    BY DEF TypeOK
  <2>5. mack' \in [Mutators -> [Keys -> Nat]]
    BY <1>2, <2>4 DEF Commit, TypeOK
  <2>6. Changed(m) \subseteq Keys
    <3>1. links[mut[m].id].code \in Codes
      BY <1>0 DEF TypeOK
    <3>2. NewRow(m).code \in Codes
      BY <2>1
    <3> QED
      BY <1>0, <3>1, <3>2, KeysLower DEF Changed
  <2>7. raced' \in SUBSET Keys
    BY <1>2, <2>6 DEF Commit, TypeOK
  <2> QED
    BY <1>2, <2>2, <2>3, <2>5, <2>7 DEF Commit, TypeOK, reqVars
<1>3. CASE CommitFails(m)
  BY <1>3, IdleTypes DEF CommitFails, TypeOK, linkVars, reqVars
<1>4. ASSUME Return(m)
      PROVE  /\ mpc' \in [Mutators -> {"idle", "commit", "invOld", "invNew"}]
             /\ mut' \in [Mutators ->
                   [op : Ops, id : Links, old : Codes, new : Codes]]
             /\ mack' \in [Mutators -> [Keys -> Nat]]
             /\ acked' \in [Keys -> Nat]
  <2>1. mack[m] \in [Keys -> Nat]
    BY DEF TypeOK
  <2>2. acked' \in [Keys -> Nat]
    BY <1>4, <2>1, Max2Nat DEF Return, TypeOK
  <2> QED
    BY <1>4, <2>2, IdleTypes DEF Return, TypeOK
<1>5. CASE InvalidateOld(m)
  <2>1. cache' \in [Keys -> Entry]
    BY <1>5, IdleTypes DEF InvalidateOld, TypeOK
  <2>2. CASE mut[m].new # mut[m].old
    BY <1>5, <2>1, <2>2 DEF InvalidateOld, TypeOK, linkVars, reqVars
  <2>3. CASE mut[m].new = mut[m].old
    BY <1>4, <1>5, <2>1, <2>3 DEF InvalidateOld, TypeOK, linkVars, reqVars
  <2> QED
    BY <2>2, <2>3
<1>6. CASE InvalidateNew(m)
  <2>1. cache' \in [Keys -> Entry]
    BY <1>6, IdleTypes DEF InvalidateNew, TypeOK
  <2> QED
    BY <1>4, <1>6, <2>1 DEF InvalidateNew, TypeOK, linkVars, reqVars
<1> QED
  BY <1>1, <1>2, <1>3, <1>5, <1>6 DEF MutationStep

\* So is the state after a step of the purge job.
LEMMA TypeJob ==
  ASSUME TypeOK, NEW id \in Links, JobSelects(id) \/ JobPurges(id)
  PROVE  TypeOK'
<1>1. CASE JobSelects(id)
  BY <1>1 DEF JobSelects, TypeOK, linkVars, reqVars, mutVars
<1>2. CASE JobPurges(id)
  <2>1. links' \in [Links -> [code : Codes, st : States]]
    <3>1. [links[id] EXCEPT !.st = "purged"] \in [code : Codes, st : States]
      <4>1. links[id] \in [code : Codes, st : States]
        BY DEF TypeOK
      <4> QED
        BY <4>1 DEF States
    <3>2. links' = links \/ links' = [links EXCEPT ![id] =
                                        [links[id] EXCEPT !.st = "purged"]]
      BY <1>2 DEF JobPurges
    <3> QED
      BY <3>1, <3>2 DEF TypeOK
  <2>2. stamp' \in [Keys -> Nat]
    BY <1>2, BumpType DEF JobPurges, TypeOK
  <2> QED
    BY <1>2, <2>1, <2>2 DEF JobPurges, TypeOK, reqVars, mutVars
<1> QED
  BY <1>1, <1>2

\* Ageing keeps an entry or a load that has ticks left what it is.
LEMMA AgedType ==
  ASSUME stamp \in [Keys -> Nat], NEW k \in Keys
  PROVE  /\ \A e \in Entry : e.left > 0 => Aged(e, k) \in Entry
         /\ \A e \in Flight : e.left > 0 => Aged(e, k) \in Flight
<1>1. stamp[k] \in Nat
  OBVIOUS
<1>2. ASSUME NEW e \in Entry, e.left > 0
      PROVE  Aged(e, k) \in Entry
  <2>1. e.left - 1 \in Nat /\ Older(e, k) \in Nat
    BY <1>1, <1>2 DEF Entry, Older
  <2> QED
    BY <2>1 DEF Aged, Entry
<1>3. ASSUME NEW e \in Flight, e.left > 0
      PROVE  Aged(e, k) \in Flight
  <2>1. e.left - 1 \in Nat /\ Older(e, k) \in Nat
    BY <1>1, <1>3 DEF Flight, Older
  <2> QED
    BY <2>1 DEF Aged, Flight
<1> QED
  BY <1>2, <1>3

\* So is the state after time has passed.
LEMMA TypeTick == TypeOK /\ Tick => TypeOK'
<1> SUFFICES ASSUME TypeOK, Tick PROVE TypeOK'
  OBVIOUS
<1>1. cache' \in [Keys -> Entry]
  <2>1. ASSUME NEW k \in Keys
        PROVE  (IF cache[k].left <= 1 THEN NoEntry ELSE Aged(cache[k], k)) \in Entry
    <3>1. cache[k] \in Entry /\ cache[k].left \in Nat
      BY DEF TypeOK, Entry
    <3> QED
      BY <3>1, AgedType, IdleTypes DEF TypeOK
  <2> QED
    BY <2>1 DEF Tick
<1>2. LoadsAged \in [Codes -> Flight]
  <2>1. ASSUME NEW f \in Codes
        PROVE  LoadsAged[f] \in Flight
    <3>1. flight[f] \in Flight /\ Lower[f] \in Keys
      BY KeysLower DEF TypeOK
    <3>2. CASE flight[f].phase = "none"
      BY <3>2, IdleTypes DEF LoadsAged
    <3>3. CASE flight[f].phase # "none"
      <4>1. flight[f].left > 0
        BY <3>3 DEF Tick
      <4>2. Aged(flight[f], Lower[f]) \in Flight
        BY <3>1, <4>1, AgedType DEF TypeOK
      <4>3. [flight[f] EXCEPT !.left = @ - 1] \in Flight
        BY <3>1, <4>1 DEF Flight
      <4> QED
        BY <3>3, <4>2, <4>3 DEF LoadsAged
    <3> QED
      BY <3>2, <3>3
  <2> QED
    BY <2>1 DEF LoadsAged
<1>3. flight' = LoadsAged
  BY DEF Tick
<1> QED
  BY <1>1, <1>2, <1>3 DEF Tick, TypeOK, linkVars, reqVars, mutVars

\* Every step keeps the types.
LEMMA TypeNext == TypeOK /\ [Next]_vars => TypeOK'
<1> SUFFICES ASSUME TypeOK, [Next]_vars PROVE TypeOK'
  OBVIOUS
<1>1. CASE \E k \in Keys : Evict(k)
  BY <1>1, IdleTypes DEF Evict, TypeOK, linkVars, reqVars, mutVars
<1>2. CASE UNCHANGED vars
  BY <1>2 DEF vars, linkVars, reqVars, mutVars, TypeOK
<1> QED
  BY <1>1, <1>2, TypeRequests, TypeLoads, TypeMutations, TypeJob, TypeTick DEF Next

\* Every variable of the cache, its loads and its handlers keeps its type.
THEOREM TypeCorrect == Spec => []TypeOK
BY TypeInit, TypeNext, PTL DEF Spec

-----------------------------------------------------------------------------
(* Monotonic reads.  MonotonicReads speaks of answers only, so it is not   *)
(* inductive: an old row could still wait in the cache or in a load.  The  *)
(* invariant below orders, for each key, everything that can become an     *)
(* answer: the newest stamp answered, the cached one, the loaded one, the  *)
(* current one.                                                            *)

Loaded(k) == flight[k].phase \in {"got", "put"}

ReadOrder ==
  /\ \A f \in Codes : flight[f].phase # "none" => f = Lower[f]
  /\ \A k \in Keys : issued[k] <= stamp[k]
  /\ \A k \in Keys : cache[k].left > 0 =>
       issued[k] <= cache[k].stamp /\ cache[k].stamp <= stamp[k]
  /\ \A k \in Keys : Loaded(k) =>
       /\ issued[k] <= flight[k].stamp
       /\ flight[k].stamp <= stamp[k]
       /\ cache[k].left > 0 =>
            /\ cache[k].stamp <= flight[k].stamp
            /\ flight[k].phase = "put" => cache[k].stamp = flight[k].stamp
  /\ \A r \in Requests : rpc[r] \in {"load", "wait"} =>
       floor[r] <= issued[Lower[rcode[r]]]

OrderInv == TypeOK /\ ReadOrder /\ MonotonicReads

\* Nothing is answered in the initial state.
LEMMA OrderInit == Init => ReadOrder /\ MonotonicReads
<1> SUFFICES ASSUME Init PROVE ReadOrder /\ MonotonicReads
  OBVIOUS
<1>1. \A f \in Codes : flight[f].phase = "none"
  BY DEF Init, NoFlight
<1>2. \A k \in Keys : issued[k] = 0 /\ stamp[k] = 0 /\ cache[k].left = 0
  BY DEF Init, NoEntry
<1>3. \A r \in Requests : rpc[r] = "idle"
  BY DEF Init
<1> QED
  BY <1>1, <1>2, <1>3, KeysLower DEF ReadOrder, MonotonicReads, Loaded

\* What the types of the pieces of the invariant are at one key.
LEMMA KeyTypes ==
  ASSUME TypeOK, NEW k \in Keys
  PROVE  /\ k \in Codes /\ Lower[k] = k
         /\ issued[k] \in Nat /\ stamp[k] \in Nat
         /\ cache[k].stamp \in Nat /\ cache[k].left \in Nat
         /\ cache[k].stale \in Nat /\ cache[k].missing \in BOOLEAN
         /\ flight[k].stamp \in Nat /\ flight[k].left \in Nat
         /\ flight[k].stale \in Nat /\ flight[k].missing \in BOOLEAN
         /\ flight[k].phase \in {"none", "query", "got", "put"}
<1>1. k \in Codes /\ Lower[k] = k
  BY KeysLower
<1>2. cache[k] \in Entry /\ flight[k] \in Flight
  BY <1>1 DEF TypeOK
<1> QED
  BY <1>1, <1>2 DEF TypeOK, Entry, Flight

\* The fields of a request have their types.
LEMMA RequestTypes ==
  ASSUME TypeOK, NEW r \in Requests
  PROVE  /\ Lower[rcode[r]] \in Keys /\ rcode[r] \in Codes
         /\ floor[r] \in Nat
         /\ res[r].stamp \in Nat /\ res[r].stale \in Nat
         /\ res[r].missing \in BOOLEAN
<1>1. rcode[r] \in Codes /\ res[r] \in Value
  BY DEF TypeOK
<1> QED
  BY <1>1, KeysLower DEF TypeOK, Value

\* A hit is answered with an entry, and no entry is older than any answer.
LEMMA OrderLookup ==
  ASSUME OrderInv, NEW r \in Requests, Lookup(r)
  PROVE  ReadOrder' /\ MonotonicReads'
<1>0. TypeOK /\ TypeOK'
  BY TypeRequests DEF OrderInv
<1>1. PICK c \in Codes :
        /\ rcode' = [rcode EXCEPT ![r] = c]
        /\ floor' = [floor EXCEPT ![r] = issued[Lower[c]]]
        /\ Hit(r, c) \/ Miss(r, c)
        /\ UNCHANGED <<linkVars, cache, flight, mutVars, doomed>>
  BY DEF Lookup
<1> DEFINE k == Lower[c]
<1>2. k \in Keys
  BY KeysLower
<1>4. \A j \in Keys : j # k => issued'[j] = issued[j]
  BY <1>0, <1>1, <1>2 DEF Hit, Miss, TypeOK
<1>8. \/ issued'[k] = issued[k]
      \/ cache[k].left > 0 /\ issued'[k] = Max2(issued[k], cache[k].stamp)
  BY <1>0, <1>1, <1>2 DEF Hit, Miss, TypeOK
<1>9. /\ issued[k] \in Nat /\ cache[k].stamp \in Nat /\ stamp[k] \in Nat
      /\ cache[k].left \in Nat /\ flight[k].stamp \in Nat
  BY <1>0, <1>2, KeyTypes
<1>3. \A j \in Keys : issued[j] <= issued'[j]
  <2>1. issued[k] <= issued'[k]
    BY <1>8, <1>9 DEF Max2
  <2>2. ASSUME NEW j \in Keys, j # k PROVE issued[j] <= issued'[j]
    <3>1. issued[j] \in Nat
      BY <1>0, KeyTypes
    <3> QED
      BY <1>4, <2>2, <3>1
  <2> QED
    BY <2>1, <2>2
<1>5. issued'[k] <= stamp[k]
      /\ (cache[k].left > 0 => issued'[k] <= cache[k].stamp)
      /\ (Loaded(k) => issued'[k] <= flight[k].stamp)
  <2>1. /\ issued[k] <= stamp[k]
        /\ cache[k].left > 0 =>
             issued[k] <= cache[k].stamp /\ cache[k].stamp <= stamp[k]
        /\ Loaded(k) => /\ issued[k] <= flight[k].stamp
                        /\ cache[k].left > 0 => cache[k].stamp <= flight[k].stamp
    BY <1>2 DEF OrderInv, ReadOrder
  <2> QED
    BY <1>8, <1>9, <2>1 DEF Max2
<1>6. ReadOrder'
  <2>1. \A q \in Requests : rpc'[q] \in {"load", "wait"} =>
          floor'[q] <= issued'[Lower[rcode'[q]]]
    <3> SUFFICES ASSUME NEW q \in Requests, rpc'[q] \in {"load", "wait"}
                 PROVE  floor'[q] <= issued'[Lower[rcode'[q]]]
      OBVIOUS
    <3>1. CASE q = r
      BY <1>0, <1>1, <1>2, <1>3, <3>1 DEF TypeOK
    <3>2. CASE q # r
      <4>1. /\ rpc'[q] = rpc[q] /\ floor'[q] = floor[q] /\ rcode'[q] = rcode[q]
        BY <1>0, <1>1, <3>2 DEF Hit, Miss, TypeOK
      <4>2. floor[q] <= issued[Lower[rcode[q]]]
        BY <4>1 DEF OrderInv, ReadOrder
      <4>3. Lower[rcode[q]] \in Keys /\ floor[q] \in Nat
        BY <1>0, RequestTypes
      <4>4. issued[Lower[rcode[q]]] \in Nat /\ issued'[Lower[rcode[q]]] \in Nat
        BY <1>0, <4>3 DEF TypeOK
      <4> QED
        BY <1>3, <4>1, <4>2, <4>3, <4>4
    <3> QED
      BY <3>1, <3>2
  <2>2. \A j \in Keys : /\ issued'[j] <= stamp[j]
                        /\ cache[j].left > 0 => issued'[j] <= cache[j].stamp
                        /\ Loaded(j) => issued'[j] <= flight[j].stamp
    BY <1>4, <1>5 DEF OrderInv, ReadOrder
  <2> QED
    BY <1>1, <2>1, <2>2 DEF OrderInv, ReadOrder, Loaded, linkVars
<1>7. MonotonicReads'
  <2> SUFFICES ASSUME NEW q \in Requests, rpc'[q] = "done"
               PROVE  res'[q].stamp >= floor'[q]
    BY DEF MonotonicReads
  <2>1. CASE q = r
    <3>1. Hit(r, c)
      BY <1>0, <1>1, <2>1 DEF Miss, TypeOK
    <3>2. res'[r].stamp = cache[k].stamp /\ floor'[r] = issued[k]
      BY <1>0, <1>1, <3>1 DEF Hit, AsValue, TypeOK
    <3> QED
      BY <1>0, <1>2, <2>1, <3>1, <3>2, KeyTypes DEF Hit, OrderInv, ReadOrder
  <2>2. CASE q # r
    BY <1>0, <1>1, <2>2 DEF Hit, Miss, TypeOK, OrderInv, MonotonicReads
  <2> QED
    BY <2>1, <2>2
<1> QED
  BY <1>6, <1>7

\* Steps that answer nobody: stamps may grow, entries may go, loads may end.
LEMMA OrderKept ==
  ASSUME OrderInv, UNCHANGED reqVars, stamp' \in [Keys -> Nat],
         \A k \in Keys : stamp[k] <= stamp'[k],
         \A k \in Keys : cache'[k].left > 0 =>
           cache[k].left > 0 /\ cache'[k].stamp = cache[k].stamp,
         \A f \in Codes :
           \/ flight'[f].phase = "none"
           \/ /\ flight'[f].phase = flight[f].phase
              /\ flight'[f].stamp = flight[f].stamp
  PROVE  ReadOrder' /\ MonotonicReads'
<1>1. /\ issued' = issued /\ rpc' = rpc /\ rcode' = rcode
      /\ floor' = floor /\ res' = res
  BY DEF reqVars
<1>2. \A f \in Codes : flight'[f].phase # "none" => f = Lower[f]
  BY DEF OrderInv, ReadOrder
<1>3. ASSUME NEW k \in Keys
      PROVE  /\ issued[k] <= stamp'[k]
             /\ cache'[k].left > 0 =>
                  issued[k] <= cache'[k].stamp /\ cache'[k].stamp <= stamp'[k]
             /\ Loaded(k)' =>
                  /\ issued[k] <= flight'[k].stamp
                  /\ flight'[k].stamp <= stamp'[k]
                  /\ cache'[k].left > 0 =>
                       /\ cache'[k].stamp <= flight'[k].stamp
                       /\ flight'[k].phase = "put" =>
                            cache'[k].stamp = flight'[k].stamp
  <2>1. /\ issued[k] \in Nat /\ stamp[k] \in Nat /\ stamp'[k] \in Nat
        /\ cache[k].stamp \in Nat /\ flight[k].stamp \in Nat /\ k \in Codes
    BY KeyTypes DEF OrderInv
  <2>2. /\ issued[k] <= stamp[k] /\ stamp[k] <= stamp'[k]
        /\ cache[k].left > 0 =>
             issued[k] <= cache[k].stamp /\ cache[k].stamp <= stamp[k]
        /\ Loaded(k) =>
             /\ issued[k] <= flight[k].stamp
             /\ flight[k].stamp <= stamp[k]
             /\ cache[k].left > 0 =>
                  /\ cache[k].stamp <= flight[k].stamp
                  /\ flight[k].phase = "put" => cache[k].stamp = flight[k].stamp
    BY DEF OrderInv, ReadOrder
  <2>3. Loaded(k)' => /\ Loaded(k)
                      /\ flight'[k].phase = flight[k].phase
                      /\ flight'[k].stamp = flight[k].stamp
    BY <2>1 DEF Loaded
  <2> QED
    BY <2>1, <2>2, <2>3
<1>4. ReadOrder'
  BY <1>1, <1>2, <1>3 DEF OrderInv, ReadOrder
<1>5. MonotonicReads'
  BY <1>1 DEF OrderInv, MonotonicReads
<1> QED
  BY <1>4, <1>5

\* The steps of handlers, of the purge job and of time.
QuietStep ==
  \/ \E k \in Keys : Evict(k)
  \/ \E m \in Mutators : StartMutation(m) \/ MutationStep(m)
  \/ \E id \in Links : JobSelects(id) \/ JobPurges(id)
  \/ Tick
  \/ UNCHANGED vars

\* They answer nobody, remove entries and raise stamps.
LEMMA Quiet ==
  ASSUME TypeOK, QuietStep
  PROVE  /\ UNCHANGED reqVars
         /\ stamp' \in [Keys -> Nat]
         /\ \A k \in Keys : stamp[k] <= stamp'[k]
         /\ \A k \in Keys : cache'[k].left > 0 =>
              cache[k].left > 0 /\ cache'[k].stamp = cache[k].stamp
         /\ \A f \in Codes :
              \/ flight'[f].phase = "none"
              \/ /\ flight'[f].phase = flight[f].phase
                 /\ flight'[f].stamp = flight[f].stamp
<1>0. TypeOK /\ TypeOK'
  BY TypeNext DEF QuietStep, Next
<1>1. stamp' \in [Keys -> Nat]
  BY <1>0 DEF TypeOK
<1> DEFINE Some(e) == \E k : e' = [e EXCEPT ![k] = NoEntry]
           Still == /\ UNCHANGED <<reqVars, flight>>
                    /\ stamp' = stamp \/ \E S : stamp' = Bump(S)
                    /\ cache' = cache \/ Some(cache)
<1>2. Still \/ (Tick /\ UNCHANGED <<reqVars, stamp>>)
  <2>1. ASSUME NEW k \in Keys, Evict(k) PROVE Still
    BY <2>1 DEF Evict, linkVars
  <2>2. ASSUME NEW m \in Mutators, StartMutation(m) \/ CommitFails(m) PROVE Still
    BY <2>2 DEF StartMutation, CommitFails, linkVars
  <2>3. ASSUME NEW m \in Mutators, Commit(m) PROVE Still
    BY <2>3 DEF Commit
  <2>4. ASSUME NEW m \in Mutators, InvalidateOld(m) PROVE Still
    BY <2>4 DEF InvalidateOld, linkVars
  <2>5. ASSUME NEW m \in Mutators, InvalidateNew(m) PROVE Still
    BY <2>5 DEF InvalidateNew, linkVars
  <2>6. ASSUME NEW id \in Links, JobSelects(id) PROVE Still
    BY <2>6 DEF JobSelects, linkVars
  <2>7. ASSUME NEW id \in Links, JobPurges(id) PROVE Still
    BY <2>7 DEF JobPurges
  <2>8. CASE Tick
    BY <2>8 DEF Tick, linkVars
  <2>9. CASE UNCHANGED vars
    BY <2>9 DEF vars, linkVars
  <2> QED
    BY <2>1, <2>2, <2>3, <2>4, <2>5, <2>6, <2>7, <2>8, <2>9 DEF QuietStep, MutationStep
<1>3. \A k \in Keys : stamp[k] <= stamp'[k]
  <2>1. stamp' = stamp \/ \E S : stamp' = Bump(S)
    BY <1>2
  <2> SUFFICES ASSUME NEW k \in Keys PROVE stamp[k] <= stamp'[k]
    OBVIOUS
  <2>2. stamp[k] \in Nat
    BY <1>0, KeyTypes
  <2>3. stamp'[k] = stamp[k] \/ stamp'[k] = stamp[k] + 1
    BY <2>1 DEF Bump
  <2> QED
    BY <2>2, <2>3
<1>4. \A k \in Keys : cache'[k].left > 0 =>
        cache[k].left > 0 /\ cache'[k].stamp = cache[k].stamp
  <2>1. CASE Tick
    <3> SUFFICES ASSUME NEW k \in Keys, cache'[k].left > 0
                 PROVE  cache[k].left > 0 /\ cache'[k].stamp = cache[k].stamp
      OBVIOUS
    <3>1. cache[k] \in Entry /\ cache[k].left \in Nat
      BY <1>0, KeyTypes DEF TypeOK
    <3>2. cache'[k] = IF cache[k].left <= 1 THEN NoEntry ELSE Aged(cache[k], k)
      BY <2>1 DEF Tick
    <3>3. NoEntry.left = 0
      BY DEF NoEntry
    <3>4. cache[k].left > 1 /\ cache'[k] = Aged(cache[k], k)
      BY <3>1, <3>2, <3>3
    <3> QED
      BY <3>1, <3>4 DEF Aged, Entry
  <2>2. CASE ~Tick
    <3>1. \A k \in Keys : cache'[k] = cache[k] \/ cache'[k] = NoEntry
      BY <1>0, <1>2, <2>2 DEF TypeOK
    <3> QED
      BY <3>1 DEF NoEntry
  <2> QED
    BY <2>1, <2>2
<1>5. \A f \in Codes : \/ flight'[f].phase = "none"
                       \/ /\ flight'[f].phase = flight[f].phase
                          /\ flight'[f].stamp = flight[f].stamp
  <2>1. CASE Tick
    <3> SUFFICES ASSUME NEW f \in Codes
                 PROVE  \/ flight'[f].phase = "none"
                        \/ /\ flight'[f].phase = flight[f].phase
                           /\ flight'[f].stamp = flight[f].stamp
      OBVIOUS
    <3>1. flight[f] \in Flight
      BY <1>0 DEF TypeOK
    <3>2. flight' = LoadsAged
      BY <2>1 DEF Tick
    <3>3. CASE flight[f].phase = "none"
      BY <3>2, <3>3 DEF LoadsAged, NoFlight
    <3>4. CASE flight[f].phase = "query"
      BY <3>1, <3>2, <3>4 DEF LoadsAged, Flight
    <3>5. CASE flight[f].phase \notin {"none", "query"}
      <4>1. flight'[f] = Aged(flight[f], Lower[f])
        BY <3>2, <3>5 DEF LoadsAged
      <4> QED
        BY <3>1, <4>1 DEF Aged, Flight
    <3> QED
      BY <3>3, <3>4, <3>5
  <2>2. CASE ~Tick
    BY <1>2, <2>2
  <2> QED
    BY <2>1, <2>2
<1> QED
  BY <1>1, <1>2, <1>3, <1>4, <1>5

\* So they keep the order.
LEMMA OrderQuiet ==
  ASSUME OrderInv, QuietStep
  PROVE  ReadOrder' /\ MonotonicReads'
BY Quiet, OrderKept DEF OrderInv

\* A new load has read nothing yet.
LEMMA OrderJoin ==
  ASSUME OrderInv, NEW r \in Requests, JoinLoad(r)
  PROVE  ReadOrder' /\ MonotonicReads'
<1>0. TypeOK /\ Lower[rcode[r]] \in Keys
  BY RequestTypes DEF OrderInv
<1> DEFINE k == Lower[rcode[r]]
<1>1. k \in Codes /\ Lower[k] = k
  BY <1>0, KeysLower
<1>2. \A f \in Codes :
        \/ flight'[f] = flight[f]
        \/ f = k /\ flight'[f].phase = "query"
  BY <1>0, <1>1 DEF JoinLoad, FlightKey, TypeOK, NoFlight
<1>3. \A f \in Codes : flight'[f].phase # "none" => f = Lower[f]
  BY <1>1, <1>2 DEF OrderInv, ReadOrder
<1>4. \A j \in Keys : Loaded(j)' => Loaded(j) /\ flight'[j] = flight[j]
  BY <1>2, KeysLower DEF Loaded
<1>5. \A q \in Requests : rpc'[q] \in {"load", "wait"} => rpc[q] \in {"load", "wait"}
  BY <1>0 DEF JoinLoad, TypeOK
<1>6. ReadOrder'
  <2>1. UNCHANGED <<stamp, issued, cache, floor, rcode>>
    BY DEF JoinLoad, linkVars
  <2>2. \A j \in Keys : Loaded(j)' =>
          /\ issued'[j] <= flight'[j].stamp
          /\ flight'[j].stamp <= stamp'[j]
          /\ cache'[j].left > 0 =>
               /\ cache'[j].stamp <= flight'[j].stamp
               /\ flight'[j].phase = "put" => cache'[j].stamp = flight'[j].stamp
    BY <1>4, <2>1 DEF OrderInv, ReadOrder
  <2> QED
    BY <1>3, <1>5, <2>1, <2>2 DEF OrderInv, ReadOrder
<1>7. MonotonicReads'
  <2>1. \A q \in Requests : rpc'[q] = "done" => rpc[q] = "done"
    BY <1>0 DEF JoinLoad, TypeOK
  <2>2. UNCHANGED <<res, floor>>
    BY DEF JoinLoad
  <2> QED
    BY <2>1, <2>2 DEF OrderInv, MonotonicReads
<1> QED
  BY <1>6, <1>7

\* What a load reads is the newest stamp there is.
LEMMA OrderQuery ==
  ASSUME OrderInv, NEW f \in Codes, QueryAnswers(f)
  PROVE  ReadOrder' /\ MonotonicReads'
<1>1. f \in Keys /\ f = Lower[f]
  BY KeysLower DEF OrderInv, ReadOrder, QueryAnswers
<1>2. /\ flight'[f].phase = "got"
      /\ flight'[f].stamp = stamp[f]
      /\ \A g \in Codes : g # f => flight'[g] = flight[g]
  BY <1>1 DEF QueryAnswers, CurrentValue, OrderInv, TypeOK
<1>3. ASSUME NEW k \in Keys, Loaded(k)'
      PROVE  /\ issued[k] <= flight'[k].stamp
             /\ flight'[k].stamp <= stamp[k]
             /\ cache[k].left > 0 =>
                  /\ cache[k].stamp <= flight'[k].stamp
                  /\ flight'[k].phase = "put" => cache[k].stamp = flight'[k].stamp
  <2>1. CASE k = f
    <3>1. stamp[k] \in Nat
      BY KeyTypes DEF OrderInv
    <3> QED
      BY <1>2, <2>1, <3>1 DEF OrderInv, ReadOrder
  <2>2. CASE k # f
    <3>1. k \in Codes
      BY KeysLower
    <3>2. flight'[k] = flight[k] /\ Loaded(k)
      BY <1>2, <1>3, <2>2, <3>1 DEF Loaded
    <3> QED
      BY <3>2 DEF OrderInv, ReadOrder
  <2> QED
    BY <2>1, <2>2
<1>4. \A g \in Codes : flight'[g].phase # "none" => g = Lower[g]
  BY <1>1, <1>2 DEF OrderInv, ReadOrder
<1>5. ReadOrder'
  BY <1>3, <1>4 DEF OrderInv, ReadOrder, QueryAnswers, linkVars, reqVars
<1>6. MonotonicReads'
  BY DEF QueryAnswers, reqVars, OrderInv, MonotonicReads
<1> QED
  BY <1>5, <1>6

\* A load stores what it read.
LEMMA OrderFill ==
  ASSUME OrderInv, NEW f \in Codes, FillCache(f)
  PROVE  ReadOrder' /\ MonotonicReads'
<1>1. f \in Keys /\ f = Lower[f] /\ Loaded(f)
  BY KeysLower DEF OrderInv, ReadOrder, FillCache, Loaded
<1>2. /\ flight'[f].phase = "put" /\ flight'[f].stamp = flight[f].stamp
      /\ \A g \in Codes : g # f => flight'[g] = flight[g]
  <2>1. flight[f] \in Flight
    BY DEF OrderInv, TypeOK
  <2> QED
    BY <2>1 DEF FillCache, OrderInv, TypeOK, Flight
<1>3. /\ cache'[f].stamp = flight[f].stamp
      /\ \A k \in Keys : k # f => cache'[k] = cache[k]
  BY <1>1 DEF FillCache, Stored, OrderInv, TypeOK
<1>4. ASSUME NEW k \in Keys
      PROVE  /\ cache'[k].left > 0 =>
                  issued[k] <= cache'[k].stamp /\ cache'[k].stamp <= stamp[k]
             /\ Loaded(k)' =>
                  /\ issued[k] <= flight'[k].stamp
                  /\ flight'[k].stamp <= stamp[k]
                  /\ cache'[k].left > 0 =>
                       /\ cache'[k].stamp <= flight'[k].stamp
                       /\ flight'[k].phase = "put" =>
                            cache'[k].stamp = flight'[k].stamp
  <2>1. CASE k = f
    <3>1. flight[k].stamp \in Nat
      BY KeyTypes DEF OrderInv
    <3> QED
      BY <1>1, <1>2, <1>3, <2>1, <3>1 DEF OrderInv, ReadOrder
  <2>2. CASE k # f
    <3>1. k \in Codes
      BY KeysLower
    <3>2. flight'[k] = flight[k] /\ cache'[k] = cache[k]
      BY <1>2, <1>3, <2>2, <3>1
    <3>3. Loaded(k)' => Loaded(k)
      BY <3>2 DEF Loaded
    <3> QED
      BY <3>2, <3>3 DEF OrderInv, ReadOrder
  <2> QED
    BY <2>1, <2>2
<1>5. \A g \in Codes : flight'[g].phase # "none" => g = Lower[g]
  BY <1>1, <1>2 DEF OrderInv, ReadOrder
<1>6. ReadOrder'
  BY <1>4, <1>5 DEF OrderInv, ReadOrder, FillCache, linkVars, reqVars
<1>7. MonotonicReads'
  BY DEF FillCache, reqVars, OrderInv, MonotonicReads
<1> QED
  BY <1>6, <1>7

\* A load answers with what it stored.
LEMMA OrderAnswer ==
  ASSUME OrderInv, NEW f \in Codes, AnswerWaiters(f)
  PROVE  ReadOrder' /\ MonotonicReads'
<1>0. TypeOK
  BY DEF OrderInv
<1>1. f \in Keys /\ f = Lower[f] /\ Loaded(f) /\ flight[f].phase = "put"
  BY KeysLower DEF OrderInv, ReadOrder, AnswerWaiters, Loaded
<1>2. /\ issued[f] \in Nat /\ flight[f].stamp \in Nat /\ stamp[f] \in Nat
      /\ cache[f].stamp \in Nat
  BY <1>0, <1>1, KeyTypes
<1>3. /\ issued[f] <= flight[f].stamp /\ flight[f].stamp <= stamp[f]
      /\ cache[f].left > 0 => cache[f].stamp = flight[f].stamp
  BY <1>1 DEF OrderInv, ReadOrder
<1>4. issued'[f] = flight[f].stamp /\ \A k \in Keys : k # f => issued'[k] = issued[k]
  <2>1. issued' = [issued EXCEPT ![f] = Max2(issued[f], flight[f].stamp)]
    BY <1>1 DEF AnswerWaiters
  <2>2. Max2(issued[f], flight[f].stamp) = flight[f].stamp
    BY <1>2, <1>3 DEF Max2
  <2> QED
    BY <1>0, <1>1, <2>1, <2>2 DEF TypeOK
<1>5. flight'[f].phase = "none" /\ \A g \in Codes : g # f => flight'[g] = flight[g]
  BY <1>0 DEF AnswerWaiters, TypeOK, NoFlight
<1>6. \A k \in Keys : issued[k] <= issued'[k]
  <2> SUFFICES ASSUME NEW k \in Keys PROVE issued[k] <= issued'[k]
    OBVIOUS
  <2>1. issued[k] \in Nat
    BY <1>0, KeyTypes
  <2> QED
    BY <1>2, <1>3, <1>4, <2>1
<1>7. ASSUME NEW k \in Keys
      PROVE  /\ issued'[k] <= stamp[k]
             /\ cache[k].left > 0 =>
                  issued'[k] <= cache[k].stamp /\ cache[k].stamp <= stamp[k]
             /\ Loaded(k)' => /\ k # f /\ Loaded(k)
                              /\ issued'[k] = issued[k]
                              /\ flight'[k] = flight[k]
  <2>1. CASE k = f
    BY <1>2, <1>3, <1>4, <1>5, <2>1 DEF OrderInv, ReadOrder, Loaded
  <2>2. CASE k # f
    <3>1. k \in Codes
      BY KeysLower
    <3> QED
      BY <1>4, <1>5, <2>2, <3>1 DEF OrderInv, ReadOrder, Loaded
  <2> QED
    BY <2>1, <2>2
<1>8. ASSUME NEW r \in Requests, rpc'[r] \in {"load", "wait"}
      PROVE  floor'[r] <= issued'[Lower[rcode'[r]]]
  <2>1. rpc[r] = rpc'[r] /\ floor'[r] = floor[r] /\ rcode'[r] = rcode[r]
    BY <1>8 DEF AnswerWaiters
  <2>2. Lower[rcode[r]] \in Keys /\ floor[r] \in Nat
    BY <1>0, RequestTypes
  <2>3. floor[r] <= issued[Lower[rcode[r]]]
    BY <1>8, <2>1 DEF OrderInv, ReadOrder
  <2>4. /\ issued[Lower[rcode[r]]] \in Nat
        /\ issued'[Lower[rcode[r]]] \in Nat
    BY <1>0, <1>2, <1>4, <2>2 DEF TypeOK
  <2> QED
    BY <1>6, <2>1, <2>2, <2>3, <2>4
<1>9. ReadOrder'
  <2>1. \A g \in Codes : flight'[g].phase # "none" => g = Lower[g]
    BY <1>5 DEF OrderInv, ReadOrder
  <2>2. stamp' = stamp /\ cache' = cache
    BY DEF AnswerWaiters, linkVars
  <2>3. \A k \in Keys : Loaded(k) =>
       /\ issued[k] <= flight[k].stamp
       /\ flight[k].stamp <= stamp[k]
       /\ cache[k].left > 0 =>
            /\ cache[k].stamp <= flight[k].stamp
            /\ flight[k].phase = "put" => cache[k].stamp = flight[k].stamp
    BY DEF OrderInv, ReadOrder
  <2> QED
    BY <1>7, <1>8, <2>1, <2>2, <2>3 DEF ReadOrder
<1>10. MonotonicReads'
  <2> SUFFICES ASSUME NEW r \in Requests, rpc'[r] = "done"
               PROVE  res'[r].stamp >= floor'[r]
    BY DEF MonotonicReads
  <2>1. CASE r \in Waiters(f)
    <3>1. res'[r].stamp = flight[f].stamp /\ floor'[r] = floor[r]
      BY <2>1 DEF AnswerWaiters, AsValue
    <3>2. floor[r] <= issued[f] /\ floor[r] \in Nat
      BY <1>0, <2>1, RequestTypes DEF Waiters, FlightKey, OrderInv, ReadOrder
    <3> QED
      BY <1>2, <1>3, <3>1, <3>2
  <2>2. CASE r \notin Waiters(f)
    BY <2>2 DEF AnswerWaiters, OrderInv, MonotonicReads
  <2> QED
    BY <2>1, <2>2
<1> QED
  BY <1>9, <1>10

\* A failed load answers nobody.
LEMMA OrderFails ==
  ASSUME OrderInv, NEW f \in Codes, LoadFails(f)
  PROVE  ReadOrder' /\ MonotonicReads'
<1>0. TypeOK
  BY DEF OrderInv
<1>1. \A g \in Codes : flight'[g] = flight[g] \/ flight'[g].phase = "none"
  BY <1>0 DEF LoadFails, TypeOK, NoFlight
<1>2. \A r \in Requests : rpc'[r] = rpc[r] \/ rpc'[r] = "error"
  BY DEF LoadFails
<1>3. ReadOrder'
  BY <1>1, <1>2, KeysLower DEF OrderInv, ReadOrder, Loaded, LoadFails, linkVars
<1>4. MonotonicReads'
  BY <1>2 DEF OrderInv, MonotonicReads, LoadFails
<1> QED
  BY <1>3, <1>4

\* Every step keeps the order.
LEMMA OrderNext == OrderInv /\ [Next]_vars => OrderInv'
<1> SUFFICES ASSUME OrderInv, [Next]_vars PROVE OrderInv'
  OBVIOUS
<1>1. TypeOK'
  BY TypeNext DEF OrderInv
<1>2. ReadOrder' /\ MonotonicReads'
  BY OrderLookup, OrderJoin, OrderQuery, OrderFill, OrderAnswer, OrderFails,
     OrderQuiet DEF Next, LoadStep, QuietStep
<1> QED
  BY <1>1, <1>2 DEF OrderInv

\* No visitor is ever answered with an older version of a code than one
\* answered before it asked (ResolveForRedirect, whatever the cache, the
\* loads and the invalidations do).
THEOREM ReadsAreMonotonic == Spec => []MonotonicReads
<1>1. Init => OrderInv
  BY TypeInit, OrderInit DEF OrderInv
<1>2. OrderInv => MonotonicReads
  BY DEF OrderInv
<1> QED
  BY <1>1, <1>2, OrderNext, PTL DEF Spec

-----------------------------------------------------------------------------
(* Staleness.  What a load has read grows old by at most the time the load *)
(* has left, an entry by at most its lifetime on top of that.              *)

Lifetime(missing) == IF missing THEN NegTTL ELSE TTL

LoadAge(f) ==
  /\ f.phase # "none" => f.left <= LoadTimeout
  /\ f.phase \in {"got", "put"} => f.stale + f.left <= LoadTimeout

EntryAge(e) == e.left > 0 => e.stale + e.left <= LoadTimeout + Lifetime(e.missing)

AgesInv ==
  /\ TypeOK
  /\ \A f \in Codes : LoadAge(flight[f])
  /\ \A k \in Keys : EntryAge(cache[k])
  /\ BoundedStaleness

\* Lifetimes and the timeout are numbers, and no lifetime is zero.
LEMMA LifetimeType ==
  /\ LoadTimeout \in Nat
  /\ \A m \in BOOLEAN : Lifetime(m) \in Nat \ {0}
BY TimeAssumption DEF Lifetime

\* A step after which each load, entry and answer is an old one, or none.
LEMMA AgesFrame ==
  ASSUME AgesInv,
         \A f \in Codes : flight'[f] = flight[f] \/ LoadAge(flight'[f]),
         \A k \in Keys : cache'[k] = cache[k] \/ EntryAge(cache'[k]),
         \A r \in Requests : rpc'[r] = "done" => rpc[r] = "done" /\ res'[r] = res[r]
  PROVE  /\ \A f \in Codes : LoadAge(flight'[f])
         /\ \A k \in Keys : EntryAge(cache'[k])
         /\ BoundedStaleness'
BY DEF AgesInv, BoundedStaleness

\* None of them is too old.
LEMMA NothingIsYoung == LoadAge(NoFlight) /\ EntryAge(NoEntry)
BY DEF LoadAge, EntryAge, NoFlight, NoEntry

\* An entry that has not expired is not too old to be an answer.
LEMMA AgesLookup ==
  ASSUME AgesInv, NEW r \in Requests, Lookup(r)
  PROVE  AgesInv'
<1>0. TypeOK /\ TypeOK'
  BY TypeRequests DEF AgesInv
<1>1. PICK c \in Codes :
        /\ Hit(r, c) \/ Miss(r, c)
        /\ UNCHANGED <<linkVars, cache, flight, mutVars, doomed>>
  BY DEF Lookup
<1>2. Lower[c] \in Keys
  BY KeysLower
<1>3. ASSUME NEW q \in Requests, rpc'[q] = "done"
      PROVE  res'[q].stale < LoadTimeout + Lifetime(res'[q].missing)
  <2>1. CASE q = r
    <3>1. Hit(r, c)
      BY <1>0, <1>1, <1>3, <2>1 DEF Miss, TypeOK
    <3>2. res'[r] = AsValue(cache[Lower[c]]) /\ cache[Lower[c]].left > 0
      BY <1>0, <3>1 DEF Hit, TypeOK
    <3>3. EntryAge(cache[Lower[c]])
      BY <1>2 DEF AgesInv
    <3>4. /\ cache[Lower[c]].left \in Nat /\ cache[Lower[c]].stale \in Nat
          /\ cache[Lower[c]].missing \in BOOLEAN
      BY <1>0, <1>2, KeyTypes
    <3>5. cache[Lower[c]].stale < LoadTimeout + Lifetime(cache[Lower[c]].missing)
      BY <3>2, <3>3, <3>4, LifetimeType DEF EntryAge
    <3> QED
      BY <2>1, <3>2, <3>5 DEF AsValue
  <2>2. CASE q # r
    BY <1>0, <1>1, <1>3, <2>2 DEF Hit, Miss, TypeOK, AgesInv, BoundedStaleness, Lifetime
  <2> QED
    BY <2>1, <2>2
<1> QED
  BY <1>0, <1>1, <1>3 DEF AgesInv, BoundedStaleness, Lifetime

\* A load begins, reads, stores and answers within its timeout.
LEMMA AgesLoads ==
  ASSUME AgesInv, NEW f \in Codes, LoadStep(f)
  PROVE  AgesInv'
<1>0. /\ TypeOK /\ TypeOK' /\ flight[f] \in Flight /\ LoadAge(flight[f])
      /\ Lower[f] \in Keys /\ LoadTimeout \in Nat
  BY TypeLoads, KeysLower, LifetimeType DEF AgesInv, TypeOK
<1>1. CASE QueryAnswers(f)
  <2>1. LoadAge(flight'[f])
    BY <1>0, <1>1 DEF QueryAnswers, LoadAge, TypeOK, Flight
  <2>2. \A g \in Codes : g = f \/ flight'[g] = flight[g]
    BY <1>0, <1>1 DEF QueryAnswers, TypeOK
  <2>3. UNCHANGED <<cache, rpc, res>>
    BY <1>1 DEF QueryAnswers, reqVars
  <2> QED
    BY <1>0, <2>1, <2>2, <2>3, AgesFrame DEF AgesInv
<1>2. CASE FillCache(f)
  <2>1. /\ flight[f].phase = "got"
        /\ flight' = [flight EXCEPT ![f] = [flight[f] EXCEPT !.phase = "put"]]
        /\ cache' = [cache EXCEPT ![Lower[f]] = Stored(f, Lifetime(flight[f].missing))]
        /\ UNCHANGED <<rpc, res>>
    BY <1>2 DEF FillCache, Lifetime, reqVars
  <2>2. LoadAge([flight[f] EXCEPT !.phase = "put"])
    BY <1>0, <2>1 DEF LoadAge, Flight
  <2>3. EntryAge(Stored(f, Lifetime(flight[f].missing)))
    <3>1. flight[f].stale \in Nat /\ flight[f].left \in Nat /\ flight[f].missing \in BOOLEAN
      BY <1>0 DEF Flight
    <3>2. flight[f].stale + flight[f].left <= LoadTimeout
      BY <1>0, <2>1 DEF LoadAge
    <3>3. Lifetime(flight[f].missing) \in Nat
      BY <3>1, LifetimeType
    <3>4. flight[f].stale + Lifetime(flight[f].missing)
            <= LoadTimeout + Lifetime(flight[f].missing)
      BY <1>0, <3>1, <3>2, <3>3
    <3> QED
      BY <3>4 DEF EntryAge, Stored
  <2>4. \A g \in Codes : flight'[g] = flight[g] \/ LoadAge(flight'[g])
    BY <1>0, <2>1, <2>2 DEF TypeOK
  <2>5. \A k \in Keys : cache'[k] = cache[k] \/ EntryAge(cache'[k])
    BY <1>0, <2>1, <2>3 DEF TypeOK
  <2> QED
    BY <1>0, <2>1, <2>4, <2>5, AgesFrame DEF AgesInv
<1>3. CASE AnswerWaiters(f)
  <2>1. \A g \in Codes : flight'[g] = flight[g] \/ LoadAge(flight'[g])
    BY <1>0, <1>3, NothingIsYoung DEF AnswerWaiters, TypeOK
  <2>2. cache' = cache
    BY <1>3 DEF AnswerWaiters
  <2>3. ASSUME NEW q \in Requests, rpc'[q] = "done"
        PROVE  res'[q].stale < LoadTimeout + Lifetime(res'[q].missing)
    <3>1. CASE q \in Waiters(f)
      <4>1. res'[q] = AsValue(flight[f])
        BY <1>3, <3>1 DEF AnswerWaiters
      <4>2. flight[f].stale \in Nat /\ flight[f].left \in Nat /\ flight[f].missing \in BOOLEAN
        BY <1>0 DEF Flight
      <4>3. flight[f].stale + flight[f].left <= LoadTimeout
        BY <1>0, <1>3 DEF LoadAge, AnswerWaiters
      <4>4. Lifetime(flight[f].missing) \in Nat \ {0}
        BY <4>2, LifetimeType
      <4>5. flight[f].stale < LoadTimeout + Lifetime(flight[f].missing)
        BY <1>0, <4>2, <4>3, <4>4
      <4> QED
        BY <4>1, <4>5 DEF AsValue
    <3>2. CASE q \notin Waiters(f)
      BY <1>3, <2>3, <3>2 DEF AnswerWaiters, AgesInv, BoundedStaleness, Lifetime
    <3> QED
      BY <3>1, <3>2
  <2>4. BoundedStaleness'
    BY <2>3 DEF BoundedStaleness, Lifetime
  <2> QED
    BY <1>0, <2>1, <2>2, <2>4 DEF AgesInv
<1>4. CASE LoadFails(f)
  <2>1. \A g \in Codes : flight'[g] = flight[g] \/ LoadAge(flight'[g])
    BY <1>0, <1>4, NothingIsYoung DEF LoadFails, TypeOK
  <2>2. \A q \in Requests : rpc'[q] = "done" => rpc[q] = "done" /\ res'[q] = res[q]
    BY <1>4 DEF LoadFails
  <2>3. cache' = cache
    BY <1>4 DEF LoadFails
  <2> QED
    BY <1>0, <2>1, <2>2, <2>3, AgesFrame DEF AgesInv
<1> QED
  BY <1>1, <1>2, <1>3, <1>4 DEF LoadStep

\* A tick takes one off what is left and adds one at most to the age.
LEMMA AgesTick ==
  ASSUME AgesInv, Tick
  PROVE  AgesInv'
<1>0. TypeOK /\ TypeOK' /\ LoadTimeout \in Nat
  BY TypeTick, LifetimeType DEF AgesInv
<1>1. ASSUME NEW k \in Keys PROVE EntryAge(cache'[k])
  <2>1. /\ cache[k] \in Entry /\ stamp[k] \in Nat /\ EntryAge(cache[k])
        /\ cache'[k] = IF cache[k].left <= 1 THEN NoEntry ELSE Aged(cache[k], k)
    BY <1>0 DEF AgesInv, TypeOK, Tick
  <2>2. CASE cache[k].left <= 1
    BY <2>1, <2>2, NothingIsYoung
  <2>3. CASE ~(cache[k].left <= 1)
    <3>1. /\ cache[k].left \in Nat /\ cache[k].stale \in Nat
          /\ Lifetime(cache[k].missing) \in Nat
          /\ Older(cache[k], k) \in {cache[k].stale, cache[k].stale + 1}
      BY <2>1, LifetimeType DEF Entry, Older
    <3>2. /\ cache'[k].left = cache[k].left - 1 /\ cache'[k].stale = Older(cache[k], k)
          /\ cache'[k].missing = cache[k].missing
      BY <2>1, <2>3 DEF Aged, Entry
    <3>3. cache[k].stale + cache[k].left <= LoadTimeout + Lifetime(cache[k].missing)
      BY <2>1, <2>3, <3>1 DEF EntryAge
    <3>4. cache'[k].stale + cache'[k].left <= LoadTimeout + Lifetime(cache[k].missing)
      BY <1>0, <3>1, <3>2, <3>3
    <3> QED
      BY <3>2, <3>4 DEF EntryAge
  <2> QED
    BY <2>2, <2>3
<1>2. ASSUME NEW f \in Codes PROVE LoadAge(flight'[f])
  <2>1. /\ flight[f] \in Flight /\ LoadAge(flight[f]) /\ flight' = LoadsAged
        /\ flight[f].phase # "none" => flight[f].left > 0
    BY <1>0 DEF AgesInv, TypeOK, Tick
  <2>2. flight[f].left \in Nat /\ flight[f].stale \in Nat
    BY <2>1 DEF Flight
  <2>3. CASE flight[f].phase = "none"
    BY <2>1, <2>3, NothingIsYoung DEF LoadsAged
  <2>4. CASE flight[f].phase = "query"
    <3>1. /\ flight'[f].left = flight[f].left - 1 /\ flight'[f].phase = "query"
      BY <2>1, <2>4 DEF LoadsAged, Flight
    <3> QED
      BY <1>0, <2>1, <2>2, <2>4, <3>1 DEF LoadAge
  <2>5. CASE flight[f].phase \in {"got", "put"}
    <3>1. flight'[f] = Aged(flight[f], Lower[f])
      BY <2>1, <2>5 DEF LoadsAged
    <3>2. /\ flight'[f].left = flight[f].left - 1
          /\ flight'[f].stale \in {flight[f].stale, flight[f].stale + 1}
      BY <2>1, <3>1 DEF Aged, Flight, Older
    <3> QED
      BY <1>0, <2>1, <2>2, <2>5, <3>2 DEF LoadAge
  <2> QED
    BY <2>1, <2>3, <2>4, <2>5 DEF Flight
<1>3. BoundedStaleness'
  BY DEF AgesInv, BoundedStaleness, Tick, reqVars
<1> QED
  BY <1>0, <1>1, <1>2, <1>3 DEF AgesInv

\* Every step keeps the ages.
LEMMA AgesNext == AgesInv /\ [Next]_vars => AgesInv'
<1> SUFFICES ASSUME AgesInv, [Next]_vars PROVE AgesInv'
  OBVIOUS
<1>0. TypeOK /\ TypeOK'
  BY TypeNext DEF AgesInv
<1>1. ASSUME NEW r \in Requests, JoinLoad(r) PROVE AgesInv'
  <2>1. LoadAge([NoFlight EXCEPT !.phase = "query", !.left = LoadTimeout])
    BY LifetimeType DEF LoadAge, NoFlight
  <2>2. \A f \in Codes : flight'[f] = flight[f] \/ LoadAge(flight'[f])
    BY <1>0, <1>1, <2>1 DEF JoinLoad, TypeOK
  <2>3. \A q \in Requests : rpc'[q] = "done" => rpc[q] = "done" /\ res'[q] = res[q]
    BY <1>0, <1>1 DEF JoinLoad, TypeOK
  <2>4. cache' = cache
    BY <1>1 DEF JoinLoad
  <2> QED
    BY <1>0, <2>2, <2>3, <2>4, AgesFrame DEF AgesInv
<1>2. CASE \/ \E k \in Keys : Evict(k)
           \/ \E m \in Mutators : StartMutation(m) \/ MutationStep(m)
           \/ \E id \in Links : JobSelects(id) \/ JobPurges(id)
           \/ UNCHANGED vars
  <2> DEFINE Kept == /\ UNCHANGED <<flight, rpc, res>>
                     /\ cache' = cache \/ \E k : cache' = [cache EXCEPT ![k] = NoEntry]
  <2>1. ASSUME NEW k \in Keys, Evict(k) PROVE Kept
    BY <2>1 DEF Evict, reqVars
  <2>2. ASSUME NEW m \in Mutators, StartMutation(m) PROVE Kept
    BY <2>2 DEF StartMutation, reqVars
  <2>3. ASSUME NEW m \in Mutators, Commit(m) \/ CommitFails(m) PROVE Kept
    BY <2>3 DEF Commit, CommitFails, reqVars
  <2>4. ASSUME NEW m \in Mutators, InvalidateOld(m) PROVE Kept
    BY <2>4 DEF InvalidateOld, reqVars
  <2>5. ASSUME NEW m \in Mutators, InvalidateNew(m) PROVE Kept
    BY <2>5 DEF InvalidateNew, reqVars
  <2>6. ASSUME NEW id \in Links, JobSelects(id) \/ JobPurges(id) PROVE Kept
    BY <2>6 DEF JobSelects, JobPurges, reqVars
  <2>7. ASSUME UNCHANGED vars PROVE Kept
    BY <2>7 DEF vars, reqVars
  <2> HIDE DEF Kept
  <2>8. Kept
    BY <1>2, <2>1, <2>2, <2>3, <2>4, <2>5, <2>6, <2>7 DEF MutationStep
  <2>9. \A k \in Keys : cache'[k] = cache[k] \/ EntryAge(cache'[k])
    BY <1>0, <2>8, NothingIsYoung DEF Kept, TypeOK
  <2> QED
    BY <1>0, <2>8, <2>9, AgesFrame DEF Kept, AgesInv
<1> QED
  BY <1>1, <1>2, AgesLookup, AgesLoads, AgesTick DEF Next

\* For any lifetimes and any timeout: no visitor is answered with what was
\* changed longer ago than one lifetime and one load (Cache.Get, Put and
\* PutMissing, ResolveForRedirect), whatever the invalidations miss.
THEOREM StalenessIsBounded == Spec => []BoundedStaleness
<1>1. Init => AgesInv
  BY TypeInit, NothingIsYoung DEF Init, AgesInv, BoundedStaleness
<1>2. AgesInv => BoundedStaleness
  BY DEF AgesInv
<1> QED
  BY <1>1, <1>2, AgesNext, PTL DEF Spec

-----------------------------------------------------------------------------
(* Refinement.  The order of ReadOrder is what MonotoneReads asks of an    *)
(* answer: not older than any answer before it, not newer than the table.  *)

\* What a request asks for and was answered, as MonotoneReads sees it.
Asked    == [r \in Requests |-> Lower[rcode[r]]]
Answered == [r \in Requests |-> IF rpc[r] = "done" THEN res[r].stamp ELSE -1]

\* A state without answers is one MonotoneReads may start in.
LEMMA PromiseInit == Init => Promise!Init
<1> SUFFICES ASSUME Init PROVE Promise!Init
  OBVIOUS
<1>1. /\ stamp = [k \in Keys |-> 0] /\ issued = [k \in Keys |-> 0]
      /\ \A r \in Requests : rpc[r] = "idle" /\ rcode[r] = AnyCode
  BY DEF Init
<1>2. Asked \in [Requests -> Keys]
  BY <1>1, IdleTypes, KeysLower DEF Asked
<1>3. Answered = [r \in Requests |-> -1]
  BY <1>1 DEF Answered
<1> QED
  BY <1>1, <1>2, <1>3 DEF Promise!Init, Promise!Nothing, Asked, Answered

\* What MonotoneReads does not see.
LEMMA Unseen ==
  ASSUME UNCHANGED <<stamp, issued, rcode>>,
         \A q \in Requests : \/ rpc'[q] = rpc[q] /\ res'[q] = res[q]
                             \/ rpc[q] # "done" /\ rpc'[q] # "done"
  PROVE  UNCHANGED Promise!vars
<1>1. Answered' = Answered
  BY DEF Answered
<1> QED
  BY <1>1 DEF Promise!vars, Answered

\* The three ways to ask and to be answered are steps of MonotoneReads.
LEMMA PromiseSteps ==
  /\ \A r \in Requests, k \in Keys : Promise!Ask(r, k) => Promise!Next
  /\ \A r \in Requests, k \in Keys : \A v \in issued[k] .. stamp[k] :
       Promise!AskAnswered(r, k, v) => Promise!Next
  /\ \A R \in SUBSET Requests, k \in Keys : \A v \in issued[k] .. stamp[k] :
       Promise!Answer(R, k, v) => Promise!Next
BY Zenon DEF Promise!Next

\* A hit is a request answered as it arrives, a miss one that arrives.
LEMMA PromiseLookup ==
  ASSUME OrderInv, NEW r \in Requests, Lookup(r)
  PROVE  Promise!Next
<1>0. TypeOK
  BY DEF OrderInv
<1>1. PICK c \in Codes :
        /\ rcode' = [rcode EXCEPT ![r] = c]
        /\ Hit(r, c) \/ Miss(r, c)
        /\ UNCHANGED <<linkVars, cache, flight, mutVars, doomed>>
  BY DEF Lookup
<1> DEFINE k == Lower[c]
<1>2. k \in Keys /\ stamp' = stamp
  BY <1>1, KeysLower DEF linkVars
<1>3. Asked' = [Asked EXCEPT ![r] = k]
  BY <1>0, <1>1 DEF Asked, TypeOK
<1>4. CASE Hit(r, c)
  <2>0. PICK v \in Nat : v = cache[k].stamp
    BY <1>0, <1>2, KeyTypes
  <2>1. /\ issued[k] <= v /\ v <= stamp[k]
        /\ issued[k] \in Nat /\ stamp[k] \in Nat
    BY <1>0, <1>2, <1>4, <2>0, KeyTypes DEF OrderInv, ReadOrder, Hit
  <2>2. v \in issued[k] .. stamp[k]
    BY <2>1
  <2>3. Max2(issued[k], v) = v
    BY <2>1 DEF Max2
  <2>4. issued' = [issued EXCEPT ![k] = v]
    BY <1>2, <1>4, <2>0, <2>3 DEF Hit
  <2>5. Answered' = [Answered EXCEPT ![r] = v]
    BY <1>0, <1>4, <2>0 DEF Answered, Hit, AsValue, TypeOK
  <2>6. Promise!AskAnswered(r, k, v)
    BY <1>2, <1>3, <2>2, <2>4, <2>5 DEF Promise!AskAnswered, Asked, Answered
  <2> QED
    BY <1>2, <2>2, <2>6, PromiseSteps
<1>5. CASE Miss(r, c)
  <2>1. Answered' = [Answered EXCEPT ![r] = -1]
    BY <1>0, <1>5 DEF Answered, Miss, TypeOK
  <2>2. Promise!Ask(r, k)
    BY <1>2, <1>3, <1>5, <2>1 DEF Promise!Ask, Promise!Nothing, Asked, Answered, Miss
  <2> QED
    BY <1>2, <2>2, PromiseSteps
<1> QED
  BY <1>1, <1>4, <1>5

\* The waiters of a load are answered together.
LEMMA PromiseAnswer ==
  ASSUME OrderInv, NEW f \in Codes, AnswerWaiters(f)
  PROVE  Promise!Next
<1>0. TypeOK
  BY DEF OrderInv
<1>1. f \in Keys /\ f = Lower[f] /\ Loaded(f)
  BY KeysLower DEF OrderInv, ReadOrder, AnswerWaiters, Loaded
<1>2. PICK v \in Nat, R \in SUBSET Requests : v = flight[f].stamp /\ R = Waiters(f)
  BY <1>0, <1>1, KeyTypes DEF Waiters
<1>3. /\ issued[f] <= v /\ v <= stamp[f]
      /\ issued[f] \in Nat /\ stamp[f] \in Nat
  BY <1>0, <1>1, <1>2, KeyTypes DEF OrderInv, ReadOrder
<1>4. v \in issued[f] .. stamp[f]
  BY <1>3
<1>5. Max2(issued[f], v) = v
  BY <1>3 DEF Max2
<1>6. issued' = [issued EXCEPT ![f] = v]
  BY <1>1, <1>2, <1>5 DEF AnswerWaiters
<1>7. \A r \in R : r \in Requests /\ Answered[r] = -1 /\ Asked[r] = f
  BY <1>2 DEF Waiters, FlightKey, Answered, Asked
<1>8. Answered' = [r \in Requests |-> IF r \in R THEN v ELSE Answered[r]]
  BY <1>2 DEF AnswerWaiters, AsValue, Answered
<1>9. stamp' = stamp /\ Asked' = Asked
  BY DEF AnswerWaiters, linkVars, Asked
<1>10. Promise!Answer(R, f, v)
  BY <1>4, <1>6, <1>7, <1>8, <1>9 DEF Promise!Answer, Promise!Nothing, Asked, Answered
<1> QED
  BY <1>1, <1>4, <1>10, PromiseSteps

\* A commit changes the rows behind the keys it writes, a purge behind one.
LEMMA PromiseChange ==
  ASSUME UNCHANGED reqVars, NEW S \in SUBSET Keys, stamp' = Bump(S)
  PROVE  Promise!Next
<1>1. Promise!Change(S)
  BY DEF reqVars, Bump, Promise!Change
<1> QED
  BY <1>1 DEF Promise!Next

\* A handler changes keys, whatever it has read of the link before.
LEMMA ChangesKeys ==
  ASSUME TypeOK, NEW m \in Mutators
  PROVE  Changed(m) \in SUBSET Keys
<1>1. /\ mut[m] \in [op : Ops, id : Links, old : Codes, new : Codes]
      /\ links[mut[m].id] \in [code : Codes, st : States]
  BY DEF TypeOK
<1>2. NewRow(m).code \in Codes
  BY <1>1 DEF NewRow, Ops
<1> QED
  BY <1>1, <1>2, KeysLower DEF Changed

\* Every step is a step of MonotoneReads or one it does not see.
LEMMA PromiseNext == OrderInv /\ [Next]_vars => [Promise!Next]_(Promise!vars)
<1> SUFFICES ASSUME OrderInv, [Next]_vars
             PROVE  Promise!Next \/ UNCHANGED Promise!vars
  OBVIOUS
<1>0. TypeOK
  BY DEF OrderInv
<1>1. ASSUME NEW r \in Requests, JoinLoad(r) PROVE UNCHANGED Promise!vars
  <2>1. UNCHANGED <<stamp, issued, rcode, res>>
    BY <1>1 DEF JoinLoad, linkVars
  <2>2. \A q \in Requests : rpc'[q] = rpc[q] \/ (rpc[q] # "done" /\ rpc'[q] # "done")
    BY <1>0, <1>1 DEF JoinLoad, TypeOK
  <2> QED
    BY <2>1, <2>2, Unseen
<1>2. ASSUME NEW f \in Codes, LoadFails(f) PROVE UNCHANGED Promise!vars
  <2>1. UNCHANGED <<stamp, issued, rcode, res>>
    BY <1>2 DEF LoadFails, linkVars
  <2>2. \A q \in Requests : rpc'[q] = rpc[q] \/ (rpc[q] # "done" /\ rpc'[q] # "done")
    BY <1>2 DEF LoadFails, Waiters
  <2> QED
    BY <2>1, <2>2, Unseen
<1>3. ASSUME NEW m \in Mutators, Commit(m) PROVE Promise!Next
  BY <1>0, <1>3, ChangesKeys, PromiseChange DEF Commit
<1>4. ASSUME NEW id \in Links, JobPurges(id)
      PROVE  Promise!Next \/ UNCHANGED Promise!vars
  <2>1. {Lower[links[id].code]} \in SUBSET Keys /\ UNCHANGED reqVars
    BY <1>0, <1>4, KeysLower DEF JobPurges, TypeOK
  <2>2. CASE stamp' = stamp
    BY <2>1, <2>2, Unseen DEF reqVars
  <2>3. CASE stamp' = Bump({Lower[links[id].code]})
    BY <2>1, <2>3, PromiseChange
  <2> QED
    BY <1>4, <2>2, <2>3 DEF JobPurges
<1>5. CASE \/ \E f \in Codes : QueryAnswers(f) \/ FillCache(f)
           \/ \E k \in Keys : Evict(k)
           \/ \E m \in Mutators : \/ StartMutation(m) \/ CommitFails(m)
                                  \/ InvalidateOld(m) \/ InvalidateNew(m)
           \/ \E id \in Links : JobSelects(id)
           \/ Tick
           \/ UNCHANGED vars
  <2>1. UNCHANGED <<stamp, reqVars>>
    BY <1>5 DEF QueryAnswers, FillCache, Evict, StartMutation, CommitFails,
                InvalidateOld, InvalidateNew, JobSelects, Tick, vars, linkVars
  <2> QED
    BY <2>1, Unseen DEF reqVars
<1> QED
  BY <1>1, <1>2, <1>3, <1>4, <1>5, PromiseLookup, PromiseAnswer
     DEF Next, LoadStep, MutationStep

\* For any codes, visitors and handlers, the cache with its loads and its
\* invalidations (ResolveForRedirect) gives visitors what MonotoneReads does.
THEOREM CacheImplementsPromise == Spec => ImplementsMonotoneReads
<1>1. Init => OrderInv
  BY TypeInit, OrderInit DEF OrderInv
<1> QED
  BY <1>1, OrderNext, PromiseInit, PromiseNext, PTL
     DEF Spec, ImplementsMonotoneReads, Promise!Spec

-----------------------------------------------------------------------------
(* Write-through.  Between its commit and its answer a handler owes its    *)
(* client the invalidation of the keys it changed.  For a key whose change *)
(* did not race, what could still bring the old version back is under      *)
(* control: no load holds it (Owed, Paid), and an entry can be older than  *)
(* the change only until the handler gets to it.                           *)

\* Handlers that have committed: no load holds what they replaced, and the
\* entry of the code they have invalidated first is as new as their change.
Owed ==
  \A m \in Mutators, k \in Keys :
    /\ mack[m][k] <= stamp[k]
    /\ mack[m][k] > 0 => /\ mpc[m] \in {"invOld", "invNew"}
                         /\ k \in raced \cup Invalidated(m)
    /\ k \notin raced /\ Loaded(k) => flight[k].stamp >= mack[m][k]
    /\ /\ k \notin raced /\ cache[k].left > 0
       /\ mpc[m] = "invNew" /\ k = Lower[mut[m].old]
       => cache[k].stamp >= mack[m][k]

\* Handlers that have answered: neither a load nor an entry is older.
Paid ==
  \A k \in Keys :
    k \notin raced => /\ Loaded(k) => flight[k].stamp >= acked[k]
                      /\ cache[k].left > 0 => cache[k].stamp >= acked[k]

\* A request still to be answered came after no more than was acknowledged.
Before ==
  \A r \in Requests : rpc[r] \in {"load", "wait"} => fresh[r] <= acked[Lower[rcode[r]]]

Acks == \A k \in Keys : acked[k] <= stamp[k]

WriteInv == OrderInv /\ Owed /\ Paid /\ Before /\ Acks /\ WriteThroughUnlessRaced

\* The numbers of a handler and of a request.
LEMMA AckTypes ==
  ASSUME TypeOK
  PROVE  /\ \A k \in Keys : acked[k] \in Nat
         /\ \A m \in Mutators, k \in Keys : mack[m][k] \in Nat
         /\ \A r \in Requests : fresh[r] \in Nat
<1>1. \A m \in Mutators : mack[m] \in [Keys -> Nat]
  BY DEF TypeOK
<1> QED
  BY <1>1 DEF TypeOK

\* Nothing is owed, paid or asked for in the initial state.
LEMMA WriteInit == Init => WriteInv
<1> SUFFICES ASSUME Init PROVE WriteInv
  OBVIOUS
<1>1. /\ \A f \in Codes : flight[f].phase = "none"
      /\ \A k \in Keys : acked[k] = 0 /\ stamp[k] = 0 /\ cache[k].left = 0
      /\ \A m \in Mutators, k \in Keys : mack[m][k] = 0
      /\ \A r \in Requests : rpc[r] = "idle"
  BY DEF Init, NoFlight, NoEntry
<1>2. \A k \in Keys : ~Loaded(k)
  BY <1>1, KeysLower DEF Loaded
<1>3. Owed
  BY <1>1, <1>2 DEF Owed
<1>4. Paid /\ Before /\ Acks /\ WriteThroughUnlessRaced
  BY <1>1, <1>2 DEF Paid, Before, Acks, WriteThroughUnlessRaced
<1> QED
  BY <1>3, <1>4, TypeInit, OrderInit DEF WriteInv, OrderInv

\* A load reads the current version, an entry is what a load has read: without
\* a step of a handler nothing older than what is owed or paid appears.
LEMMA WriteFrame ==
  ASSUME WriteInv, UNCHANGED <<mutVars, raced>>, stamp' \in [Keys -> Nat],
         \A k \in Keys : stamp[k] <= stamp'[k],
         \A k \in Keys : cache'[k].left > 0 =>
           \/ cache[k].left > 0 /\ cache'[k].stamp = cache[k].stamp
           \/ Loaded(k) /\ cache'[k].stamp = flight[k].stamp,
         \A k \in Keys : Loaded(k)' =>
           \/ Loaded(k) /\ flight'[k].stamp = flight[k].stamp
           \/ flight'[k].stamp = stamp[k]
  PROVE  Owed' /\ Paid' /\ Acks'
<1>0. TypeOK
  BY DEF WriteInv, OrderInv
<1>1. /\ mack' = mack /\ mpc' = mpc /\ mut' = mut /\ acked' = acked /\ raced' = raced
      /\ \A m \in Mutators : Invalidated(m)' = Invalidated(m)
  BY DEF mutVars, Invalidated
<1>2. ASSUME NEW m \in Mutators, NEW k \in Keys
      PROVE  /\ mack[m][k] <= stamp'[k]
             /\ mack[m][k] > 0 => /\ mpc[m] \in {"invOld", "invNew"}
                                  /\ k \in raced \cup Invalidated(m)
             /\ k \notin raced /\ Loaded(k)' => flight'[k].stamp >= mack[m][k]
             /\ /\ k \notin raced /\ cache'[k].left > 0
                /\ mpc[m] = "invNew" /\ k = Lower[mut[m].old]
                => cache'[k].stamp >= mack[m][k]
  <2>1. /\ mack[m][k] <= stamp[k]
        /\ mack[m][k] > 0 => /\ mpc[m] \in {"invOld", "invNew"}
                             /\ k \in raced \cup Invalidated(m)
        /\ k \notin raced /\ Loaded(k) => flight[k].stamp >= mack[m][k]
        /\ /\ k \notin raced /\ cache[k].left > 0
           /\ mpc[m] = "invNew" /\ k = Lower[mut[m].old]
           => cache[k].stamp >= mack[m][k]
    BY DEF WriteInv, Owed
  <2>2. mack[m][k] \in Nat /\ stamp[k] \in Nat /\ stamp'[k] \in Nat /\ stamp[k] <= stamp'[k]
    BY <1>0, AckTypes, KeyTypes
  <2> QED
    BY <2>1, <2>2
<1>3. ASSUME NEW k \in Keys
      PROVE  /\ acked[k] <= stamp'[k]
             /\ k \notin raced => /\ Loaded(k)' => flight'[k].stamp >= acked[k]
                                  /\ cache'[k].left > 0 => cache'[k].stamp >= acked[k]
  <2>1. /\ acked[k] <= stamp[k]
        /\ k \notin raced => /\ Loaded(k) => flight[k].stamp >= acked[k]
                             /\ cache[k].left > 0 => cache[k].stamp >= acked[k]
    BY DEF WriteInv, Paid, Acks
  <2>2. acked[k] \in Nat /\ stamp[k] \in Nat /\ stamp'[k] \in Nat /\ stamp[k] <= stamp'[k]
    BY <1>0, AckTypes, KeyTypes
  <2> QED
    BY <2>1, <2>2
<1>4. Owed'
  BY <1>1, <1>2 DEF Owed
<1>5. Paid' /\ Acks'
  BY <1>1, <1>3 DEF Paid, Acks
<1> QED
  BY <1>4, <1>5

\* A visitor who is served from the cache sees what was acknowledged.
LEMMA WriteLookup ==
  ASSUME WriteInv, NEW r \in Requests, Lookup(r)
  PROVE  Owed' /\ Paid' /\ Acks' /\ Before' /\ WriteThroughUnlessRaced'
<1>0. TypeOK
  BY DEF WriteInv, OrderInv
<1>1. PICK c \in Codes :
        /\ rcode' = [rcode EXCEPT ![r] = c]
        /\ fresh' = [fresh EXCEPT ![r] = acked[Lower[c]]]
        /\ Hit(r, c) \/ Miss(r, c)
        /\ UNCHANGED <<linkVars, cache, flight, mutVars, doomed>>
  BY DEF Lookup
<1>2. Lower[c] \in Keys
  BY KeysLower
<1>3. UNCHANGED <<stamp, raced, cache, flight, mutVars, acked>>
  BY <1>1 DEF linkVars, mutVars
<1>4. Owed' /\ Paid' /\ Acks'
  <2>1. \A k \in Keys : stamp[k] <= stamp'[k]
    BY <1>0, <1>3, KeyTypes
  <2>2. \A k \in Keys : Loaded(k)' => Loaded(k) /\ flight'[k].stamp = flight[k].stamp
    BY <1>3 DEF Loaded
  <2>3. stamp' \in [Keys -> Nat] /\ UNCHANGED <<mutVars, raced>>
    BY <1>0, <1>3 DEF TypeOK
  <2>4. \A k \in Keys : cache'[k] = cache[k]
    BY <1>3
  <2> QED
    BY <2>1, <2>2, <2>3, <2>4, WriteFrame
<1>5. /\ rcode'[r] = c /\ fresh'[r] = acked[Lower[c]] /\ acked[Lower[c]] \in Nat
      /\ \A q \in Requests : q # r => /\ rcode'[q] = rcode[q] /\ fresh'[q] = fresh[q]
                                      /\ rpc'[q] = rpc[q] /\ res'[q] = res[q]
  BY <1>0, <1>1, <1>2, AckTypes DEF TypeOK, Hit, Miss
<1>6. Before'
  <2> SUFFICES ASSUME NEW q \in Requests, rpc'[q] \in {"load", "wait"}
               PROVE  fresh'[q] <= acked[Lower[rcode'[q]]]
    BY <1>3 DEF Before
  <2>1. CASE q = r
    BY <1>5, <2>1
  <2>2. CASE q # r
    BY <1>5, <2>2 DEF WriteInv, Before
  <2> QED
    BY <2>1, <2>2
<1>7. WriteThroughUnlessRaced'
  <2> SUFFICES ASSUME NEW q \in Requests, rpc'[q] = "done", Lower[rcode'[q]] \notin raced
               PROVE  res'[q].stamp >= fresh'[q]
    BY <1>3 DEF WriteThroughUnlessRaced
  <2>1. CASE q = r
    <3>1. Hit(r, c)
      BY <1>0, <1>1, <2>1 DEF Miss, TypeOK
    <3>2. res'[r].stamp = cache[Lower[c]].stamp /\ cache[Lower[c]].left > 0
      BY <1>0, <3>1 DEF Hit, AsValue, TypeOK
    <3> QED
      BY <1>2, <1>5, <2>1, <3>2 DEF WriteInv, Paid
  <2>2. CASE q # r
    BY <1>5, <2>2 DEF WriteInv, WriteThroughUnlessRaced
  <2> QED
    BY <2>1, <2>2
<1> QED
  BY <1>4, <1>6, <1>7

\* So does one who waits for a load.
LEMMA WriteLoads ==
  ASSUME WriteInv, NEW f \in Codes, LoadStep(f)
  PROVE  Owed' /\ Paid' /\ Acks' /\ Before' /\ WriteThroughUnlessRaced'
<1>0. /\ TypeOK /\ ReadOrder /\ Before /\ WriteThroughUnlessRaced
      /\ UNCHANGED <<stamp, raced, acked, fresh, rcode, mutVars>>
  BY DEF WriteInv, OrderInv, LoadStep, QueryAnswers, FillCache, AnswerWaiters, LoadFails,
         linkVars, reqVars, mutVars
<1>1. f \in Keys /\ f = Lower[f]
  <2>1. flight[f].phase # "none"
    BY DEF LoadStep, QueryAnswers, FillCache, AnswerWaiters, LoadFails
  <2> QED
    BY <1>0, <2>1, KeysLower DEF ReadOrder
<1>2. \A k \in Keys : k # f => cache'[k] = cache[k] /\ flight'[k] = flight[k]
  BY <1>0, <1>1, KeysLower
     DEF LoadStep, QueryAnswers, FillCache, AnswerWaiters, LoadFails, TypeOK
<1>3. /\ cache'[f].left > 0 =>
           \/ cache[f].left > 0 /\ cache'[f].stamp = cache[f].stamp
           \/ Loaded(f) /\ cache'[f].stamp = flight[f].stamp
      /\ flight'[f].phase \in {"got", "put"} =>
           \/ Loaded(f) /\ flight'[f].stamp = flight[f].stamp
           \/ flight'[f].stamp = stamp[f]
  <2>0. flight[f] \in Flight
    BY <1>0 DEF TypeOK
  <2>1. CASE QueryAnswers(f)
    BY <1>0, <1>1, <2>1 DEF QueryAnswers, CurrentValue, TypeOK
  <2>2. CASE FillCache(f)
    BY <1>0, <1>1, <2>0, <2>2 DEF FillCache, Stored, Loaded, TypeOK, Flight
  <2>3. CASE AnswerWaiters(f) \/ LoadFails(f)
    BY <1>0, <2>3 DEF AnswerWaiters, LoadFails, TypeOK, NoFlight
  <2> QED
    BY <2>1, <2>2, <2>3 DEF LoadStep
<1>4. Owed' /\ Paid' /\ Acks'
  <2>1. stamp' \in [Keys -> Nat] /\ \A k \in Keys : stamp[k] <= stamp'[k]
    BY <1>0, KeyTypes DEF TypeOK
  <2>2. \A k \in Keys : cache'[k].left > 0 =>
          \/ cache[k].left > 0 /\ cache'[k].stamp = cache[k].stamp
          \/ Loaded(k) /\ cache'[k].stamp = flight[k].stamp
    BY <1>2, <1>3
  <2>3. \A k \in Keys : Loaded(k)' =>
          \/ Loaded(k) /\ flight'[k].stamp = flight[k].stamp
          \/ flight'[k].stamp = stamp[k]
    BY <1>2, <1>3 DEF Loaded
  <2> QED
    BY <1>0, <2>1, <2>2, <2>3, WriteFrame
<1>5. \A r \in Requests :
        \/ rpc'[r] = rpc[r] /\ res'[r] = res[r]
        \/ rpc'[r] = "error"
        \/ /\ rpc[r] = "wait" /\ Lower[rcode[r]] = f /\ Loaded(f)
           /\ rpc'[r] = "done" /\ res'[r].stamp = flight[f].stamp
  <2>1. CASE QueryAnswers(f) \/ FillCache(f)
    BY <2>1 DEF QueryAnswers, FillCache, reqVars
  <2>2. CASE AnswerWaiters(f)
    BY <2>2 DEF AnswerWaiters, Waiters, FlightKey, AsValue, Loaded
  <2>3. CASE LoadFails(f)
    BY <2>3 DEF LoadFails
  <2> QED
    BY <2>1, <2>2, <2>3 DEF LoadStep
<1>6. Before'
  BY <1>0, <1>5 DEF Before
<1>7. WriteThroughUnlessRaced'
  <2> SUFFICES ASSUME NEW r \in Requests, rpc'[r] = "done", Lower[rcode[r]] \notin raced
               PROVE  res'[r].stamp >= fresh[r]
    BY <1>0 DEF WriteThroughUnlessRaced
  <2>1. CASE rpc'[r] = rpc[r] /\ res'[r] = res[r]
    BY <1>0, <2>1 DEF WriteThroughUnlessRaced
  <2>2. CASE /\ rpc[r] = "wait" /\ Lower[rcode[r]] = f /\ Loaded(f)
             /\ res'[r].stamp = flight[f].stamp
    <3>1. fresh[r] <= acked[f]
      BY <1>0, <2>2 DEF Before
    <3>2. flight[f].stamp >= acked[f]
      BY <1>1, <2>2 DEF WriteInv, Paid
    <3>3. fresh[r] \in Nat /\ acked[f] \in Nat /\ flight[f].stamp \in Nat
      BY <1>0, <1>1, AckTypes, KeyTypes
    <3> QED
      BY <2>2, <3>1, <3>2, <3>3
  <2> QED
    BY <1>5, <2>1, <2>2
<1> QED
  BY <1>4, <1>6, <1>7

\* A load that begins has read nothing.
LEMMA WriteJoin ==
  ASSUME WriteInv, NEW r \in Requests, JoinLoad(r)
  PROVE  Owed' /\ Paid' /\ Acks' /\ Before' /\ WriteThroughUnlessRaced'
<1>0. TypeOK /\ Before /\ WriteThroughUnlessRaced
  BY DEF WriteInv, OrderInv
<1>1. /\ UNCHANGED <<stamp, raced, cache, acked, fresh, rcode, res, mutVars>>
      /\ rpc[r] = "load" /\ rpc' = [rpc EXCEPT ![r] = "wait"]
  BY DEF JoinLoad, linkVars, mutVars
<1>2. \A k \in Keys : Loaded(k)' => Loaded(k) /\ flight'[k].stamp = flight[k].stamp
  BY <1>0, KeysLower DEF JoinLoad, Loaded, TypeOK, NoFlight
<1>3. stamp' \in [Keys -> Nat] /\ \A k \in Keys : stamp[k] <= stamp'[k]
  BY <1>0, <1>1, KeyTypes DEF TypeOK
<1>4. \A k \in Keys : cache'[k] = cache[k]
  BY <1>1
<1>5. Owed' /\ Paid' /\ Acks'
  BY <1>1, <1>2, <1>3, <1>4, WriteFrame
<1>6. \A q \in Requests : rpc'[q] = rpc[q] \/ (rpc[q] = "load" /\ rpc'[q] = "wait")
  BY <1>0, <1>1 DEF TypeOK
<1>7. Before'
  BY <1>0, <1>1, <1>6 DEF Before
<1>8. WriteThroughUnlessRaced'
  BY <1>0, <1>1, <1>6 DEF WriteThroughUnlessRaced
<1> QED
  BY <1>5, <1>7, <1>8

\* What a handler acknowledges and what races only grows, so a request is no
\* worse off for a step that leaves the requests alone.
LEMMA WriteRequests ==
  ASSUME WriteInv, UNCHANGED reqVars, TypeOK', raced \subseteq raced',
         \A k \in Keys : acked[k] <= acked'[k]
  PROVE  Before' /\ WriteThroughUnlessRaced'
<1>0. TypeOK /\ Before /\ WriteThroughUnlessRaced
  BY DEF WriteInv, OrderInv
<1>1. UNCHANGED <<rpc, rcode, res, fresh>>
  BY DEF reqVars
<1>2. ASSUME NEW r \in Requests, rpc[r] \in {"load", "wait"}
      PROVE  fresh[r] <= acked'[Lower[rcode[r]]]
  <2>1. /\ Lower[rcode[r]] \in Keys /\ fresh[r] \in Nat
        /\ acked[Lower[rcode[r]]] \in Nat /\ acked'[Lower[rcode[r]]] \in Nat
    BY <1>0, RequestTypes DEF TypeOK
  <2>2. fresh[r] <= acked[Lower[rcode[r]]]
    BY <1>0, <1>2 DEF Before
  <2> QED
    BY <2>1, <2>2
<1>3. Before'
  BY <1>1, <1>2 DEF Before
<1>4. WriteThroughUnlessRaced'
  BY <1>0, <1>1 DEF WriteThroughUnlessRaced
<1> QED
  BY <1>3, <1>4

\* Evictions, the purge job and time owe nobody anything.
LEMMA WriteQuiet ==
  ASSUME WriteInv,
         \/ \E k \in Keys : Evict(k)
         \/ \E id \in Links : JobSelects(id) \/ JobPurges(id)
         \/ Tick
         \/ UNCHANGED vars
  PROVE  Owed' /\ Paid' /\ Acks' /\ Before' /\ WriteThroughUnlessRaced'
<1>0. TypeOK /\ QuietStep /\ TypeOK'
  BY TypeNext DEF WriteInv, OrderInv, QuietStep, Next
<1>1. UNCHANGED <<mutVars, raced, reqVars>>
  BY <1>0, Quiet DEF Evict, JobSelects, JobPurges, Tick, vars, linkVars
<1>2. \A k \in Keys : Loaded(k)' => Loaded(k) /\ flight'[k].stamp = flight[k].stamp
  BY <1>0, Quiet, KeysLower DEF Loaded
<1>3. Owed' /\ Paid' /\ Acks'
  BY <1>0, <1>1, <1>2, Quiet, WriteFrame
<1>4. \A k \in Keys : acked[k] <= acked'[k]
  BY <1>0, <1>1, AckTypes DEF mutVars
<1> QED
  BY <1>0, <1>1, <1>3, <1>4, WriteRequests

\* A handler that has not committed owes nothing.
LEMMA WriteStart ==
  ASSUME WriteInv, NEW m \in Mutators, StartMutation(m) \/ CommitFails(m)
  PROVE  Owed' /\ Paid' /\ Acks' /\ Before' /\ WriteThroughUnlessRaced'
<1>0. TypeOK /\ TypeOK' /\ Owed /\ Paid /\ Acks
  BY TypeNext DEF WriteInv, OrderInv, Next, MutationStep
<1>1. /\ UNCHANGED <<stamp, raced, cache, flight, reqVars, mack, acked>>
      /\ mpc[m] \in {"idle", "commit"} /\ mpc'[m] \in {"idle", "commit"}
      /\ \A n \in Mutators : n # m => mpc'[n] = mpc[n] /\ mut'[n] = mut[n]
  BY <1>0 DEF StartMutation, CommitFails, linkVars, TypeOK
<1>2. \A k \in Keys : Loaded(k)' = Loaded(k)
  BY <1>1 DEF Loaded
<1>3. Owed'
  <2> SUFFICES ASSUME NEW n \in Mutators, NEW k \in Keys
      PROVE  /\ mack[n][k] <= stamp[k]
             /\ mack[n][k] > 0 => /\ mpc'[n] \in {"invOld", "invNew"}
                                  /\ k \in raced \cup Invalidated(n)'
             /\ k \notin raced /\ Loaded(k) => flight[k].stamp >= mack[n][k]
             /\ /\ k \notin raced /\ cache[k].left > 0
                /\ mpc'[n] = "invNew" /\ k = Lower[mut'[n].old]
                => cache[k].stamp >= mack[n][k]
    BY <1>1, <1>2 DEF Owed
  <2>1. CASE n = m
    BY <1>0, <1>1, <2>1 DEF Owed
  <2>2. CASE n # m
    BY <1>0, <1>1, <2>2 DEF Owed, Invalidated
  <2> QED
    BY <2>1, <2>2
<1>4. Paid' /\ Acks'
  BY <1>0, <1>1, <1>2 DEF Paid, Acks
<1>5. \A k \in Keys : acked[k] <= acked'[k]
  BY <1>0, <1>1, AckTypes
<1> QED
  BY <1>0, <1>1, <1>3, <1>4, <1>5, WriteRequests

\* A commit that a load has outrun, or that changes a key the handler will
\* not invalidate, races; of the others no load holds the old version.
LEMMA WriteCommit ==
  ASSUME WriteInv, NEW m \in Mutators, Commit(m)
  PROVE  Owed' /\ Paid' /\ Acks' /\ Before' /\ WriteThroughUnlessRaced'
<1>0. TypeOK /\ TypeOK' /\ Owed /\ Paid /\ Acks
  BY TypeNext DEF WriteInv, OrderInv, Next, MutationStep
<1>1. /\ UNCHANGED <<cache, flight, reqVars, mut, acked>>
      /\ stamp' = Bump(Changed(m)) /\ mpc' = [mpc EXCEPT ![m] = "invOld"]
      /\ mack' = [mack EXCEPT ![m] =
                    [k \in Keys |-> IF k \in Changed(m) THEN stamp[k] + 1 ELSE 0]]
      /\ raced \subseteq raced'
  BY DEF Commit
<1>2. ASSUME NEW k \in Keys, k \in Changed(m), k \notin raced'
      PROVE  ~Loaded(k) /\ k \in Invalidated(m)
  <2>1. k \in Codes /\ FlightKey(k) = k
    BY KeysLower DEF FlightKey
  <2> QED
    BY <1>2, <2>1 DEF Commit, Loaded
<1>3. \A k \in Keys : stamp[k] \in Nat /\ stamp'[k] \in Nat /\ stamp[k] <= stamp'[k]
  BY <1>0, <1>1, KeyTypes DEF Bump
<1>4. \A k \in Keys : mack'[m][k] = IF k \in Changed(m) THEN stamp'[k] ELSE 0
  BY <1>0, <1>1 DEF TypeOK, Bump
<1>5. \A k \in Keys : Loaded(k)' = Loaded(k)
  BY <1>1 DEF Loaded
<1>6. Owed'
  <2> SUFFICES ASSUME NEW n \in Mutators, NEW k \in Keys
      PROVE  /\ mack'[n][k] <= stamp'[k]
             /\ mack'[n][k] > 0 => /\ mpc'[n] \in {"invOld", "invNew"}
                                   /\ k \in raced' \cup Invalidated(n)
             /\ k \notin raced' /\ Loaded(k) => flight[k].stamp >= mack'[n][k]
             /\ /\ k \notin raced' /\ cache[k].left > 0
                /\ mpc'[n] = "invNew" /\ k = Lower[mut[n].old]
                => cache[k].stamp >= mack'[n][k]
    BY <1>1, <1>5 DEF Owed, Invalidated
  <2>1. CASE n = m
    <3>1. mpc'[m] = "invOld" /\ flight[k].stamp \in Nat
      BY <1>0, <1>1, KeyTypes DEF TypeOK
    <3>2. CASE k \in Changed(m)
      BY <1>2, <1>3, <1>4, <2>1, <3>1, <3>2
    <3>3. CASE k \notin Changed(m)
      BY <1>3, <1>4, <2>1, <3>1, <3>3
    <3> QED
      BY <3>2, <3>3
  <2>2. CASE n # m
    <3>1. mack'[n] = mack[n] /\ mpc'[n] = mpc[n]
      BY <1>0, <1>1, <2>2 DEF TypeOK
    <3>2. /\ mack[n][k] <= stamp[k] /\ mack[n][k] \in Nat
          /\ mack[n][k] > 0 => /\ mpc[n] \in {"invOld", "invNew"}
                               /\ k \in raced \cup Invalidated(n)
          /\ k \notin raced /\ Loaded(k) => flight[k].stamp >= mack[n][k]
          /\ /\ k \notin raced /\ cache[k].left > 0
             /\ mpc[n] = "invNew" /\ k = Lower[mut[n].old]
             => cache[k].stamp >= mack[n][k]
      BY <1>0, AckTypes DEF Owed
    <3> QED
      BY <1>1, <1>3, <3>1, <3>2
  <2> QED
    BY <2>1, <2>2
<1>7. Paid'
  BY <1>0, <1>1, <1>5 DEF Paid
<1>8. Acks'
  <2> SUFFICES ASSUME NEW k \in Keys PROVE acked[k] <= stamp'[k]
    BY <1>1 DEF Acks
  <2>1. acked[k] <= stamp[k] /\ acked[k] \in Nat
    BY <1>0, AckTypes DEF Acks
  <2> QED
    BY <1>3, <2>1
<1>9. \A k \in Keys : acked[k] <= acked'[k]
  BY <1>0, <1>1, AckTypes
<1> QED
  BY <1>0, <1>1, <1>6, <1>7, <1>8, <1>9, WriteRequests

\* A handler answers when its last invalidation leaves no entry older than
\* its change.
LEMMA WriteReturn ==
  ASSUME WriteInv, NEW m \in Mutators, Return(m), TypeOK',
         UNCHANGED <<linkVars, flight, reqVars>>,
         \A k \in Keys : cache'[k] = cache[k] \/ cache'[k].left = 0,
         \A k \in Keys : k \notin raced /\ cache'[k].left > 0 =>
                           cache[k].stamp >= mack[m][k]
  PROVE  Owed' /\ Paid' /\ Acks' /\ Before' /\ WriteThroughUnlessRaced'
<1>0. TypeOK /\ Owed /\ Paid /\ Acks
  BY DEF WriteInv, OrderInv
<1>1. UNCHANGED <<stamp, raced>> /\ \A k \in Keys : Loaded(k)' = Loaded(k)
  BY DEF linkVars, Loaded
<1>2. /\ mpc'[m] = "idle" /\ \A k \in Keys : mack'[m][k] = 0
      /\ \A n \in Mutators : n # m => /\ mpc'[n] = mpc[n] /\ mut'[n] = mut[n]
                                      /\ mack'[n] = mack[n]
  BY <1>0 DEF Return, TypeOK
<1>3. ASSUME NEW k \in Keys
      PROVE  /\ acked'[k] = acked[k] \/ acked'[k] = mack[m][k]
             /\ acked[k] <= acked'[k]
  <2>1. acked[k] \in Nat /\ mack[m][k] \in Nat
    BY <1>0, AckTypes
  <2> QED
    BY <2>1, Max2Nat DEF Return
<1>4. Owed'
  <2> SUFFICES ASSUME NEW n \in Mutators, NEW k \in Keys
      PROVE  /\ mack'[n][k] <= stamp[k]
             /\ mack'[n][k] > 0 => /\ mpc'[n] \in {"invOld", "invNew"}
                                   /\ k \in raced \cup Invalidated(n)'
             /\ k \notin raced /\ Loaded(k) => flight[k].stamp >= mack'[n][k]
             /\ /\ k \notin raced /\ cache'[k].left > 0
                /\ mpc'[n] = "invNew" /\ k = Lower[mut'[n].old]
                => cache'[k].stamp >= mack'[n][k]
    BY <1>1 DEF Owed
  <2>1. CASE n = m
    <3>1. stamp[k] \in Nat /\ flight[k].stamp \in Nat
      BY <1>0, KeyTypes
    <3> QED
      BY <1>2, <2>1, <3>1
  <2>2. CASE n # m
    <3>1. Invalidated(n)' = Invalidated(n)
      BY <1>2, <2>2 DEF Invalidated
    <3>2. cache'[k].left > 0 => cache'[k] = cache[k]
      OBVIOUS
    <3>3. /\ mack[n][k] <= stamp[k]
          /\ mack[n][k] > 0 => /\ mpc[n] \in {"invOld", "invNew"}
                               /\ k \in raced \cup Invalidated(n)
          /\ k \notin raced /\ Loaded(k) => flight[k].stamp >= mack[n][k]
          /\ /\ k \notin raced /\ cache[k].left > 0
             /\ mpc[n] = "invNew" /\ k = Lower[mut[n].old]
             => cache[k].stamp >= mack[n][k]
      BY <1>0 DEF Owed
    <3> QED
      BY <1>2, <2>2, <3>1, <3>2, <3>3
  <2> QED
    BY <2>1, <2>2
<1>5. ASSUME NEW k \in Keys
      PROVE  /\ acked'[k] <= stamp[k]
             /\ k \notin raced =>
                  /\ Loaded(k) => flight[k].stamp >= acked'[k]
                  /\ cache'[k].left > 0 => cache'[k].stamp >= acked'[k]
  <2>1. /\ acked[k] <= stamp[k] /\ mack[m][k] <= stamp[k]
        /\ k \notin raced /\ Loaded(k) => /\ flight[k].stamp >= acked[k]
                                          /\ flight[k].stamp >= mack[m][k]
        /\ k \notin raced /\ cache[k].left > 0 => cache[k].stamp >= acked[k]
    BY <1>0 DEF Owed, Paid, Acks
  <2>2. cache'[k].left > 0 => cache'[k] = cache[k]
    OBVIOUS
  <2> QED
    BY <1>3, <2>1, <2>2
<1>6. Paid' /\ Acks'
  BY <1>1, <1>5 DEF Paid, Acks
<1> QED
  BY <1>0, <1>1, <1>3, <1>4, <1>6, WriteRequests

\* The first invalidation of a rename keeps the promise about the old code;
\* the last one of every change is followed by the answer.
LEMMA WriteInvalidates ==
  ASSUME WriteInv, NEW m \in Mutators, InvalidateOld(m) \/ InvalidateNew(m)
  PROVE  Owed' /\ Paid' /\ Acks' /\ Before' /\ WriteThroughUnlessRaced'
<1>0. /\ TypeOK /\ TypeOK' /\ Owed /\ Paid /\ Acks
      /\ UNCHANGED <<linkVars, flight, reqVars>>
  BY TypeNext DEF WriteInv, OrderInv, Next, MutationStep, InvalidateOld, InvalidateNew
<1>1. \A k \in Keys : k \notin raced /\ mack[m][k] # 0 =>
        k = Lower[mut[m].old] \/ k = Lower[mut[m].new]
  <2>1. \A k \in Keys : mack[m][k] \in Nat
    BY <1>0, AckTypes
  <2> QED
    BY <1>0, <2>1 DEF Owed, Invalidated
<1>2. CASE InvalidateOld(m)
  <2>1. \A k \in Keys : IF k = Lower[mut[m].old] THEN cache'[k].left = 0
                                                 ELSE cache'[k] = cache[k]
    BY <1>0, <1>2 DEF InvalidateOld, TypeOK, NoEntry
  <2>2. CASE mut[m].new = mut[m].old
    <3>1. ASSUME NEW k \in Keys, k \notin raced, cache'[k].left > 0
          PROVE  cache[k].stamp >= mack[m][k]
      <4>1. mack[m][k] = 0
        BY <1>1, <2>1, <2>2, <3>1
      <4>2. cache[k].stamp \in Nat
        BY <1>0, KeyTypes
      <4> QED
        BY <4>1, <4>2
    <3>2. Return(m)
      BY <1>2, <2>2 DEF InvalidateOld
    <3> QED
      BY <1>0, <2>1, <3>1, <3>2, WriteReturn
  <2>3. CASE mut[m].new # mut[m].old
    <3>1. /\ UNCHANGED <<mut, mack, acked, stamp, raced, flight>>
          /\ mpc' = [mpc EXCEPT ![m] = "invNew"] /\ mpc[m] = "invOld"
      BY <1>0, <1>2, <2>3 DEF InvalidateOld, linkVars
    <3>2. \A k \in Keys : Loaded(k)' = Loaded(k)
      BY <3>1 DEF Loaded
    <3>3. Owed'
      <4> SUFFICES ASSUME NEW n \in Mutators, NEW k \in Keys
          PROVE  /\ mack[n][k] <= stamp[k]
                 /\ mack[n][k] > 0 => /\ mpc'[n] \in {"invOld", "invNew"}
                                      /\ k \in raced \cup Invalidated(n)
                 /\ k \notin raced /\ Loaded(k) => flight[k].stamp >= mack[n][k]
                 /\ /\ k \notin raced /\ cache'[k].left > 0
                    /\ mpc'[n] = "invNew" /\ k = Lower[mut[n].old]
                    => cache'[k].stamp >= mack[n][k]
        BY <3>1, <3>2 DEF Owed, Invalidated
      <4>1. mpc'[n] = IF n = m THEN "invNew" ELSE mpc[n]
        BY <1>0, <3>1 DEF TypeOK
      <4>2. cache'[k].left > 0 => cache'[k] = cache[k] /\ k # Lower[mut[m].old]
        BY <2>1
      <4> QED
        BY <1>0, <4>1, <4>2 DEF Owed
    <3>4. \A k \in Keys : cache'[k].left > 0 => cache'[k] = cache[k]
      BY <2>1
    <3>5. Paid' /\ Acks'
      BY <1>0, <3>1, <3>2, <3>4 DEF Paid, Acks
    <3>6. \A k \in Keys : acked[k] <= acked'[k]
      BY <1>0, <3>1, AckTypes
    <3> QED
      BY <1>0, <3>1, <3>3, <3>5, <3>6, WriteRequests
  <2> QED
    BY <2>2, <2>3
<1>3. CASE InvalidateNew(m)
  <2>1. \A k \in Keys : IF k = Lower[mut[m].new] THEN cache'[k].left = 0
                                                 ELSE cache'[k] = cache[k]
    BY <1>0, <1>3 DEF InvalidateNew, TypeOK, NoEntry
  <2>2. ASSUME NEW k \in Keys, k \notin raced, cache'[k].left > 0
        PROVE  cache[k].stamp >= mack[m][k]
    <3>1. CASE mack[m][k] = 0
      <4>1. cache[k].stamp \in Nat
        BY <1>0, KeyTypes
      <4> QED
        BY <3>1, <4>1
    <3>2. CASE mack[m][k] # 0
      <4>1. k = Lower[mut[m].old] /\ cache[k].left > 0
        BY <1>1, <2>1, <2>2, <3>2
      <4> QED
        BY <1>0, <1>3, <2>2, <4>1 DEF InvalidateNew, Owed
    <3> QED
      BY <3>1, <3>2
  <2>3. Return(m)
    BY <1>3 DEF InvalidateNew
  <2> QED
    BY <1>0, <2>1, <2>2, <2>3, WriteReturn
<1> QED
  BY <1>2, <1>3

\* Every step keeps what is owed and paid.
LEMMA WriteNext == WriteInv /\ [Next]_vars => WriteInv'
<1> SUFFICES ASSUME WriteInv, [Next]_vars PROVE WriteInv'
  OBVIOUS
<1>1. OrderInv'
  BY OrderNext DEF WriteInv
<1>2. Owed' /\ Paid' /\ Acks' /\ Before' /\ WriteThroughUnlessRaced'
  BY WriteLookup, WriteJoin, WriteLoads, WriteQuiet, WriteStart, WriteCommit,
     WriteInvalidates DEF Next, MutationStep
<1> QED
  BY <1>1, <1>2 DEF WriteInv

\* For any codes, visitors and handlers: who asks after a mutation has
\* returned sees it, unless a load had outrun its commit or it changed a code
\* its handler did not know of (Create, Update, Delete, Restore and Purge of
\* service.go, Cache.Invalidate).
THEOREM MutationsWriteThrough == Spec => []WriteThroughUnlessRaced
<1>1. WriteInv => WriteThroughUnlessRaced
  BY DEF WriteInv
<1> QED
  BY <1>1, WriteInit, WriteNext, PTL DEF Spec

=============================================================================
