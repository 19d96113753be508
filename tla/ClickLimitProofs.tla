-------------------------- MODULE ClickLimitProofs --------------------------
(***************************************************************************)
(* Proofs about ClickLimit for any number of visitors, editors, limits,    *)
(* visits, edits, prunings and restarts.                                   *)
(***************************************************************************)
EXTENDS ClickLimit, FiniteSetTheorems, TLAPS

-----------------------------------------------------------------------------
(* Type correctness.  A counter does not go below zero because everyone    *)
(* who gives a click back has taken it from the same counter.              *)

\* Who is going to give a click back to counter i.
Undoers(i) == {v \in Visitors : pc[v] = "undo" /\ ctr[v] = i}

\* Whoever consumes a click is human and has a counter, which has been made.
VisitorsInv ==
  \A v \in Visitors :
    /\ pc[v] \in {"seed", "touch", "add", "undo"} => kind[v] = "human"
    /\ pc[v] = "enqueue" => kind[v] # "head"
    /\ pc[v] \in {"touch", "add", "undo"} => ctr[v] # 0
    /\ ctr[v] <= made

CountersInv ==
  /\ current <= made
  /\ \A i \in Counters : Cardinality(Undoers(i)) <= heap[i].n

CachedInv == cached = {} \/ \E s \in cached : cached = {s}

TypeInv == TypeOK /\ VisitorsInv /\ CountersInv /\ CachedInv

LEMMA NoSnapIs ==
  /\ NoSnap \in Snapshot
  /\ NoFlight.value = NoSnap /\ NoFlight.phase = "none"
  BY LimitsAssumption DEF NoSnap, NoFlight, Snapshot

LEMMA CachedIsSmall == CachedInv => Cardinality(cached) <= 1
<1>1. Cardinality({}) = 0
  BY FS_EmptySet
<1>2. \A s : Cardinality({s}) = 1
  BY FS_Singleton
<1>3. CASE cached = {}
  BY <1>1, <1>3
<1>4. CASE \E s \in cached : cached = {s}
  <2>1. PICK s \in cached : cached = {s}
    BY <1>4
  <2>2. Cardinality(cached) = 1
    BY <2>1, <1>2
  <2> QED
    BY <2>2
<1> QED
  BY <1>3, <1>4 DEF CachedInv

LEMMA UndoersAre ==
  ASSUME NEW i
  PROVE  /\ IsFiniteSet(Undoers(i)) /\ Cardinality(Undoers(i)) \in Nat
         /\ \A v \in Visitors :
              pc[v] = "undo" /\ ctr[v] = i => Cardinality(Undoers(i)) >= 1
<1>1. IsFiniteSet(Undoers(i))
  <2>1. Undoers(i) \subseteq Visitors
    BY DEF Undoers
  <2> QED
    BY <2>1, VisitorsAssumption, FS_Subset
<1>2. Cardinality(Undoers(i)) \in Nat
  BY <1>1, FS_CardinalityType
<1>3. Cardinality(Undoers(i)) = 0 => Undoers(i) = {}
  BY <1>1, FS_EmptySet
<1>4. \A v \in Visitors : pc[v] = "undo" /\ ctr[v] = i => v \in Undoers(i)
  BY DEF Undoers
<1> QED
  BY <1>1, <1>2, <1>3, <1>4

\* Nobody starts or stops giving a click back.
Quiet ==
  \A v \in Visitors : /\ pc'[v] = "undo" <=> pc[v] = "undo"
                      /\ pc[v] = "undo" => ctr'[v] = ctr[v]

LEMMA QuietUndoers ==
  ASSUME Quiet, NEW i
  PROVE  Undoers(i)' = Undoers(i)
  BY DEF Quiet, Undoers

LEMMA RefusedUndoers ==
  ASSUME TypeOK, NEW v \in Visitors, pc[v] # "undo", NEW i,
         pc' = [pc EXCEPT ![v] = "undo"], ctr' = ctr
  PROVE  Cardinality(Undoers(i)') =
           Cardinality(Undoers(i)) + (IF i = ctr[v] THEN 1 ELSE 0)
<1>1. i # ctr[v] => Undoers(i)' = Undoers(i)
  BY DEF Undoers, TypeOK
<1>2. i = ctr[v] => Undoers(i)' = Undoers(i) \cup {v} /\ v \notin Undoers(i)
  BY DEF Undoers, TypeOK
<1>3. IsFiniteSet(Undoers(i)) /\ Cardinality(Undoers(i)) \in Nat
  BY UndoersAre
<1>4. v \notin Undoers(i) =>
        Cardinality(Undoers(i) \cup {v}) = Cardinality(Undoers(i)) + 1
  BY <1>3, FS_AddElement
<1> QED
  BY <1>1, <1>2, <1>3, <1>4

LEMMA UndoneUndoers ==
  ASSUME TypeOK, NEW v \in Visitors, pc[v] = "undo", Leaves({v}), NEW i
  PROVE  Cardinality(Undoers(i)') =
           Cardinality(Undoers(i)) - (IF i = ctr[v] THEN 1 ELSE 0)
<1>1. i # ctr[v] => Undoers(i)' = Undoers(i)
  BY DEF Undoers, TypeOK, Leaves
<1>2. i = ctr[v] => Undoers(i)' = Undoers(i) \ {v} /\ v \in Undoers(i)
  BY DEF Undoers, TypeOK, Leaves
<1>3. IsFiniteSet(Undoers(i)) /\ Cardinality(Undoers(i)) \in Nat
  BY UndoersAre
<1>4. v \in Undoers(i) =>
        Cardinality(Undoers(i) \ {v}) = Cardinality(Undoers(i)) - 1
  BY <1>3, FS_RemoveElement
<1> QED
  BY <1>1, <1>2, <1>3, <1>4

\* Nobody uses a counter that was not made yet.
LEMMA NewCounter ==
  ASSUME TypeInv
  PROVE  Undoers(made + 1) = {} /\ Cardinality(Undoers(made + 1)) = 0
<1>1. made \in Nat
  BY DEF TypeInv, TypeOK, Counters
<1>2. \A v \in Visitors : ctr[v] \in Nat /\ ctr[v] <= made
  BY DEF TypeInv, TypeOK, VisitorsInv, Counters
<1>3. Undoers(made + 1) = {}
  BY <1>1, <1>2 DEF Undoers
<1> QED
  BY <1>3, FS_EmptySet

LEMMA TypesInit == Init => TypeInv
<1> SUFFICES ASSUME Init PROVE TypeInv
  OBVIOUS
<1>1. CachedInv /\ Cardinality(cached) <= 1
  BY CachedIsSmall DEF Init, CachedInv
<1>2. VisitorsInv
  BY DEF Init, VisitorsInv
<1>3. \A i \in Counters : Undoers(i) = {} /\ heap[i].n = 0
  BY DEF Init, Undoers
<1>4. CountersInv
  <2>1. Cardinality({}) = 0
    BY FS_EmptySet
  <2>2. \A i \in Counters : Cardinality(Undoers(i)) <= heap[i].n
    BY <1>3, <2>1
  <2> QED
    BY <2>2 DEF CountersInv, Init
<1>5. row \in Snapshot /\ top \in Limits
  BY DEF Init, Snapshot
<1>6. flight \in [phase : {"none", "query", "got"}, value : Snapshot]
  BY NoSnapIs DEF Init, NoFlight
<1>7. used \in [visits : 0..MaxVisits, edits : 0..MaxEdits,
                prunes : 0..MaxPrunes, restarts : 0..MaxRestarts,
                recounts : 0..MaxRecounts]
  BY LimitBoundsAssumption DEF Init
<1>8. heap \in [Counters -> Counter]
  BY DEF Init, Counter
<1>9. cached \in SUBSET Snapshot
  BY DEF Init
<1>10. spooled \in Nat /\ replay \in 0..spooled /\ recounted \in Nat /\ pending \in Nat
  BY DEF Init
<1> QED
  BY <1>1, <1>2, <1>4, <1>5, <1>6, <1>7, <1>8, <1>9, <1>10, NoSnapIs
  DEF TypeInv, TypeOK, Init

LEMMA LeavesTypes ==
  ASSUME TypeOK, NEW S, Leaves(S)
  PROVE  /\ pc' \in [Visitors -> {"idle", "wait", "check", "seed", "touch",
                                  "add", "undo", "enqueue"}]
         /\ kind' \in [Visitors -> {"human", "bot", "head"}]
         /\ snap' \in [Visitors -> Snapshot]
         /\ ctr' \in [Visitors -> Counters \cup {0}]
  BY NoSnapIs DEF Leaves, TypeOK

\* The writer touches neither requests nor counters.
LEMMA WriterFrame ==
  ASSUME WriterStep
  PROVE  UNCHANGED <<top, cacheVars, visitVars, counterVars, served, bots, resetVars>>
  BY DEF WriterStep, Flush, FlushRepeats, LoseClick, Replay, ReplayRepeats, ReplayFails,
         linkVars

\* It raises click_count by clicks that were pending or spooled; what was
\* counted and is still there is recounted.
LEMMA WriterDoes ==
  ASSUME TypeOK, WriterStep
  PROVE  /\ \E k \in Nat : Raised(k)
         /\ pending' \in Nat /\ recounted' \in Nat
         /\ spooled' \in Nat /\ replay' \in 0..spooled'
         /\ recounted <= recounted'
         /\ row'.count + pending' + spooled' + recounted
              <= row.count + pending + spooled + recounted'
         /\ \/ used' = used
            \/ /\ used.recounts < MaxRecounts
               /\ used' = [used EXCEPT !.recounts = @ + 1]
<1>1. /\ row \in Snapshot /\ row.count \in Nat /\ pending \in Nat /\ recounted \in Nat
      /\ spooled \in Nat /\ replay \in Nat /\ replay <= spooled
  BY DEF TypeOK, Snapshot
<1>2. ASSUME NEW k, Raised(k) PROVE row'.count = row.count + k
  BY <1>1, <1>2 DEF Raised, Snapshot
<1>3. row' = row => Raised(0)
  BY <1>1 DEF Raised, Snapshot
<1>4. CASE Flush
  <2>1. PICK k \in 1..pending : pending' = pending - k /\ Raised(k)
    BY <1>4 DEF Flush
  <2>2. UNCHANGED <<spooled, replay, recounted, used>>
    BY <1>4 DEF Flush, spoolVars
  <2> QED
    BY <1>1, <1>2, <2>1, <2>2
<1>5. CASE FlushRepeats
  <2>1. PICK k \in 1..pending : recounted' = recounted + k /\ Raised(k)
    BY <1>5 DEF FlushRepeats
  <2>2. /\ UNCHANGED <<pending, spooled, replay>> /\ used.recounts < MaxRecounts
        /\ used' = [used EXCEPT !.recounts = @ + 1]
    BY <1>5 DEF FlushRepeats
  <2> QED
    BY <1>1, <1>2, <2>1, <2>2
<1>6. CASE LoseClick
  BY <1>1, <1>3, <1>6 DEF LoseClick, linkVars
<1>7. CASE Replay
  <2>1. PICK k \in 1..replay :
          replay' = replay - k /\ spooled' = spooled - k /\ Raised(k)
    BY <1>7 DEF Replay
  <2>2. UNCHANGED <<pending, recounted, used>>
    BY <1>7 DEF Replay
  <2> QED
    BY <1>1, <1>2, <2>1, <2>2
<1>8. CASE ReplayRepeats
  <2>1. PICK k \in 1..replay :
          replay' = replay - k /\ recounted' = recounted + k /\ Raised(k)
    BY <1>8 DEF ReplayRepeats
  <2>2. /\ UNCHANGED <<pending, spooled>> /\ used.recounts < MaxRecounts
        /\ used' = [used EXCEPT !.recounts = @ + 1]
    BY <1>8 DEF ReplayRepeats
  <2> QED
    BY <1>1, <1>2, <2>1, <2>2
<1>9. CASE ReplayFails
  <2>1. PICK k \in 1..replay : replay' = replay - k /\ spooled' \in {spooled, spooled - k}
    BY <1>9 DEF ReplayFails
  <2>2. UNCHANGED <<row, pending, recounted, used>>
    BY <1>9 DEF ReplayFails, linkVars
  <2> QED
    BY <1>1, <1>3, <2>1, <2>2
<1> QED
  BY <1>4, <1>5, <1>6, <1>7, <1>8, <1>9 DEF WriterStep

\* So does a restart.
LEMMA RestartDoes ==
  ASSUME TypeOK, Restart
  PROVE  /\ \E k \in Nat : Raised(k)
         /\ pending' = 0 /\ UNCHANGED <<top, served, bots, recounted>>
         /\ spooled' \in Nat /\ replay' \in 0..spooled'
         /\ row'.count + spooled' <= row.count + pending + spooled
<1>1. row \in Snapshot /\ row.count \in Nat /\ pending \in Nat /\ spooled \in Nat
  BY DEF TypeOK, Snapshot
<1>2. PICK k \in 0..pending :
        \E d \in 0..(pending - k) : Raised(k) /\ spooled' = spooled + d
  BY DEF Restart
<1>3. row'.count = row.count + k
  BY <1>1, <1>2 DEF Raised, Snapshot
<1> QED
  BY <1>1, <1>2, <1>3 DEF Restart

\* The bounds are kept.
LEMMA UsedTypes ==
  ASSUME TypeOK, Next
  PROVE  used' \in [visits : 0..MaxVisits, edits : 0..MaxEdits,
                    prunes : 0..MaxPrunes, restarts : 0..MaxRestarts,
                recounts : 0..MaxRecounts]
<1> USE LimitBoundsAssumption DEF TypeOK
<1>1. ASSUME NEW v \in Visitors, Lookup(v)
      PROVE  used.visits < MaxVisits /\ used' = [used EXCEPT !.visits = @ + 1]
  BY <1>1 DEF Lookup
<1>2. ASSUME NEW e \in Editors, EditCommits(e)
      PROVE  used.edits < MaxEdits /\ used' = [used EXCEPT !.edits = @ + 1]
  BY <1>2 DEF EditCommits
<1>3. ASSUME PruneSees
      PROVE  used.prunes < MaxPrunes /\ used' = [used EXCEPT !.prunes = @ + 1]
  BY <1>3 DEF PruneSees
<1>4. ASSUME Restart
      PROVE  used.restarts < MaxRestarts /\ used' = [used EXCEPT !.restarts = @ + 1]
  BY <1>4 DEF Restart
<1>5. ASSUME NEW v \in Visitors, Check(v) \/ Consume(v) \/ EnqueueClick(v)
      PROVE  used' = used
  BY <1>5 DEF Check, Consume, Seed, Touch, Add, Undo, EnqueueClick
<1>6. ASSUME LoadReads \/ LoadReturns \/ EntryGoes \/ HourPasses \/ PruneDeletes
      PROVE  used' = used
  BY <1>6 DEF LoadReads, LoadReturns, EntryGoes, HourPasses,
              PruneDeletes
<1>7. ASSUME NEW e \in Editors, EditResets(e) \/ EditInvalidates(e)
      PROVE  used' = used
  BY <1>7 DEF EditResets, EditInvalidates
<1>8. ASSUME WriterStep
      PROVE  \/ used' = used
             \/ used.recounts < MaxRecounts /\ used' = [used EXCEPT !.recounts = @ + 1]
  BY <1>8, WriterDoes
<1> QED
  BY <1>1, <1>2, <1>3, <1>4, <1>5, <1>6, <1>7, <1>8 DEF Next

\* The counters of the requests stay within their type.
LEMMA CounterTypes ==
  ASSUME TypeInv, Next
  PROVE  /\ heap' \in [Counters -> Counter]
         /\ made' \in Counters \cup {0} /\ current' \in Counters \cup {0}
<1> USE DEF TypeInv, TypeOK
<1>1. ASSUME NEW v \in Visitors, Seed(v)
      PROVE  /\ heap' \in [Counters -> Counter]
             /\ made' \in Counters \cup {0} /\ current' \in Counters \cup {0}
  <2>1. CASE current # 0
    BY <1>1, <2>1 DEF Seed, counterVars
  <2>2. CASE current = 0
    <3>1. PICK i : i = made + 1
      OBVIOUS
    <3>2. /\ i \in Counters /\ made' = i /\ current' = i
          /\ heap' = [heap EXCEPT ![i] = [n |-> snap[v].count, recent |-> FALSE]]
      BY <1>1, <2>2, <3>1 DEF Seed
    <3>3. [n |-> snap[v].count, recent |-> FALSE] \in Counter
      BY DEF Counter, Snapshot
    <3> QED
      BY <3>2, <3>3
  <2> QED
    BY <2>1, <2>2
<1>2. ASSUME NEW v \in Visitors, Touch(v) PROVE heap' \in [Counters -> Counter]
  BY <1>2 DEF Touch, Counter
<1>3. ASSUME NEW v \in Visitors, Add(v) PROVE heap' \in [Counters -> Counter]
  <2>1. /\ pc[v] = "add"
        /\ heap' = [heap EXCEPT ![ctr[v]] = [@ EXCEPT !.n = heap[ctr[v]].n + 1]]
    BY <1>3 DEF Add
  <2>2. ctr[v] \in Counters
    BY <2>1 DEF VisitorsInv
  <2>3. heap[ctr[v]] \in Counter
    BY <2>2
  <2>4. [heap[ctr[v]] EXCEPT !.n = heap[ctr[v]].n + 1] \in Counter
    BY <2>3 DEF Counter
  <2> QED
    BY <2>1, <2>2, <2>4
<1>4. ASSUME NEW v \in Visitors, Undo(v) PROVE heap' \in [Counters -> Counter]
  <2>1. pc[v] = "undo" /\ heap' = [heap EXCEPT ![ctr[v]].n = @ - 1]
    BY <1>4 DEF Undo
  <2>2. ctr[v] \in Counters
    BY <2>1 DEF VisitorsInv
  <2>3. Cardinality(Undoers(ctr[v])) \in Nat /\ Cardinality(Undoers(ctr[v])) >= 1
    BY <2>1, UndoersAre
  <2>4. Cardinality(Undoers(ctr[v])) <= heap[ctr[v]].n
    BY <2>2 DEF CountersInv
  <2>5. heap[ctr[v]] \in Counter /\ heap[ctr[v]].n \in Nat
    BY <2>2 DEF Counter
  <2>6. heap[ctr[v]].n - 1 \in Nat
    BY <2>3, <2>4, <2>5
  <2>7. heap' = [heap EXCEPT ![ctr[v]] = [@ EXCEPT !.n = heap[ctr[v]].n - 1]]
    BY <2>1
  <2>8. [heap[ctr[v]] EXCEPT !.n = heap[ctr[v]].n - 1] \in Counter
    BY <2>5, <2>6 DEF Counter
  <2> QED
    BY <2>2, <2>7, <2>8
<1>5. ASSUME NEW v \in Visitors, Touch(v) \/ Add(v) \/ Undo(v)
      PROVE  UNCHANGED <<made, current>>
  BY <1>5 DEF Touch, Add, Undo
<1>6. ASSUME HourPasses
      PROVE  heap' \in [Counters -> Counter] /\ UNCHANGED <<made, current>>
  <2>1. heap' = [heap EXCEPT ![current] = [@ EXCEPT !.recent = FALSE]] /\ current \in Counters
    BY <1>6 DEF HourPasses
  <2>2. heap[current] \in Counter
    BY <2>1
  <2>3. [heap[current] EXCEPT !.recent = FALSE] \in Counter
    BY <2>2 DEF Counter
  <2> QED
    BY <1>6, <2>1, <2>3 DEF HourPasses
<1>7. ASSUME PruneDeletes \/ \E e \in Editors : EditResets(e)
      PROVE  UNCHANGED <<heap, made>> /\ current' = 0
  BY <1>7 DEF PruneDeletes, EditResets, DeleteCounter
<1>8. ASSUME Restart PROVE UNCHANGED <<heap, made>> /\ current' = 0
  BY <1>8 DEF Restart
<1>9. ASSUME NEW v \in Visitors, Lookup(v) \/ Check(v) \/ EnqueueClick(v)
      PROVE  UNCHANGED counterVars
  BY <1>9 DEF Lookup, Check, EnqueueClick
<1>10. ASSUME LoadReads \/ LoadReturns \/ WriterStep \/ EntryGoes \/ PruneSees
       PROVE  UNCHANGED counterVars
  BY <1>10, WriterFrame DEF LoadReads, LoadReturns, EntryGoes, PruneSees
<1>11. ASSUME NEW e \in Editors, EditCommits(e) \/ EditInvalidates(e)
       PROVE  UNCHANGED counterVars
  BY <1>11 DEF EditCommits, EditInvalidates
<1>12. /\ heap \in [Counters -> Counter]
       /\ made \in Counters \cup {0} /\ current \in Counters \cup {0}
  OBVIOUS
<1> HIDE DEF TypeInv, TypeOK
<1>13. CASE \E v \in Visitors : Seed(v) \/ Touch(v) \/ Add(v) \/ Undo(v)
  BY <1>1, <1>2, <1>3, <1>4, <1>5, <1>12, <1>13
<1>14. CASE HourPasses \/ PruneDeletes \/ Restart \/ \E e \in Editors : EditResets(e)
  BY <1>6, <1>7, <1>8, <1>12, <1>14
<1>15. UNCHANGED counterVars =>
         /\ heap' \in [Counters -> Counter]
         /\ made' \in Counters \cup {0} /\ current' \in Counters \cup {0}
  BY <1>12 DEF counterVars
<1> QED
  BY <1>9, <1>10, <1>11, <1>13, <1>14, <1>15 DEF Next, Consume

\* The link, the clicks and the ghosts.
LEMMA ClickTypes ==
  ASSUME TypeOK, Next
  PROVE  /\ row' \in Snapshot /\ top' \in Limits
         /\ pending' \in Nat /\ served' \in Nat /\ bots' \in Nat
         /\ recounted' \in Nat /\ spooled' \in Nat /\ replay' \in 0..spooled'
<1> USE DEF TypeOK
<1>1. ASSUME NEW v \in Visitors, Add(v)
      PROVE  served' \in Nat /\ UNCHANGED <<linkVars, pending, bots, spoolVars>>
  BY <1>1 DEF Add
<1>2. ASSUME NEW v \in Visitors, EnqueueClick(v)
      PROVE  pending' \in Nat /\ bots' \in Nat /\ UNCHANGED <<linkVars, served, spoolVars>>
  BY <1>2 DEF EnqueueClick
<1>3. ASSUME NEW k \in Nat, Raised(k) PROVE row' \in Snapshot
  BY <1>3 DEF Raised, Snapshot
<1>4. ASSUME WriterStep
      PROVE  /\ row' \in Snapshot /\ pending' \in Nat /\ UNCHANGED <<top, served, bots>>
             /\ recounted' \in Nat /\ spooled' \in Nat /\ replay' \in 0..spooled'
  BY <1>3, <1>4, WriterFrame, WriterDoes
<1>5. ASSUME NEW e \in Editors, EditCommits(e)
      PROVE  row' \in Snapshot /\ top' \in Limits /\ UNCHANGED clickVars
  <2>1. CASE \E l \in Limits : /\ row' = [row EXCEPT !.limit = l]
                               /\ top' = IF l > top THEN l ELSE top
    BY <2>1, <1>5 DEF EditCommits, Snapshot
  <2>2. CASE (\E b \in BOOLEAN : row' = [row EXCEPT !.live = b]) /\ UNCHANGED top
    BY <2>2, <1>5 DEF EditCommits, Snapshot
  <2> QED
    BY <1>5, <2>1, <2>2 DEF EditCommits
<1>6. ASSUME Restart
      PROVE  /\ row' \in Snapshot /\ pending' = 0
             /\ UNCHANGED <<top, served, bots, recounted>>
             /\ spooled' \in Nat /\ replay' \in 0..spooled'
  BY <1>3, <1>6, RestartDoes
<1>7. ASSUME NEW v \in Visitors, Lookup(v) \/ Check(v) \/ Seed(v) \/ Touch(v) \/ Undo(v)
      PROVE  UNCHANGED <<linkVars, clickVars>>
  BY <1>7 DEF Lookup, Check, Seed, Touch, Undo
<1>8. ASSUME LoadReads \/ LoadReturns \/ EntryGoes \/ HourPasses \/ PruneSees
               \/ PruneDeletes
      PROVE  UNCHANGED <<linkVars, clickVars>>
  BY <1>8 DEF LoadReads, LoadReturns, EntryGoes, HourPasses, PruneSees, PruneDeletes
<1>9. ASSUME NEW e \in Editors, EditResets(e) \/ EditInvalidates(e)
      PROVE  UNCHANGED <<linkVars, clickVars>>
  BY <1>9 DEF EditResets, EditInvalidates
<1> QED
  BY <1>1, <1>2, <1>3, <1>4, <1>5, <1>6, <1>7, <1>8, <1>9
  DEF Next, Consume, linkVars, clickVars, spoolVars

\* The requests, the cache and what throws counters away.
LEMMA VisitTypes ==
  ASSUME TypeInv, Next
  PROVE  /\ pc' \in [Visitors -> {"idle", "wait", "check", "seed", "touch",
                                  "add", "undo", "enqueue"}]
         /\ kind' \in [Visitors -> {"human", "bot", "head"}]
         /\ snap' \in [Visitors -> Snapshot]
         /\ ctr' \in [Visitors -> Counters \cup {0}]
<1> USE DEF TypeInv, TypeOK
<1> DEFINE Goal == /\ pc' \in [Visitors -> {"idle", "wait", "check", "seed", "touch",
                                            "add", "undo", "enqueue"}]
                   /\ kind' \in [Visitors -> {"human", "bot", "head"}]
                   /\ snap' \in [Visitors -> Snapshot]
                   /\ ctr' \in [Visitors -> Counters \cup {0}]
<1>1. ASSUME NEW v \in Visitors, Lookup(v) PROVE Goal
  BY <1>1 DEF Lookup
<1>2. ASSUME NEW v \in Visitors, Check(v) PROVE Goal
  BY <1>2, LeavesTypes DEF Check
<1>3. ASSUME NEW v \in Visitors, Seed(v) PROVE Goal
  <2>1. current' \in Counters \cup {0}
    BY CounterTypes
  <2> QED
    BY <1>3, <2>1 DEF Seed
<1>4. ASSUME NEW v \in Visitors, Touch(v) \/ Add(v) PROVE Goal
  BY <1>4 DEF Touch, Add
<1>5. ASSUME NEW v \in Visitors, Undo(v) \/ EnqueueClick(v) PROVE Goal
  BY <1>5, LeavesTypes DEF Undo, EnqueueClick
<1>6. ASSUME LoadReturns PROVE Goal
  BY <1>6 DEF LoadReturns
<1>7. ASSUME Restart PROVE Goal
  BY <1>7, LeavesTypes DEF Restart
<1>8. ASSUME LoadReads \/ WriterStep \/ EntryGoes \/ HourPasses \/ PruneSees
               \/ PruneDeletes
      PROVE  UNCHANGED visitVars
  BY <1>8, WriterFrame DEF LoadReads, EntryGoes, HourPasses, PruneSees, PruneDeletes
<1>9. ASSUME NEW e \in Editors, EditCommits(e) \/ EditResets(e) \/ EditInvalidates(e)
      PROVE  UNCHANGED visitVars
  BY <1>9 DEF EditCommits, EditResets, EditInvalidates
<1>10. UNCHANGED visitVars => Goal
  BY DEF visitVars
<1> HIDE DEF Goal, TypeInv, TypeOK
<1>11. Goal
  BY <1>1, <1>2, <1>3, <1>4, <1>5, <1>6, <1>7, <1>8, <1>9, <1>10
  DEF Next, Consume
<1> QED
  BY <1>11 DEF Goal

LEMMA CacheTypes ==
  ASSUME TypeInv, Next
  PROVE  /\ cached' \in SUBSET Snapshot /\ CachedInv'
         /\ flight' \in [phase : {"none", "query", "got"}, value : Snapshot]
<1> USE DEF TypeInv, TypeOK
<1>1. ASSUME NEW v \in Visitors, Lookup(v)
      PROVE  /\ cached' = cached
             /\ flight' \in [phase : {"none", "query", "got"}, value : Snapshot]
  BY <1>1 DEF Lookup
<1>2. ASSUME LoadReads
      PROVE  /\ cached' = cached
             /\ flight' \in [phase : {"none", "query", "got"}, value : Snapshot]
  BY <1>2 DEF LoadReads
<1>3. ASSUME LoadReturns
      PROVE  /\ cached' = {flight.value}
             /\ flight' \in [phase : {"none", "query", "got"}, value : Snapshot]
  BY <1>3, NoSnapIs DEF LoadReturns, NoFlight
<1>4. ASSUME EntryGoes \/ \E e \in Editors : EditInvalidates(e)
      PROVE  cached' = {} /\ flight' = flight
  BY <1>4 DEF EntryGoes, EditInvalidates
<1>5. ASSUME Restart
      PROVE  /\ cached' = {}
             /\ flight' \in [phase : {"none", "query", "got"}, value : Snapshot]
  BY <1>5, NoSnapIs DEF Restart, NoFlight
<1>6. ASSUME NEW v \in Visitors, Check(v) \/ Consume(v) \/ EnqueueClick(v)
      PROVE  UNCHANGED cacheVars
  BY <1>6 DEF Check, Consume, Seed, Touch, Add, Undo, EnqueueClick
<1>7. ASSUME WriterStep \/ HourPasses \/ PruneSees \/ PruneDeletes
      PROVE  UNCHANGED cacheVars
  BY <1>7, WriterFrame DEF HourPasses, PruneSees, PruneDeletes
<1>8. ASSUME NEW e \in Editors, EditCommits(e) \/ EditResets(e)
      PROVE  UNCHANGED cacheVars
  BY <1>8 DEF EditCommits, EditResets
<1> QED
  BY <1>1, <1>2, <1>3, <1>4, <1>5, <1>6, <1>7, <1>8
  DEF Next, CachedInv, cacheVars

LEMMA ResetTypes ==
  ASSUME TypeOK, Next
  PROVE  /\ raced' \in BOOLEAN /\ pruning' \in BOOLEAN
         /\ epc' \in [Editors -> {"idle", "reset", "invalidate"}]
<1> USE DEF TypeOK
<1>1. ASSUME NEW e \in Editors, EditCommits(e) \/ EditInvalidates(e)
      PROVE  /\ epc' \in [Editors -> {"idle", "reset", "invalidate"}]
             /\ UNCHANGED <<raced, pruning>>
  BY <1>1 DEF EditCommits, EditInvalidates
<1>2. ASSUME NEW e \in Editors, EditResets(e)
      PROVE  /\ epc' \in [Editors -> {"idle", "reset", "invalidate"}]
             /\ raced' \in BOOLEAN /\ UNCHANGED pruning
  BY <1>2 DEF EditResets, DeleteCounter
<1>3. ASSUME PruneSees
      PROVE  pruning' = TRUE /\ UNCHANGED <<raced, epc>>
  BY <1>3 DEF PruneSees
<1>4. ASSUME PruneDeletes
      PROVE  raced' \in BOOLEAN /\ pruning' = FALSE /\ UNCHANGED epc
  BY <1>4 DEF PruneDeletes, DeleteCounter
<1>5. ASSUME Restart
      PROVE  /\ raced' \in BOOLEAN /\ pruning' = FALSE
             /\ epc' \in [Editors -> {"idle", "reset", "invalidate"}]
  BY <1>5 DEF Restart
<1>6. ASSUME NEW v \in Visitors, Lookup(v) \/ Check(v) \/ Consume(v) \/ EnqueueClick(v)
      PROVE  UNCHANGED resetVars
  BY <1>6 DEF Lookup, Check, Consume, Seed, Touch, Add, Undo, EnqueueClick
<1>7. ASSUME LoadReads \/ LoadReturns \/ WriterStep \/ EntryGoes \/ HourPasses
      PROVE  UNCHANGED resetVars
  BY <1>7, WriterFrame DEF LoadReads, LoadReturns, EntryGoes, HourPasses
<1> QED
  BY <1>1, <1>2, <1>3, <1>4, <1>5, <1>6, <1>7 DEF Next, resetVars

LEMMA VisitorsKept ==
  ASSUME TypeInv, Next
  PROVE  VisitorsInv'
<1> USE DEF TypeInv, TypeOK, VisitorsInv
<1>1. made \in Nat /\ current \in Nat /\ \A v \in Visitors : ctr[v] \in Nat
  BY DEF Counters
<1>2. ASSUME NEW v \in Visitors, Lookup(v) PROVE VisitorsInv'
  BY <1>2 DEF Lookup, counterVars
<1>3. ASSUME NEW v \in Visitors, Check(v) PROVE VisitorsInv'
  <2>1. CASE Leaves({v})
    BY <1>1, <1>3, <2>1 DEF Check, Leaves, counterVars
  <2>2. CASE ~(TurnedAway(snap[v]) \/ kind[v] = "head")
    BY <1>3, <2>2 DEF Check, counterVars
  <2> QED
    BY <1>3, <2>1, <2>2 DEF Check
<1>4. ASSUME NEW v \in Visitors, Seed(v) PROVE VisitorsInv'
  <2>1. made <= made' /\ current' # 0 /\ current' <= made'
    BY <1>1, <1>4 DEF Seed, counterVars, CountersInv
  <2>2. made' \in Nat
    BY CounterTypes DEF Counters
  <2> QED
    BY <1>1, <1>4, <2>1, <2>2 DEF Seed
<1>5. ASSUME NEW v \in Visitors, Touch(v) \/ Add(v) PROVE VisitorsInv'
  BY <1>5 DEF Touch, Add
<1>6. ASSUME NEW v \in Visitors, Undo(v) \/ EnqueueClick(v) PROVE VisitorsInv'
  BY <1>1, <1>6 DEF Undo, EnqueueClick, Leaves, counterVars
<1>7. ASSUME LoadReturns PROVE VisitorsInv'
  BY <1>7 DEF LoadReturns, counterVars
<1>8. ASSUME Restart PROVE VisitorsInv'
  BY <1>1, <1>8 DEF Restart, Leaves
<1>9. ASSUME LoadReads \/ WriterStep \/ EntryGoes \/ HourPasses \/ PruneSees
               \/ PruneDeletes
      PROVE  UNCHANGED <<visitVars, made>>
  BY <1>9, WriterFrame DEF LoadReads, EntryGoes, HourPasses, PruneSees,
              PruneDeletes, DeleteCounter, counterVars
<1>10. ASSUME NEW e \in Editors, EditCommits(e) \/ EditResets(e) \/ EditInvalidates(e)
       PROVE  UNCHANGED <<visitVars, made>>
  BY <1>10 DEF EditCommits, EditResets, EditInvalidates, DeleteCounter, counterVars
<1>11. UNCHANGED <<visitVars, made>> => VisitorsInv'
  BY DEF visitVars
<1> HIDE DEF TypeInv, TypeOK, VisitorsInv
<1> QED
  BY <1>2, <1>3, <1>4, <1>5, <1>6, <1>7, <1>8, <1>9, <1>10, <1>11
  DEF Next, Consume

\* What a step does to the counters and to those who give clicks back.
LEMMA SeedDoes ==
  ASSUME TypeInv, NEW v \in Visitors, Seed(v)
  PROVE  /\ \A i : Undoers(i)' = Undoers(i)
         /\ current' \in Counters /\ current' <= made'
         /\ ctr' = [ctr EXCEPT ![v] = current']
         /\ \/ UNCHANGED counterVars /\ current # 0
            \/ /\ current = 0 /\ current' = made + 1
               /\ \A i \in Counters :
                    IF i = current'
                    THEN heap'[i].n = snap[v].count /\ Undoers(i) = {}
                    ELSE heap'[i] = heap[i]
<1> USE DEF TypeInv, TypeOK
<1>1. Quiet
  BY DEF Seed, Quiet
<1>2. \A i : Undoers(i)' = Undoers(i)
  BY <1>1, QuietUndoers
<1>3. CASE current # 0
  BY <1>2, <1>3 DEF Seed, counterVars, CountersInv
<1>4. CASE current = 0
  <2>1. made \in Nat
    BY DEF Counters
  <2>2. PICK i : i = made + 1
    OBVIOUS
  <2>3. /\ i \in Counters /\ made' = i /\ current' = i
        /\ heap' = [heap EXCEPT ![i] = [n |-> snap[v].count, recent |-> FALSE]]
        /\ ctr' = [ctr EXCEPT ![v] = current']
    BY <1>4, <2>2 DEF Seed
  <2>4. heap'[i].n = snap[v].count /\ \A k \in Counters \ {i} : heap'[k] = heap[k]
    BY <2>3
  <2>5. Undoers(made + 1) = {}
    BY NewCounter
  <2>6. i <= i
    BY <2>1, <2>2
  <2> QED
    BY <1>2, <1>4, <2>2, <2>3, <2>4, <2>5, <2>6
<1> QED
  BY <1>3, <1>4

LEMMA AddDoes ==
  ASSUME TypeInv, NEW v \in Visitors, Add(v)
  PROVE  /\ pc[v] = "add" /\ ctr[v] \in Counters /\ kind[v] = "human"
         /\ \A i \in Counters :
              heap'[i].n = heap[i].n + (IF i = ctr[v] THEN 1 ELSE 0)
         /\ \/ /\ heap[ctr[v]].n + 1 > snap[v].limit
               /\ pc' = [pc EXCEPT ![v] = "undo"] /\ served' = served
               /\ \A i : Cardinality(Undoers(i)') =
                           Cardinality(Undoers(i)) + (IF i = ctr[v] THEN 1 ELSE 0)
            \/ /\ heap[ctr[v]].n + 1 <= snap[v].limit
               /\ pc' = [pc EXCEPT ![v] = "enqueue"] /\ served' = served + 1
               /\ \A i : Undoers(i)' = Undoers(i)
<1> USE DEF TypeInv, TypeOK
<1>1. pc[v] = "add" /\ ctr[v] \in Counters /\ kind[v] = "human"
  BY DEF Add, VisitorsInv
<1>2. \A i \in Counters :
        heap[i].n \in Nat /\ heap'[i].n = heap[i].n + (IF i = ctr[v] THEN 1 ELSE 0)
  <2>1. heap' = [heap EXCEPT ![ctr[v]] = [@ EXCEPT !.n = heap[ctr[v]].n + 1]]
    BY DEF Add
  <2>2. \A i \in Counters : heap[i] \in Counter
    OBVIOUS
  <2> QED
    BY <1>1, <2>1, <2>2 DEF Counter
<1>3. snap[v].limit \in Nat
  BY LimitsAssumption DEF Snapshot
<1>4. CASE heap[ctr[v]].n + 1 > snap[v].limit
  <2>1. pc' = [pc EXCEPT ![v] = "undo"] /\ served' = served /\ ctr' = ctr
    BY <1>4 DEF Add
  <2>2. \A i : Cardinality(Undoers(i)') =
                 Cardinality(Undoers(i)) + (IF i = ctr[v] THEN 1 ELSE 0)
    BY <1>1, <2>1, RefusedUndoers
  <2> QED
    BY <1>1, <1>2, <1>4, <2>1, <2>2
<1>5. CASE ~(heap[ctr[v]].n + 1 > snap[v].limit)
  <2>1. pc' = [pc EXCEPT ![v] = "enqueue"] /\ served' = served + 1 /\ ctr' = ctr
    BY <1>5 DEF Add
  <2>2. Quiet
    BY <1>1, <2>1 DEF Quiet
  <2>3. \A i : Undoers(i)' = Undoers(i)
    BY <2>2, QuietUndoers
  <2>4. heap[ctr[v]].n + 1 <= snap[v].limit
    BY <1>1, <1>2, <1>3, <1>5
  <2> QED
    BY <1>1, <1>2, <2>1, <2>3, <2>4
<1> QED
  BY <1>4, <1>5

LEMMA UndoDoes ==
  ASSUME TypeInv, NEW v \in Visitors, Undo(v)
  PROVE  /\ pc[v] = "undo" /\ ctr[v] \in Counters /\ kind[v] = "human"
         /\ \A i \in Counters :
              heap'[i].n = heap[i].n - (IF i = ctr[v] THEN 1 ELSE 0)
         /\ \A i : Cardinality(Undoers(i)') =
                     Cardinality(Undoers(i)) - (IF i = ctr[v] THEN 1 ELSE 0)
<1> USE DEF TypeInv, TypeOK
<1>1. pc[v] = "undo" /\ ctr[v] \in Counters /\ kind[v] = "human" /\ Leaves({v})
  BY DEF Undo, VisitorsInv
<1>2. \A i \in Counters :
        heap'[i].n = heap[i].n - (IF i = ctr[v] THEN 1 ELSE 0)
  <2>1. heap' = [heap EXCEPT ![ctr[v]] = [@ EXCEPT !.n = heap[ctr[v]].n - 1]]
    BY DEF Undo
  <2>2. \A i \in Counters : heap[i] \in Counter
    OBVIOUS
  <2> QED
    BY <1>1, <2>1, <2>2 DEF Counter
<1>3. \A i : Cardinality(Undoers(i)') =
               Cardinality(Undoers(i)) - (IF i = ctr[v] THEN 1 ELSE 0)
  BY <1>1, UndoneUndoers
<1> QED
  BY <1>1, <1>2, <1>3

\* Every other step leaves those who give clicks back alone, or ends them all;
\* it makes no counter and changes no number.
LEMMA OthersDo ==
  ASSUME TypeInv, Next, \A v \in Visitors : ~(Seed(v) \/ Add(v) \/ Undo(v))
  PROVE  /\ made' = made /\ current' \in {0, current}
         /\ \A i \in Counters : heap'[i].n = heap[i].n
         /\ \/ \A i : Undoers(i)' = Undoers(i)
            \/ Restart /\ \A i : Undoers(i)' = {}
<1> USE DEF TypeInv, TypeOK
<1>1. ASSUME NEW v \in Visitors, Lookup(v) \/ Check(v) \/ EnqueueClick(v)
      PROVE  Quiet /\ UNCHANGED counterVars
  BY <1>1 DEF Lookup, Check, EnqueueClick, Leaves, Quiet
<1>2. ASSUME NEW v \in Visitors, Touch(v)
      PROVE  /\ Quiet /\ UNCHANGED <<made, current>>
             /\ \A i \in Counters : heap'[i].n = heap[i].n
  <2>1. heap' = [heap EXCEPT ![ctr[v]] = [@ EXCEPT !.recent = TRUE]]
    BY <1>2 DEF Touch
  <2>2. \A i \in Counters : heap[i] \in Counter
    OBVIOUS
  <2>3. \A i \in Counters : heap'[i].n = heap[i].n
    BY <2>1, <2>2 DEF Counter
  <2> QED
    BY <1>2, <2>3 DEF Touch, Quiet
<1>3. ASSUME LoadReads \/ LoadReturns \/ WriterStep \/ EntryGoes \/ PruneSees
      PROVE  Quiet /\ UNCHANGED counterVars
  BY <1>3, WriterFrame DEF LoadReads, LoadReturns, EntryGoes, PruneSees,
              Quiet, visitVars
<1>4. ASSUME HourPasses
      PROVE  /\ Quiet /\ UNCHANGED <<made, current>>
             /\ \A i \in Counters : heap'[i].n = heap[i].n
  <2>1. heap' = [heap EXCEPT ![current] = [@ EXCEPT !.recent = FALSE]]
    BY <1>4 DEF HourPasses
  <2>2. \A i \in Counters : heap[i] \in Counter
    OBVIOUS
  <2>3. \A i \in Counters : heap'[i].n = heap[i].n
    BY <2>1, <2>2 DEF Counter
  <2> QED
    BY <1>4, <2>3 DEF HourPasses, Quiet, visitVars
<1>5. ASSUME PruneDeletes \/ \E e \in Editors : EditResets(e)
      PROVE  Quiet /\ UNCHANGED <<made, heap>> /\ current' = 0
  BY <1>5 DEF PruneDeletes, EditResets, DeleteCounter, Quiet, visitVars
<1>6. ASSUME NEW e \in Editors, EditCommits(e) \/ EditInvalidates(e)
      PROVE  Quiet /\ UNCHANGED counterVars
  BY <1>6 DEF EditCommits, EditInvalidates, Quiet, visitVars
<1>7. ASSUME Restart
      PROVE  /\ UNCHANGED <<made, heap>> /\ current' = 0
             /\ \A i : Undoers(i)' = {}
  BY <1>7 DEF Restart, Leaves, Undoers
<1>8. Quiet => \A i : Undoers(i)' = Undoers(i)
  BY QuietUndoers
<1> HIDE DEF TypeInv, TypeOK
<1> QED
  BY <1>1, <1>2, <1>3, <1>4, <1>5, <1>6, <1>7, <1>8 DEF Next, Consume, counterVars

LEMMA CountersKept ==
  ASSUME TypeInv, Next
  PROVE  CountersInv'
<1> USE DEF TypeInv, CountersInv
<1>1. /\ made \in Nat /\ current \in Nat
      /\ \A i \in Counters : /\ heap[i].n \in Nat
                             /\ Cardinality(Undoers(i)) \in Nat
  BY UndoersAre DEF TypeOK, Counters, Counter
<1>2. Cardinality({}) = 0
  BY FS_EmptySet
<1>3. ASSUME NEW v \in Visitors, Seed(v) PROVE CountersInv'
  <2>1. snap[v].count \in Nat
    BY DEF TypeOK, Snapshot
  <2>2. ASSUME NEW i \in Counters PROVE Cardinality(Undoers(i)') <= heap'[i].n
    <3>1. CASE UNCHANGED counterVars
      BY <1>1, <1>3, <3>1, SeedDoes DEF counterVars
    <3>2. CASE \A k \in Counters :
                 IF k = current'
                 THEN heap'[k].n = snap[v].count /\ Undoers(k) = {}
                 ELSE heap'[k] = heap[k]
      <4>1. Undoers(i)' = Undoers(i)
        BY <1>3, SeedDoes
      <4>2. CASE i = current'
        <5>1. Undoers(i)' = {}
          BY <3>2, <4>1, <4>2
        <5>2. Cardinality(Undoers(i)') = 0
          BY <5>1, <1>2
        <5> QED
          BY <2>1, <3>2, <4>2, <5>2
      <4>3. CASE i # current'
        <5>1. heap'[i] = heap[i]
          BY <3>2, <4>3
        <5> QED
          BY <4>1, <5>1
      <4> QED
        BY <4>2, <4>3
    <3> QED
      BY <1>3, <3>1, <3>2, SeedDoes
  <2> QED
    BY <1>3, <2>2, SeedDoes
<1>4. ASSUME NEW v \in Visitors, Add(v) PROVE CountersInv'
  <2>1. made' = made /\ current' = current
    BY <1>4 DEF Add
  <2>2. ASSUME NEW i \in Counters PROVE Cardinality(Undoers(i)') <= heap'[i].n
    BY <1>1, <1>4, AddDoes
  <2> QED
    BY <2>1, <2>2
<1>5. ASSUME NEW v \in Visitors, Undo(v) PROVE CountersInv'
  <2>1. made' = made /\ current' = current
    BY <1>5 DEF Undo
  <2>2. ASSUME NEW i \in Counters PROVE Cardinality(Undoers(i)') <= heap'[i].n
    BY <1>1, <1>5, UndoDoes
  <2> QED
    BY <2>1, <2>2
<1>6. ASSUME \A v \in Visitors : ~(Seed(v) \/ Add(v) \/ Undo(v)) PROVE CountersInv'
  <2>1. current' <= made'
    BY <1>1, <1>6, OthersDo
  <2>2. ASSUME NEW i \in Counters PROVE Cardinality(Undoers(i)') <= heap'[i].n
    <3>1. heap'[i].n = heap[i].n
      BY <1>6, OthersDo
    <3>2. Undoers(i)' = Undoers(i) \/ Undoers(i)' = {}
      BY <1>6, OthersDo
    <3>3. CASE Undoers(i)' = Undoers(i)
      BY <3>1, <3>3
    <3>4. CASE Undoers(i)' = {}
      <4>1. Cardinality(Undoers(i)') = 0
        BY <3>4, <1>2
      <4> QED
        BY <1>1, <3>1, <4>1
    <3> QED
      BY <3>2, <3>3, <3>4
  <2> QED
    BY <2>1, <2>2
<1> QED
  BY <1>3, <1>4, <1>5, <1>6

LEMMA TypesNext ==
  ASSUME TypeInv, [Next]_vars
  PROVE  TypeInv'
<1>1. CASE UNCHANGED vars
  <2>1. Quiet
    BY <1>1 DEF Quiet, vars, visitVars
  <2>2. \A i : Undoers(i)' = Undoers(i)
    BY <2>1, QuietUndoers
  <2>3. CountersInv'
    BY <1>1, <2>2 DEF TypeInv, CountersInv, vars, counterVars
  <2>4. VisitorsInv'
    BY <1>1 DEF TypeInv, VisitorsInv, vars, visitVars, counterVars
  <2>5. CachedInv' /\ Cardinality(cached') <= 1
    BY <1>1 DEF TypeInv, TypeOK, CachedInv, vars, cacheVars
  <2> QED
    BY <1>1, <2>3, <2>4, <2>5
    DEF TypeInv, TypeOK, vars, linkVars, cacheVars, visitVars, counterVars,
        clickVars, spoolVars, resetVars
<1>2. CASE Next
  <2>1. TypeOK
    BY DEF TypeInv
  <2>2. CachedInv' /\ Cardinality(cached') <= 1
    <3>1. CachedInv'
      BY <1>2, CacheTypes
    <3>2. (CachedInv => Cardinality(cached) <= 1)'
      BY CachedIsSmall, PTL
    <3> QED
      BY <3>1, <3>2
  <2>3. VisitorsInv' /\ CountersInv'
    BY <1>2, VisitorsKept, CountersKept
  <2>4. TypeOK'
    BY <1>2, <2>1, <2>2, UsedTypes, CounterTypes, ClickTypes, VisitTypes, CacheTypes,
       ResetTypes
    DEF TypeOK
  <2> QED
    BY <2>2, <2>3, <2>4 DEF TypeInv
<1> QED
  BY <1>1, <1>2

\* All variables keep their types: in particular, no counter goes below zero.
THEOREM ClickLimitTypeCorrect == Spec => []TypeOK
<1>1. Init => TypeInv
  BY TypesInit
<1>2. TypeInv /\ [Next]_vars => TypeInv'
  BY TypesNext
<1>3. TypeInv => TypeOK
  BY DEF TypeInv
<1> QED
  BY <1>1, <1>2, <1>3, PTL DEF Spec

-----------------------------------------------------------------------------
(* Snapshots.                                                              *)

\* The request still works with its snapshot.
Holds(v) == pc[v] \in {"check", "seed", "touch", "add", "undo", "enqueue"}

\* A snapshot is one of the row as it was: its limit is one the link has had,
\* and clicks are counted after they were served.
Genuine(s) ==
  /\ s.limit <= top
  /\ used.edits = 0 => s.limit = top
  /\ s.count <= row.count

SnapshotsInv ==
  /\ row.limit <= top /\ (used.edits = 0 => row.limit = top)
  /\ \A s \in cached : Genuine(s)
  /\ flight.phase = "got" => Genuine(flight.value)
  /\ \A v \in Visitors : Holds(v) => Genuine(snap[v])

LEMMA LimitsAreNumbers ==
  ASSUME NEW s \in Snapshot
  PROVE  s.limit \in Nat /\ s.count \in Nat
  BY LimitsAssumption DEF Snapshot

\* The limit of the link only moves with an edit, its highest one and its
\* count only go up.
LEMMA LinkGrows ==
  ASSUME TypeOK, SnapshotsInv, Next
  PROVE  /\ top <= top' /\ row.count <= row'.count
         /\ row'.limit <= top'
         /\ used'.edits = 0 => used.edits = 0 /\ top' = top /\ row'.limit = row.limit
<1>1. /\ row \in Snapshot /\ top \in Nat /\ row.limit \in Nat /\ row.count \in Nat
      /\ used \in [visits : 0..MaxVisits, edits : 0..MaxEdits,
                   prunes : 0..MaxPrunes, restarts : 0..MaxRestarts,
                recounts : 0..MaxRecounts]
  BY LimitsAssumption DEF TypeOK, Snapshot
<1>2. row.limit <= top
  BY DEF SnapshotsInv
<1>3. ASSUME NEW e \in Editors, EditCommits(e)
      PROVE  /\ top <= top' /\ row.count = row'.count /\ row'.limit <= top'
             /\ used'.edits # 0
  <2>1. used'.edits = used.edits + 1 /\ used.edits \in Nat
    BY <1>1, <1>3, LimitBoundsAssumption DEF EditCommits
  <2>2. CASE \E l \in Limits : /\ row' = [row EXCEPT !.limit = l]
                               /\ top' = IF l > top THEN l ELSE top
    BY <1>1, <2>1, <2>2, LimitsAssumption DEF Snapshot
  <2>3. CASE row' = [row EXCEPT !.live = FALSE] /\ UNCHANGED top
    BY <1>1, <1>2, <2>1, <2>3 DEF Snapshot
  <2>4. CASE row' = [row EXCEPT !.live = TRUE] /\ UNCHANGED top
    BY <1>1, <1>2, <2>1, <2>4 DEF Snapshot
  <2> QED
    BY <1>3, <2>2, <2>3, <2>4 DEF EditCommits
<1>4. ASSUME WriterStep \/ Restart
      PROVE  /\ top' = top /\ row.count <= row'.count /\ row'.limit = row.limit
             /\ used'.edits = used.edits
  <2>1. PICK k \in Nat : Raised(k)
    BY <1>4, WriterDoes, RestartDoes
  <2>2. top' = top
    BY <1>4, WriterFrame, RestartDoes
  <2>3. used'.edits = used.edits
    BY <1>1, <1>4, WriterDoes DEF Restart
  <2> QED
    BY <1>1, <2>1, <2>2, <2>3 DEF Raised, Snapshot
<1>5. ASSUME NEW v \in Visitors, Lookup(v)
      PROVE  UNCHANGED <<row, top>> /\ used'.edits = used.edits
  BY <1>1, <1>5 DEF Lookup, linkVars
<1>6. ASSUME PruneSees PROVE UNCHANGED <<row, top>> /\ used'.edits = used.edits
  BY <1>1, <1>6 DEF PruneSees, linkVars
<1>7. ASSUME NEW v \in Visitors, Check(v) \/ Consume(v) \/ EnqueueClick(v)
      PROVE  UNCHANGED <<row, top, used>>
  BY <1>7 DEF Check, Consume, Seed, Touch, Add, Undo, EnqueueClick, linkVars
<1>8. ASSUME LoadReads \/ LoadReturns \/ EntryGoes \/ HourPasses \/ PruneDeletes
      PROVE  UNCHANGED <<row, top, used>>
  BY <1>8 DEF LoadReads, LoadReturns, EntryGoes, HourPasses, PruneDeletes,
              linkVars
<1>9. ASSUME NEW e \in Editors, EditResets(e) \/ EditInvalidates(e)
      PROVE  UNCHANGED <<row, top, used>>
  BY <1>9 DEF EditResets, EditInvalidates, linkVars
<1> QED
  BY <1>1, <1>2, <1>3, <1>4, <1>5, <1>6, <1>7, <1>8, <1>9 DEF Next

\* A snapshot is genuine after the step, too.
StaysGenuine(s) ==
  /\ s.limit <= top'
  /\ used'.edits = 0 => s.limit = top'
  /\ s.count <= row'.count

LEMMA GenuineStays ==
  ASSUME TypeOK, SnapshotsInv, Next, NEW s \in Snapshot, Genuine(s)
  PROVE  StaysGenuine(s)
<1>1. top' \in Limits /\ row' \in Snapshot
  BY ClickTypes
<1>2. /\ top \in Nat /\ row.count \in Nat /\ top' \in Nat /\ row'.count \in Nat
  BY <1>1, LimitsAssumption DEF TypeOK, Snapshot
<1> QED
  BY <1>2, LinkGrows, LimitsAreNumbers DEF Genuine, StaysGenuine

\* Where the snapshots of the next state come from.
LEMMA CacheSources ==
  ASSUME Next
  PROVE  \/ cached' = cached \/ cached' = {}
         \/ flight.phase = "got" /\ cached' = {flight.value}
<1>1. ASSUME NEW v \in Visitors, Lookup(v) \/ Check(v) \/ Consume(v) \/ EnqueueClick(v)
      PROVE  cached' = cached
  BY <1>1 DEF Lookup, Check, Consume, Seed, Touch, Add, Undo, EnqueueClick, cacheVars
<1>2. ASSUME LoadReads \/ WriterStep \/ HourPasses \/ PruneSees \/ PruneDeletes
      PROVE  cached' = cached
  BY <1>2, WriterFrame DEF LoadReads, HourPasses, PruneSees, PruneDeletes, cacheVars
<1>3. ASSUME NEW e \in Editors, EditCommits(e) \/ EditResets(e)
      PROVE  cached' = cached
  BY <1>3 DEF EditCommits, EditResets, cacheVars
<1>4. ASSUME LoadReturns PROVE flight.phase = "got" /\ cached' = {flight.value}
  BY <1>4 DEF LoadReturns
<1>5. ASSUME EntryGoes \/ Restart \/ \E e \in Editors : EditInvalidates(e)
      PROVE  cached' = {}
  BY <1>5 DEF EntryGoes, Restart, EditInvalidates
<1> QED
  BY <1>1, <1>2, <1>3, <1>4, <1>5 DEF Next

LEMMA FlightSources ==
  ASSUME TypeOK, Next
  PROVE  flight' = flight \/ flight'.phase # "got" \/ flight'.value = row
<1>1. ASSUME NEW v \in Visitors, Lookup(v)
      PROVE  flight' = flight \/ flight'.phase # "got"
  BY <1>1 DEF Lookup, TypeOK
<1>2. ASSUME NEW v \in Visitors, Check(v) \/ Consume(v) \/ EnqueueClick(v)
      PROVE  flight' = flight
  BY <1>2 DEF Check, Consume, Seed, Touch, Add, Undo, EnqueueClick, cacheVars
<1>3. ASSUME WriterStep \/ EntryGoes \/ HourPasses \/ PruneSees \/ PruneDeletes
      PROVE  flight' = flight
  BY <1>3, WriterFrame DEF EntryGoes, HourPasses, PruneSees, PruneDeletes, cacheVars
<1>4. ASSUME NEW e \in Editors, EditCommits(e) \/ EditResets(e) \/ EditInvalidates(e)
      PROVE  flight' = flight
  BY <1>4 DEF EditCommits, EditResets, EditInvalidates, cacheVars
<1>5. ASSUME LoadReads PROVE flight'.value = row
  BY <1>5 DEF LoadReads
<1>6. ASSUME LoadReturns \/ Restart PROVE flight'.phase # "got"
  BY <1>6, NoSnapIs DEF LoadReturns, Restart, NoFlight
<1> QED
  BY <1>1, <1>2, <1>3, <1>4, <1>5, <1>6 DEF Next

\* The request is where it was, with the snapshot it had.
Stays(v) ==
  /\ kind'[v] = kind[v] /\ snap'[v] = snap[v]
  /\ ctr'[v] = ctr[v] \/ Seed(v)
  /\ Holds(v)
  /\ pc'[v] \in {"check", "seed"} => pc[v] \in {"check", "seed"}
  /\ pc'[v] \in {"touch", "add"} => pc[v] \in {"touch", "add"} \/ Seed(v)

LEMMA VisitSources ==
  ASSUME TypeOK, Next, NEW v \in Visitors, Holds(v)'
  PROVE  \/ Stays(v)
         \/ pc'[v] = "check" /\ snap'[v] \in cached
         \/ pc'[v] = "check" /\ flight.phase = "got" /\ snap'[v] = flight.value
<1> USE DEF TypeOK, Holds, Stays
<1>1. ASSUME NEW w \in Visitors, Lookup(w)
      PROVE  Stays(v) \/ (pc'[v] = "check" /\ snap'[v] \in cached)
  BY <1>1 DEF Lookup
<1>2. ASSUME NEW S, Leaves(S) PROVE Stays(v)
  BY <1>2 DEF Leaves
<1>3. ASSUME NEW w \in Visitors, Check(w) PROVE Stays(v)
  BY <1>2, <1>3 DEF Check
<1>4. ASSUME NEW w \in Visitors, Seed(w) PROVE Stays(v)
  <2>1. /\ pc' = [pc EXCEPT ![w] = "touch"] /\ pc[w] = "seed"
        /\ kind' = kind /\ snap' = snap /\ ctr' = [ctr EXCEPT ![w] = current']
    BY <1>4 DEF Seed
  <2>2. CASE v = w
    BY <1>4, <2>1, <2>2
  <2>3. CASE v # w
    BY <2>1, <2>3
  <2> QED
    BY <2>2, <2>3
<1>5. ASSUME NEW w \in Visitors, Touch(w) \/ Add(w) PROVE Stays(v)
  BY <1>5 DEF Touch, Add
<1>6. ASSUME NEW w \in Visitors, Undo(w) \/ EnqueueClick(w) PROVE Stays(v)
  BY <1>2, <1>6 DEF Undo, EnqueueClick
<1>7. ASSUME LoadReturns
      PROVE  \/ Stays(v)
             \/ pc'[v] = "check" /\ flight.phase = "got" /\ snap'[v] = flight.value
  BY <1>7 DEF LoadReturns
<1>8. ASSUME LoadReads \/ WriterStep \/ EntryGoes \/ HourPasses \/ PruneSees
               \/ PruneDeletes
      PROVE  Stays(v)
  BY <1>8, WriterFrame DEF LoadReads, EntryGoes, HourPasses, PruneSees, PruneDeletes,
              visitVars
<1>9. ASSUME NEW e \in Editors, EditCommits(e) \/ EditResets(e) \/ EditInvalidates(e)
      PROVE  Stays(v)
  BY <1>9 DEF EditCommits, EditResets, EditInvalidates, visitVars
<1>10. ASSUME Restart PROVE Stays(v)
  BY <1>2, <1>10 DEF Restart
<1> HIDE DEF TypeOK, Holds, Stays
<1> QED
  BY <1>1, <1>3, <1>4, <1>5, <1>6, <1>7, <1>8, <1>9, <1>10 DEF Next, Consume

LEMMA SnapshotsInit == Init => SnapshotsInv
<1> SUFFICES ASSUME Init PROVE SnapshotsInv
  OBVIOUS
<1>1. top = row.limit /\ top \in Nat
  BY LimitsAssumption DEF Init
<1>2. cached = {} /\ flight.phase = "none" /\ \A v \in Visitors : ~Holds(v)
  BY NoSnapIs DEF Init, Holds
<1> QED
  BY <1>1, <1>2 DEF SnapshotsInv

LEMMA SnapshotsKept ==
  ASSUME TypeInv, SnapshotsInv, Next
  PROVE  SnapshotsInv'
<1> TypeOK
  BY DEF TypeInv
<1>1. \A s \in Snapshot : Genuine(s) => StaysGenuine(s)
  BY GenuineStays
<1>2. row \in Snapshot /\ Genuine(row)
  BY LimitsAreNumbers DEF TypeOK, SnapshotsInv, Genuine
<1>3. /\ StaysGenuine(row)
      /\ \A s \in cached : StaysGenuine(s)
      /\ flight.phase = "got" => StaysGenuine(flight.value)
      /\ \A v \in Visitors : Holds(v) => StaysGenuine(snap[v])
  <2>1. /\ flight.value \in Snapshot /\ \A v \in Visitors : snap[v] \in Snapshot
        /\ \A s \in cached : s \in Snapshot
    BY DEF TypeOK
  <2> QED
    BY <1>1, <1>2, <2>1 DEF SnapshotsInv
<1>4. row'.limit <= top' /\ (used'.edits = 0 => row'.limit = top')
  BY LinkGrows DEF SnapshotsInv
<1>5. \A s \in cached' : StaysGenuine(s)
  BY <1>3, CacheSources
<1>6. flight'.phase = "got" => StaysGenuine(flight'.value)
  BY <1>3, FlightSources
<1>7. ASSUME NEW v \in Visitors, Holds(v)' PROVE StaysGenuine(snap'[v])
  BY <1>3, <1>7, VisitSources DEF Stays
<1> QED
  BY <1>4, <1>5, <1>6, <1>7 DEF SnapshotsInv, Genuine, StaysGenuine

-----------------------------------------------------------------------------
(* The lower bound: the shared counter covers what was served.             *)

\* As long as no counter was thrown away too early, everyone who consumes a
\* click does it with the shared counter, which counts everyone served; while
\* there is none, whatever one could start from covers them.
CoverInv ==
  ~raced =>
    /\ \A v \in Visitors : pc[v] \in {"touch", "add"} => ctr[v] = current
    /\ \A i \in Counters :
         i = current => served + Cardinality(Undoers(i)) <= heap[i].n
    /\ current = 0 => ~Uncovered
    /\ served <= top

LEMMA CoverInit == Init => CoverInv
<1> SUFFICES ASSUME Init PROVE CoverInv
  OBVIOUS
<1>1. row.count = 0 /\ served = 0 /\ current = 0 /\ top \in Nat /\ ~(0 < 0)
  BY LimitsAssumption DEF Init
<1>2. ~Uncovered
  BY <1>1, NoSnapIs DEF Init, Uncovered, Behind
<1>3. (\A v \in Visitors : pc[v] = "idle") /\ 0 \notin Counters /\ 0 <= top
  BY <1>1 DEF Init, Counters
<1> QED
  BY <1>1, <1>2, <1>3 DEF CoverInv

LEMMA ServedStays ==
  ASSUME Next, \A v \in Visitors : ~Add(v)
  PROVE  served' = served
<1>1. ASSUME NEW v \in Visitors,
             Lookup(v) \/ Check(v) \/ Seed(v) \/ Touch(v) \/ Undo(v) \/ EnqueueClick(v)
      PROVE  served' = served
  BY <1>1 DEF Lookup, Check, Seed, Touch, Undo, EnqueueClick, clickVars
<1>2. ASSUME LoadReads \/ LoadReturns \/ WriterStep \/ EntryGoes \/ HourPasses
               \/ PruneSees \/ PruneDeletes \/ Restart
      PROVE  served' = served
  BY <1>2, WriterFrame DEF LoadReads, LoadReturns, EntryGoes, HourPasses, PruneSees,
              PruneDeletes, Restart, clickVars
<1>3. ASSUME NEW e \in Editors, EditCommits(e) \/ EditResets(e) \/ EditInvalidates(e)
      PROVE  served' = served
  BY <1>3 DEF EditCommits, EditResets, EditInvalidates, clickVars
<1> QED
  BY <1>1, <1>2, <1>3 DEF Next, Consume

\* While nothing a counter could start from misses a click served, nobody is
\* about to serve one; a step that makes no counter and does not lose one too
\* early keeps it so.
LEMMA CoveredStays ==
  ASSUME TypeInv, SnapshotsInv, ~Uncovered, Next, ~raced', \A v \in Visitors : ~Seed(v)
  PROVE  ~Uncovered'
<1> TypeOK
  BY DEF TypeInv
<1> DEFINE Ahead(s) == ~(s.count < served)
<1>1. /\ Ahead(row)
      /\ \A s \in cached : Ahead(s)
      /\ flight.phase = "got" => Ahead(flight.value)
      /\ \A v \in Visitors :
           kind[v] = "human" => /\ pc[v] \in {"check", "seed"} => Ahead(snap[v])
                                /\ pc[v] \notin {"touch", "add"}
  BY DEF Uncovered, Behind
<1>2. served' = served
  <2>1. \A v \in Visitors : ~Add(v)
    BY <1>1 DEF Add, TypeInv, VisitorsInv
  <2> QED
    BY <2>1, ServedStays
<1>3. Ahead(row')
  <2>1. /\ row.count \in Nat /\ row'.count \in Nat /\ served \in Nat
        /\ row.count <= row'.count
    BY LinkGrows, ClickTypes DEF TypeOK, Snapshot
  <2> QED
    BY <1>1, <2>1
<1>4. /\ \A s \in cached' : Ahead(s)
      /\ flight'.phase = "got" => Ahead(flight'.value)
  BY <1>1, CacheSources, FlightSources
<1>5. ASSUME NEW v \in Visitors, kind'[v] = "human"
      PROVE  /\ pc'[v] \in {"check", "seed"} => Ahead(snap'[v])
             /\ pc'[v] \notin {"touch", "add"}
  <2>1. CASE Holds(v)'
    BY <1>1, <1>5, <2>1, VisitSources DEF Stays
  <2>2. CASE ~Holds(v)'
    BY <2>2 DEF Holds
  <2> QED
    BY <2>1, <2>2
<1> QED
  BY <1>2, <1>3, <1>4, <1>5 DEF Uncovered, Behind

\* A counter is thrown away by DeleteCounter or a restart, which note it when
\* it was too early.
LEMMA CounterGoes ==
  ASSUME TypeOK, Next, \A v \in Visitors : ~Seed(v)
  PROVE  /\ raced => raced'
         /\ current' # current => Restart \/ (current' = 0 /\ (Uncovered => raced'))
<1>1. ASSUME NEW v \in Visitors,
             Lookup(v) \/ Check(v) \/ Touch(v) \/ Add(v) \/ Undo(v) \/ EnqueueClick(v)
      PROVE  current' = current /\ raced' = raced
  BY <1>1 DEF Lookup, Check, Touch, Add, Undo, EnqueueClick, counterVars, resetVars
<1>2. ASSUME LoadReads \/ LoadReturns \/ WriterStep \/ EntryGoes \/ HourPasses
               \/ PruneSees
      PROVE  current' = current /\ raced' = raced
  BY <1>2, WriterFrame DEF LoadReads, LoadReturns, EntryGoes, HourPasses, PruneSees,
              counterVars, resetVars
<1>3. ASSUME NEW e \in Editors, EditCommits(e) \/ EditInvalidates(e)
      PROVE  current' = current /\ raced' = raced
  BY <1>3 DEF EditCommits, EditInvalidates, counterVars
<1>4. DeleteCounter => /\ current' = 0
                       /\ raced => raced'
                       /\ current # 0 /\ Uncovered => raced'
  BY DEF DeleteCounter
<1>5. PruneDeletes \/ (\E e \in Editors : EditResets(e)) => DeleteCounter
  BY DEF PruneDeletes, EditResets
<1>6. Restart /\ raced => raced'
  BY DEF Restart
<1> QED
  BY <1>1, <1>2, <1>3, <1>4, <1>5, <1>6 DEF Next, Consume

LEMMA RestartCovers ==
  ASSUME TypeOK, Restart, ~raced'
  PROVE  ~Uncovered'
<1>1. cached' = {} /\ flight'.phase = "none" /\ \A v \in Visitors : pc'[v] = "idle"
  BY NoSnapIs DEF Restart, Leaves
<1>2. ~(row'.count < served')
  BY DEF Restart
<1> QED
  BY <1>1, <1>2 DEF Uncovered, Behind

LEMMA CoverKept ==
  ASSUME TypeInv, TypeInv', SnapshotsInv, CoverInv, Next
  PROVE  CoverInv'
<1> SUFFICES ASSUME ~raced' PROVE CoverInv'
  BY DEF CoverInv
<1> TypeOK
  BY DEF TypeInv
<1> DEFINE Busy(v) == pc[v] \in {"touch", "add"}
<1>1. ~raced
  <2>1. ASSUME NEW v \in Visitors, Seed(v) PROVE raced' = raced
    BY <2>1 DEF Seed, resetVars
  <2> QED
    BY <2>1, CounterGoes
<1>2. /\ \A v \in Visitors : Busy(v) => ctr[v] = current
      /\ \A i \in Counters :
           i = current => served + Cardinality(Undoers(i)) <= heap[i].n
      /\ current = 0 => ~Uncovered
      /\ served <= top
  BY <1>1 DEF CoverInv
<1>3. /\ served \in Nat /\ top \in Nat /\ top' \in Nat /\ top <= top'
      /\ current \in Counters \cup {0} /\ 0 \notin Counters
  <2>1. top' \in Limits /\ top <= top'
    BY LinkGrows, ClickTypes
  <2>2. 0 \notin Counters
    BY DEF Counters
  <2> QED
    BY <2>1, <2>2, LimitsAssumption DEF TypeOK
<1>4. \A i \in Counters : heap[i].n \in Nat /\ Cardinality(Undoers(i)) \in Nat
  BY UndoersAre DEF TypeOK, Counter
<1>5. ASSUME NEW v \in Visitors, Seed(v) PROVE CoverInv'
  <2>1. served' = served /\ pc[v] = "seed" /\ pc' = [pc EXCEPT ![v] = "touch"]
    BY <1>5 DEF Seed, clickVars
  <2>2. current' # 0 /\ ctr' = [ctr EXCEPT ![v] = current']
    BY <1>3, <1>5, SeedDoes
  <2>3. \A i \in Counters : Undoers(i)' = Undoers(i)
    BY <1>5, SeedDoes
  <2>4. served' <= top'
    BY <1>2, <1>3, <2>1
  <2>5. CASE UNCHANGED counterVars /\ current # 0
    <3>1. \A w \in Visitors : Busy(w)' => ctr'[w] = current'
      BY <1>2, <2>1, <2>2, <2>5 DEF TypeOK, counterVars
    <3>2. \A i \in Counters :
            i = current' => served' + Cardinality(Undoers(i)') <= heap'[i].n
      BY <1>2, <2>1, <2>3, <2>5 DEF counterVars
    <3> QED
      BY <2>2, <2>4, <3>1, <3>2 DEF CoverInv
  <2>6. CASE /\ current = 0
             /\ \A i \in Counters :
                  i = current' => heap'[i].n = snap[v].count /\ Undoers(i) = {}
    <3>1. kind[v] = "human"
      BY <2>1 DEF TypeInv, VisitorsInv
    <3>2. ~(snap[v].count < served) /\ snap[v].count \in Nat
      BY <1>2, <2>1, <2>6, <3>1 DEF Uncovered, Behind, TypeOK, Snapshot
    <3>3. \A w \in Visitors : ~Busy(w)
      BY <1>2, <2>6 DEF Uncovered, TypeInv, VisitorsInv
    <3>4. \A w \in Visitors : Busy(w)' => ctr'[w] = current'
      BY <2>1, <2>2, <3>3 DEF TypeOK
    <3>5. Cardinality({}) = 0
      BY FS_EmptySet
    <3>6. ASSUME NEW i \in Counters, i = current'
          PROVE  served' + Cardinality(Undoers(i)') <= heap'[i].n
      <4>1. heap'[i].n = snap[v].count /\ Undoers(i)' = {}
        BY <2>3, <2>6, <3>6
      <4>2. Cardinality(Undoers(i)') = 0
        BY <3>5, <4>1
      <4> QED
        BY <1>3, <2>1, <3>2, <4>1, <4>2
    <3> QED
      BY <2>2, <2>4, <3>4, <3>6 DEF CoverInv
  <2> QED
    BY <1>5, <2>5, <2>6, SeedDoes
<1>6. ASSUME NEW v \in Visitors, Add(v) PROVE CoverInv'
  <2>1. pc[v] = "add" /\ current' = current /\ ctr' = ctr /\ ctr[v] \in Counters
    BY <1>6, AddDoes DEF Add
  <2>2. ctr[v] = current /\ current # 0 /\ current \in Counters
    BY <1>2, <1>3, <2>1
  <2>3. snap[v].limit <= top /\ snap[v].limit \in Nat
    BY <2>1, LimitsAreNumbers DEF SnapshotsInv, Genuine, Holds, TypeOK
  <2>4. \A w \in Visitors : Busy(w)' => ctr'[w] = current'
    <3>1. pc' = [pc EXCEPT ![v] = "undo"] \/ pc' = [pc EXCEPT ![v] = "enqueue"]
      BY <1>6, AddDoes
    <3> QED
      BY <1>2, <2>1, <3>1 DEF TypeOK
  <2>5. ASSUME NEW i \in Counters, i = current
        PROVE  served' + Cardinality(Undoers(i)') <= heap'[i].n /\ served' <= top'
    <3>1. /\ i = ctr[v] /\ heap'[i].n = heap[i].n + 1
          /\ heap[i].n \in Nat /\ Cardinality(Undoers(i)) \in Nat
          /\ served + Cardinality(Undoers(i)) <= heap[i].n
      BY <1>2, <1>4, <1>6, <2>2, <2>5, AddDoes
    <3>2. CASE /\ served' = served
               /\ Cardinality(Undoers(i)') = Cardinality(Undoers(i)) + 1
      BY <1>2, <1>3, <3>1, <3>2
    <3>3. CASE /\ heap[ctr[v]].n + 1 <= snap[v].limit /\ served' = served + 1
               /\ Undoers(i)' = Undoers(i)
      <4>1. heap[i].n + 1 <= snap[v].limit
        BY <3>1, <3>3
      <4>2. served' + Cardinality(Undoers(i)) <= heap'[i].n
        BY <1>3, <3>1, <3>3
      <4>3. served + 1 <= top'
        BY <1>3, <2>3, <3>1, <4>1
      <4> QED
        BY <3>3, <4>2, <4>3
    <3> QED
      BY <1>6, <3>1, <3>2, <3>3, AddDoes
  <2> QED
    BY <2>1, <2>2, <2>4, <2>5 DEF CoverInv
<1>7. ASSUME NEW v \in Visitors, Undo(v) PROVE CoverInv'
  <2>1. current' = current /\ served' = served /\ top' = top /\ Leaves({v})
    BY <1>7 DEF Undo, clickVars, linkVars
  <2>2. \A w \in Visitors : Busy(w)' => ctr'[w] = current'
    BY <1>2, <2>1 DEF Leaves
  <2>3. ASSUME NEW i \in Counters, i = current
        PROVE  served' + Cardinality(Undoers(i)') <= heap'[i].n
    <3>1. /\ heap'[i].n = heap[i].n - (IF i = ctr[v] THEN 1 ELSE 0)
          /\ Cardinality(Undoers(i)') =
               Cardinality(Undoers(i)) - (IF i = ctr[v] THEN 1 ELSE 0)
      BY <1>7, UndoDoes
    <3> QED
      BY <1>2, <1>3, <1>4, <2>1, <2>3, <3>1
  <2>4. current' = 0 => ~Uncovered'
    <3>1. \A w \in Visitors : ~Seed(w)
      <4>1. \A w \in Visitors : pc'[w] # "touch" \/ pc[w] = "touch"
        BY <1>7, <2>1 DEF Undo, Leaves
      <4> QED
        BY <4>1 DEF Seed, TypeOK
    <3> QED
      BY <1>2, <2>1, <3>1, CoveredStays
  <2> QED
    BY <1>2, <2>1, <2>2, <2>3, <2>4 DEF CoverInv
<1>8. ASSUME \A v \in Visitors : ~(Seed(v) \/ Add(v) \/ Undo(v)) PROVE CoverInv'
  <2>1. served' = served
    BY <1>8, ServedStays
  <2>2. served' <= top'
    BY <1>2, <1>3, <2>1
  <2>3. CASE current' = current
    <3>1. \A w \in Visitors : Busy(w)' => ctr'[w] = current'
      <4>1. ASSUME NEW w \in Visitors, Busy(w)' PROVE Stays(w)
        BY <4>1, VisitSources DEF Holds
      <4> QED
        BY <1>2, <1>8, <2>3, <4>1 DEF Stays
    <3>2. ASSUME NEW i \in Counters, i = current
          PROVE  served' + Cardinality(Undoers(i)') <= heap'[i].n
      <4>1. heap'[i].n = heap[i].n
        BY <1>8, OthersDo
      <4>2. ~Restart
        BY <1>3, <2>3, <3>2 DEF Restart
      <4>3. Undoers(i)' = Undoers(i)
        BY <1>8, <4>2, OthersDo
      <4> QED
        BY <1>2, <2>1, <3>2, <4>1, <4>3
    <3>3. current' = 0 => ~Uncovered'
      BY <1>2, <1>8, <2>3, CoveredStays
    <3> QED
      BY <2>2, <2>3, <3>1, <3>2, <3>3 DEF CoverInv
  <2>4. CASE current' # current
    <3>1. current' = 0
      BY <1>8, <2>4, OthersDo
    <3>2. ~Uncovered'
      <4>1. CASE Restart
        BY <4>1, RestartCovers
      <4>2. CASE ~Restart
        <5>1. ~Uncovered
          BY <1>8, <2>4, <4>2, CounterGoes
        <5> QED
          BY <1>8, <5>1, CoveredStays
      <4> QED
        BY <4>1, <4>2
    <3>3. \A w \in Visitors : ~Busy(w)'
      BY <3>2 DEF Uncovered, TypeInv, VisitorsInv
    <3> QED
      BY <1>3, <2>2, <3>1, <3>2, <3>3 DEF CoverInv
  <2> QED
    BY <2>3, <2>4
<1> QED
  BY <1>5, <1>6, <1>7, <1>8

LEMMA SnapshotsIdle == SnapshotsInv /\ UNCHANGED vars => SnapshotsInv'
<1> SUFFICES ASSUME SnapshotsInv, UNCHANGED vars PROVE SnapshotsInv'
  OBVIOUS
<1> USE DEF vars, linkVars, cacheVars, visitVars
<1>1. \A s : Genuine(s)' <=> Genuine(s)
  BY DEF Genuine
<1>2. \A v \in Visitors : Holds(v)' <=> Holds(v)
  BY DEF Holds
<1> QED
  BY <1>1, <1>2 DEF SnapshotsInv, Genuine

LEMMA CoverIdle == CoverInv /\ UNCHANGED vars => CoverInv'
<1> SUFFICES ASSUME CoverInv, UNCHANGED vars PROVE CoverInv'
  OBVIOUS
<1> USE DEF vars, linkVars, cacheVars, visitVars, counterVars, clickVars, resetVars
<1>1. \A i : Undoers(i)' = Undoers(i)
  BY DEF Undoers
<1>2. Uncovered' <=> Uncovered
  BY DEF Uncovered, Behind
<1> QED
  BY <1>1, <1>2 DEF CoverInv

\* The limit holds unless a counter is thrown away too early: no more humans
\* are redirected than the highest limit the link ever had (ConsumeClick).
THEOREM LimitIsKept == Spec => []LimitHoldsUnlessRaced
<1> DEFINE Inv == TypeInv /\ SnapshotsInv /\ CoverInv
<1>1. Init => Inv
  BY TypesInit, SnapshotsInit, CoverInit
<1>2. Inv /\ [Next]_vars => Inv'
  <2> SUFFICES ASSUME Inv, [Next]_vars PROVE Inv'
    OBVIOUS
  <2>1. TypeInv'
    BY TypesNext
  <2>2. CASE Next
    BY <2>1, <2>2, SnapshotsKept, CoverKept
  <2>3. CASE UNCHANGED vars
    BY <2>1, <2>3, SnapshotsIdle, CoverIdle
  <2> QED
    BY <2>2, <2>3
<1>3. Inv => LimitHoldsUnlessRaced
  BY DEF CoverInv, LimitHoldsUnlessRaced
<1> QED
  BY <1>1, <1>2, <1>3, PTL DEF Spec

-----------------------------------------------------------------------------
(* The upper bound: a counter counts nobody who was not served, counted as *)
(* a bot, or about to give his click back.                                 *)

\* Humans whose click is still to be enqueued.
Enqueuers == {v \in Visitors : pc[v] = "enqueue" /\ kind[v] = "human"}

Reachable(i) == i = current \/ \E v \in Visitors : ctr[v] = i

\* Clicks served or counted are in the row, pending, spooled, about to be
\* enqueued, or lost: no step makes one that was not, but for the recounted.
Accounted ==
  row.count + pending + spooled + Cardinality(Enqueuers) <= served + bots + recounted

\* The same for the counters in use; as long as the limit has not changed,
\* somebody who was refused saw it used up.
CountersAreFair ==
  \A i \in Counters :
    Reachable(i) => heap[i].n <= served + bots + recounted + Cardinality(Undoers(i))

RefusalsAreFair ==
  used.edits = 0 => \A v \in Visitors : pc[v] = "undo" => top <= served + bots + recounted

CountInv == Accounted /\ CountersAreFair /\ RefusalsAreFair

LEMMA EnqueuersAre ==
  /\ IsFiniteSet(Enqueuers) /\ Cardinality(Enqueuers) \in Nat
<1>1. Enqueuers \subseteq Visitors
  BY DEF Enqueuers
<1>2. IsFiniteSet(Enqueuers)
  BY <1>1, VisitorsAssumption, FS_Subset
<1> QED
  BY <1>2, FS_CardinalityType

\* Nobody joins or leaves those whose click is still to be enqueued.
LEMMA SameEnqueuers ==
  ASSUME \A v \in Visitors :
           (pc'[v] = "enqueue" /\ kind'[v] = "human")
             <=> (pc[v] = "enqueue" /\ kind[v] = "human")
  PROVE  Enqueuers' = Enqueuers
  BY DEF Enqueuers

LEMMA AccountedInit == Init => Accounted
<1> SUFFICES ASSUME Init PROVE Accounted
  OBVIOUS
<1>1. Enqueuers = {}
  BY DEF Init, Enqueuers
<1>2. Cardinality(Enqueuers) = 0
  BY <1>1, FS_EmptySet
<1> QED
  BY <1>2 DEF Init, Accounted

LEMMA AccountedKept ==
  ASSUME TypeInv, Accounted, Next
  PROVE  Accounted' /\ served <= served' /\ bots <= bots' /\ recounted <= recounted'
<1> TypeOK
  BY DEF TypeInv
<1> DEFINE Goal == /\ Accounted' /\ served <= served' /\ bots <= bots'
                   /\ recounted <= recounted'
<1>1. /\ row.count \in Nat /\ pending \in Nat /\ served \in Nat /\ bots \in Nat
      /\ row'.count \in Nat /\ pending' \in Nat /\ served' \in Nat /\ bots' \in Nat
      /\ spooled \in Nat /\ recounted \in Nat /\ spooled' \in Nat /\ recounted' \in Nat
  BY ClickTypes DEF TypeOK, Snapshot
<1>2. IsFiniteSet(Enqueuers) /\ Cardinality(Enqueuers) \in Nat
  BY EnqueuersAre
<1>3. row.count + pending + spooled + Cardinality(Enqueuers) <= served + bots + recounted
  BY DEF Accounted
<1>4. ASSUME Enqueuers' = Enqueuers, UNCHANGED <<row, served, bots, spooled, recounted>>,
             pending' <= pending
      PROVE  Goal
  BY <1>1, <1>2, <1>3, <1>4 DEF Accounted
<1>5. ASSUME NEW v \in Visitors, Lookup(v) PROVE Goal
  <2>1. Enqueuers' = Enqueuers
    BY <1>5, SameEnqueuers DEF Lookup, TypeOK
  <2> QED
    BY <1>1, <1>4, <1>5, <2>1 DEF Lookup, linkVars, clickVars, spoolVars
<1>6. ASSUME NEW v \in Visitors, Check(v) PROVE Goal
  <2>1. Enqueuers' = Enqueuers
    BY <1>6, SameEnqueuers DEF Check, Leaves, TypeOK
  <2> QED
    BY <1>1, <1>4, <1>6, <2>1 DEF Check, linkVars, clickVars, spoolVars
<1>7. ASSUME NEW v \in Visitors, Seed(v) \/ Touch(v) \/ Undo(v) PROVE Goal
  <2>1. Enqueuers' = Enqueuers
    BY <1>7, SameEnqueuers DEF Seed, Touch, Undo, Leaves, TypeOK
  <2> QED
    BY <1>1, <1>4, <1>7, <2>1 DEF Seed, Touch, Undo, linkVars, clickVars, spoolVars
<1>8. ASSUME NEW v \in Visitors, Add(v) PROVE Goal
  <2>1. /\ UNCHANGED <<row, pending, bots, spooled, recounted>> /\ kind' = kind
        /\ pc[v] = "add" /\ kind[v] = "human"
    BY <1>8, AddDoes DEF Add, linkVars, spoolVars
  <2>2. CASE pc' = [pc EXCEPT ![v] = "undo"] /\ served' = served
    <3>1. Enqueuers' = Enqueuers
      BY <2>1, <2>2, SameEnqueuers DEF TypeOK
    <3> QED
      BY <1>1, <1>4, <2>1, <2>2, <3>1
  <2>3. CASE pc' = [pc EXCEPT ![v] = "enqueue"] /\ served' = served + 1
    <3>1. Enqueuers' = Enqueuers \cup {v} /\ v \notin Enqueuers
      BY <2>1, <2>3 DEF TypeOK, Enqueuers
    <3>2. Cardinality(Enqueuers \cup {v}) = Cardinality(Enqueuers) + 1
      BY <1>2, <3>1, FS_AddElement
    <3>3. Cardinality(Enqueuers)' = Cardinality(Enqueuers) + 1
      BY <3>1, <3>2
    <3> QED
      BY <1>1, <1>2, <1>3, <2>1, <2>3, <3>3 DEF Accounted
  <2> QED
    BY <1>8, <2>2, <2>3, AddDoes
<1>9. ASSUME NEW v \in Visitors, EnqueueClick(v) PROVE Goal
  <2>1. /\ pc[v] = "enqueue" /\ Leaves({v}) /\ UNCHANGED <<row, served>>
        /\ pending' <= pending + 1 /\ UNCHANGED <<spooled, recounted>>
    BY <1>1, <1>9 DEF EnqueueClick, linkVars, spoolVars
  <2>2. CASE kind[v] = "bot"
    <3>1. Enqueuers' = Enqueuers
      BY <2>1, <2>2, SameEnqueuers DEF Leaves, TypeOK
    <3>2. CASE UNCHANGED <<pending, bots>>
      BY <1>1, <1>4, <2>1, <3>1, <3>2
    <3>3. CASE bots' = bots + 1
      BY <1>1, <1>2, <1>3, <2>1, <3>1, <3>3 DEF Accounted
    <3> QED
      BY <1>9, <2>2, <3>2, <3>3 DEF EnqueueClick
  <2>3. CASE kind[v] = "human"
    <3>1. Enqueuers' = Enqueuers \ {v} /\ v \in Enqueuers
      BY <2>1, <2>3 DEF Leaves, TypeOK, Enqueuers
    <3>2. Cardinality(Enqueuers \ {v}) = Cardinality(Enqueuers) - 1
      BY <1>2, <3>1, FS_RemoveElement
    <3>3. Cardinality(Enqueuers)' = Cardinality(Enqueuers) - 1
      BY <3>1, <3>2
    <3>4. bots' = bots
      BY <1>9, <2>3 DEF EnqueueClick
    <3> QED
      BY <1>1, <1>2, <1>3, <2>1, <3>3, <3>4 DEF Accounted
  <2> QED
    BY <2>1, <2>2, <2>3 DEF TypeInv, VisitorsInv, TypeOK
<1>10. ASSUME LoadReads \/ LoadReturns \/ EntryGoes \/ HourPasses \/ PruneSees
                \/ PruneDeletes \/ \E e \in Editors : EditResets(e) \/ EditInvalidates(e)
       PROVE  Goal
  <2>1. Enqueuers' = Enqueuers
    <3>1. (LoadReturns \/ UNCHANGED visitVars) /\ (LoadReturns => kind' = kind)
      BY <1>10 DEF LoadReads, LoadReturns, EntryGoes, HourPasses, PruneSees, PruneDeletes,
                   EditResets, EditInvalidates
    <3>2. CASE LoadReturns
      BY <3>1, <3>2, SameEnqueuers DEF LoadReturns
    <3>3. CASE UNCHANGED visitVars
      BY <3>3, SameEnqueuers DEF visitVars
    <3> QED
      BY <3>1, <3>2, <3>3
  <2>2. UNCHANGED <<row, clickVars>>
    BY <1>10 DEF LoadReads, LoadReturns, EntryGoes, HourPasses, PruneSees, PruneDeletes,
                 EditResets, EditInvalidates, linkVars
  <2> QED
    BY <1>1, <1>4, <2>1, <2>2 DEF clickVars, spoolVars
<1>11. ASSUME NEW e \in Editors, EditCommits(e) PROVE Goal
  <2>1. Enqueuers' = Enqueuers
    BY <1>11, SameEnqueuers DEF EditCommits, visitVars
  <2>2. UNCHANGED <<pending, served, bots, spooled, recounted>>
    BY <1>11 DEF EditCommits, clickVars, spoolVars
  <2>3. row'.count = row.count
    BY <1>11 DEF EditCommits, TypeOK, Snapshot
  <2> QED
    BY <1>1, <1>2, <1>3, <2>1, <2>2, <2>3 DEF Accounted
<1>12. ASSUME WriterStep PROVE Goal
  <2>1. Enqueuers' = Enqueuers
    BY <1>12, WriterFrame, SameEnqueuers DEF visitVars
  <2>2. UNCHANGED <<served, bots>>
    BY <1>12, WriterFrame
  <2>3. /\ row'.count + pending' + spooled' + recounted
             <= row.count + pending + spooled + recounted'
        /\ recounted <= recounted'
    BY <1>12, WriterDoes
  <2> QED
    BY <1>1, <1>2, <1>3, <2>1, <2>2, <2>3 DEF Accounted
<1>13. ASSUME Restart PROVE Goal
  <2>1. /\ UNCHANGED <<served, bots, recounted>> /\ pending' = 0
        /\ row'.count + spooled' <= row.count + pending + spooled
    BY <1>13, RestartDoes
  <2>2. Enqueuers' = {}
    BY <1>13 DEF Restart, Leaves, Enqueuers
  <2>3. Cardinality({}) = 0
    BY FS_EmptySet
  <2>4. Cardinality(Enqueuers)' = 0
    BY <2>2, <2>3
  <2> QED
    BY <1>1, <1>2, <1>3, <2>1, <2>4 DEF Accounted
<1> HIDE DEF Goal
<1>14. Goal
  BY <1>5, <1>6, <1>7, <1>8, <1>9, <1>10, <1>11, <1>12, <1>13 DEF Next, Consume
<1> QED
  BY <1>14 DEF Goal

LEMMA CountersHeld ==
  ASSUME Next, \A v \in Visitors : ~Seed(v), NEW v \in Visitors
  PROVE  ctr'[v] \in {0, ctr[v]} \/ ctr' = ctr
<1>1. ASSUME NEW S, Leaves(S) PROVE ctr'[v] \in {0, ctr[v]}
  BY <1>1 DEF Leaves
<1>2. ASSUME NEW w \in Visitors, Lookup(w) \/ Touch(w) \/ Add(w) PROVE ctr' = ctr
  BY <1>2 DEF Lookup, Touch, Add
<1>3. ASSUME NEW w \in Visitors, Check(w) \/ Undo(w) \/ EnqueueClick(w)
      PROVE  ctr'[v] \in {0, ctr[v]} \/ ctr' = ctr
  BY <1>1, <1>3 DEF Check, Undo, EnqueueClick
<1>4. ASSUME LoadReads \/ LoadReturns \/ WriterStep \/ EntryGoes \/ HourPasses
               \/ PruneSees \/ PruneDeletes
      PROVE  ctr' = ctr
  BY <1>4, WriterFrame DEF LoadReads, LoadReturns, EntryGoes, HourPasses, PruneSees,
              PruneDeletes, visitVars
<1>5. ASSUME NEW e \in Editors, EditCommits(e) \/ EditResets(e) \/ EditInvalidates(e)
      PROVE  ctr' = ctr
  BY <1>5 DEF EditCommits, EditResets, EditInvalidates, visitVars
<1>6. ASSUME Restart PROVE ctr'[v] \in {0, ctr[v]}
  BY <1>1, <1>6 DEF Restart
<1> QED
  BY <1>2, <1>3, <1>4, <1>5, <1>6 DEF Next, Consume

LEMMA FairInit == Init => CountersAreFair /\ RefusalsAreFair
<1> SUFFICES ASSUME Init PROVE CountersAreFair /\ RefusalsAreFair
  OBVIOUS
<1>1. \A i \in Counters : heap[i].n = 0 /\ Cardinality(Undoers(i)) \in Nat
  BY UndoersAre DEF Init
<1>2. served + bots + recounted = 0 /\ \A v \in Visitors : pc[v] = "idle"
  BY DEF Init
<1> QED
  BY <1>1, <1>2 DEF CountersAreFair, RefusalsAreFair

LEMMA CountersStayFair ==
  ASSUME TypeInv, SnapshotsInv, CountInv, Next
  PROVE  CountersAreFair'
<1> TypeOK
  BY DEF TypeInv
<1> SUFFICES ASSUME NEW i \in Counters, Reachable(i)'
             PROVE  heap'[i].n <= served' + bots' + recounted' + Cardinality(Undoers(i)')
  BY DEF CountersAreFair
<1>1. /\ served \in Nat /\ bots \in Nat /\ served' \in Nat /\ bots' \in Nat
      /\ recounted \in Nat /\ recounted' \in Nat
      /\ heap[i].n \in Nat /\ Cardinality(Undoers(i)) \in Nat /\ i # 0
      /\ ctr \in [Visitors -> Counters \cup {0}]
  <2>1. served' \in Nat /\ bots' \in Nat /\ recounted' \in Nat
    BY ClickTypes
  <2>2. heap[i] \in Counter /\ i # 0
    BY DEF TypeOK, Counters
  <2> QED
    BY <2>1, <2>2, UndoersAre DEF TypeOK, Counter
<1>2. served <= served' /\ bots <= bots' /\ recounted <= recounted'
  BY AccountedKept DEF CountInv
<1>3. Reachable(i) => heap[i].n <= served + bots + recounted + Cardinality(Undoers(i))
  BY DEF CountInv, CountersAreFair
<1>4. (i = current' \/ \E w \in Visitors : ctr'[w] = i)
  BY DEF Reachable
<1>5. ASSUME NEW v \in Visitors, Seed(v)
      PROVE  heap'[i].n <= served' + bots' + recounted' + Cardinality(Undoers(i)')
  <2>1. ctr' = [ctr EXCEPT ![v] = current'] /\ Undoers(i)' = Undoers(i) /\ pc[v] = "seed"
    BY <1>5, SeedDoes DEF Seed
  <2>2. i = current' \/ Reachable(i)
    BY <1>1, <1>4, <2>1 DEF Reachable
  <2>3. CASE UNCHANGED counterVars
    <3>1. Reachable(i) /\ heap'[i].n = heap[i].n
      BY <2>2, <2>3 DEF Reachable, counterVars
    <3> QED
      BY <1>1, <1>2, <1>3, <2>1, <3>1
  <2>4. CASE IF i = current' THEN heap'[i].n = snap[v].count /\ Undoers(i) = {}
                             ELSE heap'[i] = heap[i]
    <3>1. CASE i = current'
      <4>1. snap[v].count <= row.count
        BY <2>1 DEF SnapshotsInv, Genuine, Holds
      <4>2. /\ row.count + pending + spooled + Cardinality(Enqueuers) <= served + bots + recounted
            /\ row.count \in Nat /\ pending \in Nat /\ spooled \in Nat /\ snap[v].count \in Nat
            /\ Cardinality(Enqueuers) \in Nat
        BY EnqueuersAre DEF CountInv, Accounted, TypeOK, Snapshot
      <4>3. heap'[i].n = snap[v].count
        BY <2>4, <3>1
      <4>4. Cardinality(Undoers(i)') \in Nat
        BY <1>1, <2>1
      <4> QED
        BY <1>1, <1>2, <4>1, <4>2, <4>3, <4>4
    <3>2. CASE i # current'
      BY <1>1, <1>2, <1>3, <2>1, <2>2, <2>4, <3>2
    <3> QED
      BY <3>1, <3>2
  <2> QED
    BY <1>5, <2>3, <2>4, SeedDoes
<1>6. ASSUME NEW v \in Visitors, Add(v)
      PROVE  heap'[i].n <= served' + bots' + recounted' + Cardinality(Undoers(i)')
  <2>1. ctr' = ctr /\ current' = current /\ bots' = bots /\ recounted' = recounted
    BY <1>6 DEF Add, spoolVars
  <2>2. heap[i].n <= served + bots + recounted + Cardinality(Undoers(i))
    BY <1>3, <1>4, <2>1 DEF Reachable
  <2>3. heap'[i].n = heap[i].n + (IF i = ctr[v] THEN 1 ELSE 0)
    BY <1>6, AddDoes
  <2>4. CASE /\ served' = served
             /\ Cardinality(Undoers(i)') =
                  Cardinality(Undoers(i)) + (IF i = ctr[v] THEN 1 ELSE 0)
    BY <1>1, <2>1, <2>2, <2>3, <2>4
  <2>5. CASE served' = served + 1 /\ Undoers(i)' = Undoers(i)
    BY <1>1, <2>1, <2>2, <2>3, <2>5
  <2> QED
    BY <1>6, <2>4, <2>5, AddDoes
<1>7. ASSUME NEW v \in Visitors, Undo(v)
      PROVE  heap'[i].n <= served' + bots' + recounted' + Cardinality(Undoers(i)')
  <2>1. current' = current /\ \A w \in Visitors : ctr'[w] \in {0, ctr[w]}
    BY <1>7 DEF Undo, Leaves
  <2>2. heap[i].n <= served + bots + recounted + Cardinality(Undoers(i))
    BY <1>1, <1>3, <1>4, <2>1 DEF Reachable
  <2>3. /\ heap'[i].n = heap[i].n - (IF i = ctr[v] THEN 1 ELSE 0)
        /\ Cardinality(Undoers(i)') =
             Cardinality(Undoers(i)) - (IF i = ctr[v] THEN 1 ELSE 0)
    BY <1>7, UndoDoes
  <2> QED
    BY <1>1, <1>2, <2>2, <2>3
<1>8. ASSUME \A v \in Visitors : ~(Seed(v) \/ Add(v) \/ Undo(v))
      PROVE  heap'[i].n <= served' + bots' + recounted' + Cardinality(Undoers(i)')
  <2>1. heap'[i].n = heap[i].n /\ current' \in {0, current}
    BY <1>8, OthersDo
  <2>2. Reachable(i)
    <3>1. CASE i = current'
      BY <1>1, <2>1, <3>1 DEF Reachable
    <3>2. ASSUME NEW w \in Visitors, ctr'[w] = i PROVE Reachable(i)
      <4>1. ctr'[w] \in {0, ctr[w]} \/ ctr' = ctr
        BY <1>8, CountersHeld
      <4> QED
        BY <1>1, <3>2, <4>1 DEF Reachable
    <3> QED
      BY <1>4, <3>1, <3>2
  <2>3. CASE Undoers(i)' = Undoers(i)
    BY <1>1, <1>2, <1>3, <2>1, <2>2, <2>3
  <2>4. CASE Restart
    <3>1. current' = 0 /\ \A w \in Visitors : ctr'[w] = 0
      BY <2>4 DEF Restart, Leaves
    <3> QED
      BY <1>1, <1>4, <3>1
  <2> QED
    BY <1>8, <2>3, <2>4, OthersDo
<1> QED
  BY <1>5, <1>6, <1>7, <1>8

\* Whoever gives a click back was refused.
LEMMA UndoersRefused ==
  ASSUME TypeOK, Next, NEW v \in Visitors, pc'[v] = "undo"
  PROVE  pc[v] = "undo" \/ (Add(v) /\ ctr[v] = ctr'[v])
<1>1. ASSUME NEW w \in Visitors, Lookup(w) \/ Check(w) \/ Undo(w) \/ EnqueueClick(w)
      PROVE  pc[v] = "undo"
  BY <1>1 DEF Lookup, Check, Undo, EnqueueClick, Leaves, TypeOK
<1>2. ASSUME NEW w \in Visitors, Seed(w) \/ Touch(w) PROVE pc[v] = "undo"
  BY <1>2 DEF Seed, Touch, TypeOK
<1>3. ASSUME NEW w \in Visitors, Add(w)
      PROVE  pc[v] = "undo" \/ (Add(v) /\ ctr[v] = ctr'[v])
  BY <1>3 DEF Add, TypeOK
<1>4. ASSUME LoadReads \/ LoadReturns \/ WriterStep \/ EntryGoes \/ HourPasses
               \/ PruneSees \/ PruneDeletes \/ Restart
      PROVE  pc[v] = "undo"
  BY <1>4, WriterFrame DEF LoadReads, LoadReturns, EntryGoes, HourPasses, PruneSees,
              PruneDeletes, Restart, Leaves, visitVars
<1>5. ASSUME NEW e \in Editors, EditCommits(e) \/ EditResets(e) \/ EditInvalidates(e)
      PROVE  pc[v] = "undo"
  BY <1>5 DEF EditCommits, EditResets, EditInvalidates, visitVars
<1> QED
  BY <1>1, <1>2, <1>3, <1>4, <1>5 DEF Next, Consume

\* Whoever is refused by his counter, when nobody edited the link, sees a limit
\* that is used up; after an edit, those who are about to give a click back to
\* the same counter are in his way.
LEMMA RefusedByCounter ==
  ASSUME TypeInv, SnapshotsInv, CountInv, NEW v \in Visitors, pc[v] = "add",
         heap[ctr[v]].n + 1 > snap[v].limit
  PROVE  /\ used.edits = 0 => top <= served + bots + recounted
         /\ snap[v].limit <= served + bots + recounted + Cardinality(Undoers(ctr[v]))
<1> TypeOK
  BY DEF TypeInv
<1>1. ctr[v] \in Counters /\ Reachable(ctr[v])
  BY DEF TypeInv, VisitorsInv, TypeOK, Reachable
<1>2. heap[ctr[v]].n <= served + bots + recounted + Cardinality(Undoers(ctr[v]))
  BY <1>1 DEF CountInv, CountersAreFair
<1>3. /\ heap[ctr[v]].n \in Nat /\ snap[v].limit \in Nat /\ served \in Nat /\ bots \in Nat
      /\ recounted \in Nat /\ Cardinality(Undoers(ctr[v])) \in Nat
  BY <1>1, UndoersAre, LimitsAreNumbers DEF TypeOK, Counter
<1>4. snap[v].limit <= served + bots + recounted + Cardinality(Undoers(ctr[v]))
  BY <1>2, <1>3
<1>5. ASSUME used.edits = 0 PROVE top <= served + bots + recounted
  <2>1. snap[v].limit = top
    BY <1>5 DEF SnapshotsInv, Genuine, Holds
  <2>2. CASE Undoers(ctr[v]) = {}
    <3>1. Cardinality(Undoers(ctr[v])) = 0
      BY <2>2, FS_EmptySet
    <3> QED
      BY <1>3, <1>4, <2>1, <3>1
  <2>3. CASE Undoers(ctr[v]) # {}
    <3>1. \E w \in Visitors : pc[w] = "undo"
      BY <2>3 DEF Undoers
    <3> QED
      BY <1>5, <3>1 DEF CountInv, RefusalsAreFair
  <2> QED
    BY <2>2, <2>3
<1> QED
  BY <1>4, <1>5

LEMMA RefusalsStayFair ==
  ASSUME TypeInv, SnapshotsInv, CountInv, Next
  PROVE  RefusalsAreFair'
<1> TypeOK
  BY DEF TypeInv
<1>1. top <= served + bots + recounted => top <= served' + bots' + recounted'
  <2>1. \A t, a, b, c, d, e, f \in Nat :
          t <= a + b + e /\ a <= c /\ b <= d /\ e <= f => t <= c + d + f
    OBVIOUS
  <2>2. served \in Nat /\ bots \in Nat /\ recounted \in Nat /\ top \in Nat
    BY LimitsAssumption DEF TypeOK
  <2>3. served' \in Nat /\ bots' \in Nat /\ recounted' \in Nat
    BY ClickTypes
  <2>4. served <= served' /\ bots <= bots' /\ recounted <= recounted'
    BY AccountedKept DEF CountInv
  <2> QED
    BY <2>1, <2>2, <2>3, <2>4
<1>2. ASSUME used'.edits = 0, NEW v \in Visitors, pc'[v] = "undo"
      PROVE  top' <= served' + bots' + recounted'
  <2>1. used.edits = 0 /\ top' = top
    BY <1>2, LinkGrows
  <2>2. top <= served + bots + recounted
    <3>1. CASE pc[v] = "undo"
      BY <2>1, <3>1 DEF CountInv, RefusalsAreFair
    <3>2. CASE Add(v)
      <4>1. pc[v] = "add" /\ heap[ctr[v]].n + 1 > snap[v].limit
        BY <1>2, <3>2 DEF Add, TypeOK
      <4> QED
        BY <2>1, <4>1, RefusedByCounter
    <3> QED
      BY <1>2, <3>1, <3>2, UndoersRefused
  <2> QED
    BY <1>1, <2>1, <2>2
<1> QED
  BY <1>2 DEF RefusalsAreFair

LEMMA CountIdle == CountInv /\ UNCHANGED vars => CountInv'
<1> SUFFICES ASSUME CountInv, UNCHANGED vars PROVE CountInv'
  OBVIOUS
<1> USE DEF vars, linkVars, visitVars, counterVars, clickVars, spoolVars
<1>1. Enqueuers' = Enqueuers /\ \A i : Undoers(i)' = Undoers(i)
  BY DEF Enqueuers, Undoers
<1>2. \A i : Reachable(i)' <=> Reachable(i)
  BY DEF Reachable
<1> QED
  BY <1>1, <1>2 DEF CountInv, Accounted, CountersAreFair, RefusalsAreFair

\* Nobody is turned away while a click of the limit he was shown is left.
LEMMA NobodyIsTurnedAwayEarly ==
  ASSUME TypeInv, SnapshotsInv, CountInv, Next, NEW v \in Visitors, Refused(v)
  PROVE  served + bots + recounted + Intruders(v) >= snap[v].limit
<1> TypeOK
  BY DEF TypeInv
<1> DEFINE Others == {w \in Visitors \ {v} : pc[w] = "undo"}
<1>1. IsFiniteSet(Others) /\ Cardinality(Others) \in Nat
  <2>1. Others \subseteq Visitors
    OBVIOUS
  <2>2. IsFiniteSet(Others)
    BY <2>1, VisitorsAssumption, FS_Subset
  <2> QED
    BY <2>2, FS_CardinalityType
<1>2. Intruders(v) = IF used.edits = 0 THEN 0 ELSE Cardinality(Others)
  BY DEF Intruders
<1>3. served \in Nat /\ bots \in Nat /\ recounted \in Nat /\ snap[v].limit \in Nat /\ Intruders(v) \in Nat
  BY <1>1, <1>2, LimitsAreNumbers DEF TypeOK
<1>4. CASE pc[v] = "check" /\ TurnedAway(snap[v]) /\ snap[v].live
  <2>1. snap[v].count >= snap[v].limit /\ snap[v].count <= row.count
    BY <1>4 DEF TurnedAway, SnapshotsInv, Genuine, Holds
  <2>2. /\ row.count + pending + spooled + Cardinality(Enqueuers) <= served + bots + recounted
        /\ row.count \in Nat /\ pending \in Nat /\ spooled \in Nat /\ snap[v].count \in Nat
        /\ Cardinality(Enqueuers) \in Nat
    BY EnqueuersAre DEF CountInv, Accounted, TypeOK, Snapshot
  <2> QED
    BY <1>3, <2>1, <2>2
<1>5. CASE pc[v] = "add" /\ pc'[v] = "undo"
  <2>1. Add(v)
    BY <1>5, UndoersRefused
  <2>2. heap[ctr[v]].n + 1 > snap[v].limit
    BY <1>5, <2>1 DEF Add, TypeOK
  <2>3. /\ used.edits = 0 => top <= served + bots + recounted
        /\ snap[v].limit <= served + bots + recounted + Cardinality(Undoers(ctr[v]))
    BY <1>5, <2>2, RefusedByCounter
  <2>4. CASE used.edits = 0
    <3>1. snap[v].limit = top
      BY <1>5, <2>4 DEF SnapshotsInv, Genuine, Holds
    <3> QED
      BY <1>2, <1>3, <2>3, <2>4, <3>1
  <2>5. CASE used.edits # 0
    <3>1. Undoers(ctr[v]) \subseteq Others
      BY <1>5 DEF Undoers
    <3>2. Cardinality(Undoers(ctr[v])) <= Cardinality(Others)
      BY <1>1, <3>1, FS_Subset
    <3>3. Cardinality(Undoers(ctr[v])) \in Nat
      BY UndoersAre
    <3> QED
      BY <1>1, <1>2, <1>3, <2>3, <2>5, <3>2, <3>3
  <2> QED
    BY <2>4, <2>5
<1> QED
  BY <1>4, <1>5 DEF Refused

\* No visitor is refused a click that is left (ConsumeClick), but for what an
\* edit of the limit lets in the way, and what a repeated insert counts twice
\* (flush, replaySpool): an action property, from the invariants above.
THEOREM NobodyIsRefusedEarly == Spec => NoEarlyGone
<1> DEFINE Inv == TypeInv /\ SnapshotsInv /\ CountInv
           Fair == \A v \in Visitors :
                     Refused(v) => served + bots + recounted + Intruders(v) >= snap[v].limit
<1>1. Init => Inv
  BY TypesInit, SnapshotsInit, AccountedInit, FairInit DEF CountInv
<1>2. Inv /\ [Next]_vars => Inv'
  <2> SUFFICES ASSUME Inv, [Next]_vars PROVE Inv'
    OBVIOUS
  <2>1. TypeInv'
    BY TypesNext
  <2>2. CASE Next
    <3>1. SnapshotsInv'
      BY <2>2, SnapshotsKept
    <3>2. CountInv'
      BY <2>2, AccountedKept, CountersStayFair, RefusalsStayFair DEF CountInv
    <3> QED
      BY <2>1, <3>1, <3>2
  <2>3. CASE UNCHANGED vars
    BY <2>1, <2>3, SnapshotsIdle, CountIdle
  <2> QED
    BY <2>2, <2>3
<1>3. Inv /\ [Next]_vars => [Fair]_vars
  BY NobodyIsTurnedAwayEarly
<1> QED
  BY <1>1, <1>2, <1>3, PTL DEF Spec, NoEarlyGone

=============================================================================
