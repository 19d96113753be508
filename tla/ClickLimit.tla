----------------------------- MODULE ClickLimit -----------------------------
(***************************************************************************)
(* The click limit of one link: the live counter of ConsumeClick           *)
(* (internal/link/service.go), the checks of handleRedirect that come      *)
(* before it (internal/server/redirect.go), the snapshot of the row that   *)
(* the redirect cache hands out, the stored click_count that the batch     *)
(* writer raises later, and everything that throws the counter away: an    *)
(* edit, a deletion, the hourly pruning and the end of the process.        *)
(*                                                                         *)
(* A counter is an object: a request that fetched it from the map can      *)
(* still add to it when it is no longer in the map.  The other reasons to  *)
(* turn a visitor away (status, expiry, password) touch no counter and are *)
(* left out, as are the details of cache and writer, which LinkCache and   *)
(* ClickWriter model.                                                      *)
(***************************************************************************)
EXTENDS Integers, FiniteSets

CONSTANTS
  Visitors,    \* redirect requests handled at the same time
  Editors,     \* API handlers that change the link at the same time
  Limits,      \* the values an owner gives max_clicks
  CountBots,   \* does the writer count bots in click_count?
  LoseClicks,  \* may a click be dropped or spooled instead of flushed?
  MaxRecounts, \* bound: inserts that will be repeated
  MaxVisits,   \* bound: requests
  MaxEdits,    \* bound: edits
  MaxPrunes,   \* bound: runs of PruneHits that find the counter idle
  MaxRestarts  \* bound: restarts

ASSUME LimitsAssumption ==
  /\ Limits \subseteq Nat \ {0}
  /\ Limits # {}

ASSUME VisitorsAssumption == IsFiniteSet(Visitors)

ASSUME SettingsAssumption == CountBots \in BOOLEAN /\ LoseClicks \in BOOLEAN

ASSUME LimitBoundsAssumption ==
  /\ MaxVisits \in Nat /\ MaxEdits \in Nat /\ MaxPrunes \in Nat
  /\ MaxRestarts \in Nat /\ MaxRecounts \in Nat

VARIABLES
  row,      \* the stored link: is it live, click_count, max_clicks
  cached,   \* the cache entry: no or one snapshot of the row
  flight,   \* the load in progress: none, its query, or the snapshot it got
  pc,       \* where each request is
  kind,     \* what it is: a human's GET, a bot's GET or a HEAD
  snap,     \* the snapshot of the row it works with
  ctr,      \* the counter it fetched
  heap,     \* the counter objects
  made,     \* how many of them were made so far
  current,  \* the one in s.hits; 0 for none
  pending,  \* counted clicks accepted by the writer and not yet flushed
  spooled,  \* counted clicks in the writer's spool files
  replay,   \* those of them whose files this start has not been through
  served,   \* ghost: humans redirected
  bots,     \* ghost: bots' clicks that count
  recounted, \* ghost: clicks added to click_count that stay pending or in a
             \* file, to be added again
  top,      \* ghost: the highest limit the link ever had
  raced,    \* ghost: a counter was thrown away that the row did not cover
  epc,      \* where each editor is
  pruning,  \* PruneHits has found the counter idle and is about to delete it
  used      \* how much of each bound is used

linkVars    == <<row, top>>
cacheVars   == <<cached, flight>>
visitVars   == <<pc, kind, snap, ctr>>
counterVars == <<heap, made, current>>
spoolVars   == <<spooled, replay, recounted>>
clickVars   == <<pending, served, bots, spoolVars>>
resetVars   == <<raced, epc, pruning>>
vars == <<linkVars, cacheVars, visitVars, counterVars, clickVars, resetVars, used>>

-----------------------------------------------------------------------------
Snapshot == [live : BOOLEAN, count : Nat, limit : Limits]
Counter  == [n : Nat, recent : BOOLEAN]

\* A counter is made when there is none, so one more than are thrown away.
Counters == 1 .. (MaxEdits + MaxPrunes + MaxRestarts + 1)

TypeOK ==
  /\ row \in Snapshot /\ top \in Limits
  /\ cached \in SUBSET Snapshot /\ Cardinality(cached) <= 1
  /\ flight \in [phase : {"none", "query", "got"}, value : Snapshot]
  /\ pc \in [Visitors -> {"idle", "wait", "check", "seed", "touch", "add",
                          "undo", "enqueue"}]
  /\ kind \in [Visitors -> {"human", "bot", "head"}]
  /\ snap \in [Visitors -> Snapshot]
  /\ heap \in [Counters -> Counter]
  /\ made \in Counters \cup {0}
  /\ current \in Counters \cup {0}
  /\ ctr \in [Visitors -> Counters \cup {0}]
  /\ pending \in Nat /\ served \in Nat /\ bots \in Nat
  /\ spooled \in Nat /\ replay \in 0..spooled /\ recounted \in Nat
  /\ raced \in BOOLEAN /\ pruning \in BOOLEAN
  /\ epc \in [Editors -> {"idle", "reset", "invalidate"}]
  /\ used \in [visits : 0..MaxVisits, edits : 0..MaxEdits,
               prunes : 0..MaxPrunes, restarts : 0..MaxRestarts,
               recounts : 0..MaxRecounts]

NoSnap   == [live |-> FALSE, count |-> 0, limit |-> CHOOSE l \in Limits : TRUE]
NoFlight == [phase |-> "none", value |-> NoSnap]

Init ==
  /\ \E l \in Limits : row = [live |-> TRUE, count |-> 0, limit |-> l]
  /\ top = row.limit
  /\ cached = {} /\ flight = NoFlight
  /\ pc = [v \in Visitors |-> "idle"]
  /\ kind = [v \in Visitors |-> "human"]
  /\ snap = [v \in Visitors |-> NoSnap]
  /\ ctr = [v \in Visitors |-> 0]
  /\ heap = [i \in Counters |-> [n |-> 0, recent |-> FALSE]]
  /\ made = 0 /\ current = 0
  /\ pending = 0 /\ served = 0 /\ bots = 0
  /\ spooled = 0 /\ replay = 0 /\ recounted = 0
  /\ raced = FALSE /\ pruning = FALSE
  /\ epc = [e \in Editors |-> "idle"]
  /\ used = [visits |-> 0, edits |-> 0, prunes |-> 0, restarts |-> 0,
             recounts |-> 0]

-----------------------------------------------------------------------------
(* A redirect request.                                                     *)

\* The handler returns, and with it go its local variables.
Leaves(S) ==
  /\ pc' = [v \in Visitors |-> IF v \in S THEN "idle" ELSE pc[v]]
  /\ kind' = [v \in Visitors |-> IF v \in S THEN "human" ELSE kind[v]]
  /\ snap' = [v \in Visitors |-> IF v \in S THEN NoSnap ELSE snap[v]]
  /\ ctr' = [v \in Visitors |-> IF v \in S THEN 0 ELSE ctr[v]]

\* A request arrives; ResolveForRedirect finds the link in the cache, or
\* starts or joins a load.
Lookup(v) ==
  \E k \in {"human", "bot", "head"} :
    /\ pc[v] = "idle"
    /\ used.visits < MaxVisits
    /\ used' = [used EXCEPT !.visits = @ + 1]
    /\ kind' = [kind EXCEPT ![v] = k]
    /\ \/ \E s \in cached : /\ snap' = [snap EXCEPT ![v] = s]
                            /\ pc' = [pc EXCEPT ![v] = "check"]
                            /\ UNCHANGED flight
       \/ /\ cached = {}
          /\ pc' = [pc EXCEPT ![v] = "wait"]
          /\ flight' = IF flight.phase = "none"
                       THEN [flight EXCEPT !.phase = "query"] ELSE flight
          /\ UNCHANGED snap
    /\ UNCHANGED <<linkVars, cached, ctr, counterVars, clickVars, resetVars>>

\* The load reads the row ...
LoadReads ==
  /\ flight.phase = "query"
  /\ flight' = [phase |-> "got", value |-> row]
  /\ UNCHANGED <<linkVars, cached, visitVars, counterVars, clickVars, resetVars,
                 used>>

\* ... stores the snapshot and hands it to everyone who waits.
LoadReturns ==
  /\ flight.phase = "got"
  /\ cached' = {flight.value}
  /\ flight' = NoFlight
  /\ pc' = [v \in Visitors |-> IF pc[v] = "wait" THEN "check" ELSE pc[v]]
  /\ snap' = [v \in Visitors |-> IF pc[v] = "wait" THEN flight.value ELSE snap[v]]
  /\ UNCHANGED <<linkVars, kind, ctr, counterVars, clickVars, resetVars, used>>

\* The visitor is told that the link is gone.
TurnedAway(s) == ~s.live \/ s.count >= s.limit

\* The checks on the snapshot; only a human's GET consumes a click.
Check(v) ==
  /\ pc[v] = "check"
  /\ IF TurnedAway(snap[v]) \/ kind[v] = "head"
     THEN Leaves({v})
     ELSE /\ pc' = [pc EXCEPT ![v] = IF kind[v] = "bot" THEN "enqueue" ELSE "seed"]
          /\ UNCHANGED <<kind, snap, ctr>>
  /\ UNCHANGED <<linkVars, cacheVars, counterVars, clickVars, resetVars, used>>

\* A new counter starts from zero.
Seed_FromZero(v) ==
  /\ pc[v] = "seed"
  /\ pc' = [pc EXCEPT ![v] = "touch"]
  /\ IF current # 0
     THEN UNCHANGED counterVars
     ELSE /\ made + 1 \in Counters
          /\ made' = made + 1
          /\ current' = made + 1
          /\ heap' = [heap EXCEPT ![made + 1] = [n |-> 0, recent |-> FALSE]]
  /\ ctr' = [ctr EXCEPT ![v] = current']
  /\ UNCHANGED <<linkVars, cacheVars, kind, snap, clickVars, resetVars, used>>

\* hits.LoadOrStore: the link's counter, or a new one that starts from the
\* click count of the snapshot; its time of last use is still zero.
Seed(v) ==
  /\ pc[v] = "seed"
  /\ pc' = [pc EXCEPT ![v] = "touch"]
  /\ IF current # 0
     THEN UNCHANGED counterVars
     ELSE /\ made + 1 \in Counters
          /\ made' = made + 1
          /\ current' = made + 1
          /\ heap' = [heap EXCEPT ![made + 1] = [n |-> snap[v].count,
                                                recent |-> FALSE]]
  /\ ctr' = [ctr EXCEPT ![v] = current']
  /\ UNCHANGED <<linkVars, cacheVars, kind, snap, clickVars, resetVars, used>>

\* last.Store(now).
Touch(v) ==
  /\ pc[v] = "touch"
  /\ pc' = [pc EXCEPT ![v] = "add"]
  /\ heap' = [heap EXCEPT ![ctr[v]].recent = TRUE]
  /\ UNCHANGED <<linkVars, cacheVars, kind, snap, ctr, made, current, clickVars,
                 resetVars, used>>

\* The last click of the limit is refused.
Add_OffByOne(v) ==
  LET n == heap[ctr[v]].n + 1 IN
  /\ pc[v] = "add"
  /\ heap' = [heap EXCEPT ![ctr[v]].n = n]
  /\ IF n >= snap[v].limit
     THEN /\ pc' = [pc EXCEPT ![v] = "undo"]
          /\ UNCHANGED served
     ELSE /\ pc' = [pc EXCEPT ![v] = "enqueue"]
          /\ served' = served + 1
  /\ UNCHANGED <<linkVars, cacheVars, kind, snap, ctr, made, current, pending,
                 bots, spoolVars, resetVars, used>>

\* n.Add(1), compared with the limit of the snapshot: the visitor is
\* redirected, or has to give the click back.
Add(v) ==
  LET n == heap[ctr[v]].n + 1 IN
  /\ pc[v] = "add"
  /\ heap' = [heap EXCEPT ![ctr[v]].n = n]
  /\ IF n > snap[v].limit
     THEN /\ pc' = [pc EXCEPT ![v] = "undo"]
          /\ UNCHANGED served
     ELSE /\ pc' = [pc EXCEPT ![v] = "enqueue"]
          /\ served' = served + 1
  /\ UNCHANGED <<linkVars, cacheVars, kind, snap, ctr, made, current, pending,
                 bots, spoolVars, resetVars, used>>

\* n.Add(-1); the visitor is told that the link is gone.
Undo(v) ==
  /\ pc[v] = "undo"
  /\ heap' = [heap EXCEPT ![ctr[v]].n = @ - 1]
  /\ Leaves({v})
  /\ UNCHANGED <<linkVars, cacheVars, made, current, clickVars, resetVars, used>>

\* enqueueClick after the redirect; a full queue drops the click.
EnqueueClick(v) ==
  /\ pc[v] = "enqueue"
  /\ Leaves({v})
  /\ IF kind[v] = "bot" /\ ~CountBots
     THEN UNCHANGED <<pending, bots>>
     ELSE /\ \/ pending' = pending + 1
             \/ LoseClicks /\ UNCHANGED pending
          /\ bots' = IF kind[v] = "bot" THEN bots + 1 ELSE bots
  /\ UNCHANGED <<linkVars, cacheVars, counterVars, served, spoolVars, resetVars,
                 used>>

-----------------------------------------------------------------------------
(* The batch writer, the cache and time.                                   *)

Raised(k) == row' = [row EXCEPT !.count = @ + k]

\* InsertClicksBatch raises click_count by the clicks of a batch.
Flush ==
  \E k \in 1..pending :
    /\ pending' = pending - k
    /\ Raised(k)
    /\ UNCHANGED <<top, cacheVars, visitVars, counterVars, served, bots,
                   spoolVars, resetVars, used>>

\* COMMIT takes effect and reports an error: the batch is still there, to be
\* inserted once more or spooled.
FlushRepeats ==
  \E k \in 1..pending :
    /\ used.recounts < MaxRecounts
    /\ used' = [used EXCEPT !.recounts = @ + 1]
    /\ Raised(k)
    /\ recounted' = recounted + k
    /\ UNCHANGED <<top, cacheVars, visitVars, counterVars, pending, served, bots,
                   spooled, replay, resetVars>>

\* A click is dropped by the writer, or spooled until some later start.
LoseClick ==
  /\ LoseClicks
  /\ pending > 0
  /\ pending' = pending - 1
  /\ spooled' \in {spooled, spooled + 1}
  /\ UNCHANGED <<linkVars, cacheVars, visitVars, counterVars, served, bots,
                 replay, recounted, resetVars, used>>

\* replaySpool inserts the clicks of a file and removes it.
Replay ==
  \E k \in 1..replay :
    /\ replay' = replay - k /\ spooled' = spooled - k
    /\ Raised(k)
    /\ UNCHANGED <<top, cacheVars, visitVars, counterVars, pending, served, bots,
                   recounted, resetVars, used>>

\* The clicks are inserted and their file stays for the next start: COMMIT
\* reports an error, or the removal fails.
ReplayRepeats ==
  \E k \in 1..replay :
    /\ used.recounts < MaxRecounts
    /\ used' = [used EXCEPT !.recounts = @ + 1]
    /\ replay' = replay - k
    /\ Raised(k)
    /\ recounted' = recounted + k
    /\ UNCHANGED <<top, cacheVars, visitVars, counterVars, pending, served, bots,
                   spooled, resetVars>>

\* The clicks are not inserted: their file stays, or they could not be read.
ReplayFails ==
  \E k \in 1..replay :
    /\ replay' = replay - k
    /\ spooled' \in {spooled, spooled - k}
    /\ UNCHANGED <<linkVars, cacheVars, visitVars, counterVars, pending, served,
                   bots, recounted, resetVars, used>>

\* The cache entry expires or is evicted.
EntryGoes ==
  /\ cached # {}
  /\ cached' = {}
  /\ UNCHANGED <<linkVars, flight, visitVars, counterVars, clickVars, resetVars,
                 used>>

\* An hour without a redirect: longer than a request, a load, the life of a
\* cache entry, the writer's retries and its replay.
HourPasses ==
  /\ current # 0
  /\ \A v \in Visitors : pc[v] = "idle"
  /\ cached = {} /\ flight.phase = "none" /\ pending = 0 /\ replay = 0
  /\ heap' = [heap EXCEPT ![current].recent = FALSE]
  /\ UNCHANGED <<linkVars, cacheVars, visitVars, made, current, clickVars,
                 resetVars, used>>

-----------------------------------------------------------------------------
(* What throws the counter away.                                           *)

Behind(s) == s.count < served

\* A redirect can still be decided by a count that misses clicks already
\* served: the row's, a snapshot's, or that of a counter no longer shared.
Uncovered ==
  \/ Behind(row)
  \/ \E s \in cached : Behind(s)
  \/ flight.phase = "got" /\ Behind(flight.value)
  \/ \E v \in Visitors :
       /\ kind[v] = "human"
       /\ \/ pc[v] \in {"check", "seed"} /\ Behind(snap[v])
          \/ pc[v] \in {"touch", "add"}

\* hits.Delete(id).
DeleteCounter ==
  /\ current' = 0
  /\ raced' = (raced \/ (current # 0 /\ Uncovered))
  /\ UNCHANGED <<heap, made>>

\* Update, Delete or Restore: the row first.  Only Update changes the limit.
EditCommits(e) ==
  /\ epc[e] = "idle"
  /\ used.edits < MaxEdits
  /\ used' = [used EXCEPT !.edits = @ + 1]
  /\ \/ /\ \E l \in Limits :
             /\ row' = [row EXCEPT !.limit = l]
             /\ top' = IF l > top THEN l ELSE top
          /\ epc' = [epc EXCEPT ![e] = "reset"]
     \/ /\ row' = [row EXCEPT !.live = FALSE]
        /\ epc' = [epc EXCEPT ![e] = "reset"]
        /\ UNCHANGED top
     \/ /\ ~row.live
        /\ row' = [row EXCEPT !.live = TRUE]
        /\ epc' = [epc EXCEPT ![e] = "invalidate"]
        /\ UNCHANGED top
  /\ UNCHANGED <<cacheVars, visitVars, counterVars, clickVars, raced, pruning>>

\* Then the counter, except for Restore.
EditResets(e) ==
  /\ epc[e] = "reset"
  /\ epc' = [epc EXCEPT ![e] = "invalidate"]
  /\ DeleteCounter
  /\ UNCHANGED <<linkVars, cacheVars, visitVars, clickVars, pruning, used>>

\* Then the cache entry.
EditInvalidates(e) ==
  /\ epc[e] = "invalidate"
  /\ epc' = [epc EXCEPT ![e] = "idle"]
  /\ cached' = {}
  /\ UNCHANGED <<linkVars, flight, visitVars, counterVars, clickVars, raced,
                 pruning, used>>

\* PruneHits reads that the counter was not used for an hour ...
PruneSees ==
  /\ ~pruning
  /\ used.prunes < MaxPrunes
  /\ used' = [used EXCEPT !.prunes = @ + 1]
  /\ current # 0
  /\ ~heap[current].recent
  /\ pruning' = TRUE
  /\ UNCHANGED <<linkVars, cacheVars, visitVars, counterVars, clickVars, raced, epc>>

\* ... and deletes whatever counter the link has then.
PruneDeletes ==
  /\ pruning
  /\ pruning' = FALSE
  /\ DeleteCounter
  /\ UNCHANGED <<linkVars, cacheVars, visitVars, clickVars, epc, used>>

\* The process ends and starts again: of what is pending the writer flushes or
\* spools what it can, the rest goes with memory.  If the end comes between a
\* replay's commit and the removal of the file, that file is ReplayRepeats'.
Restart ==
  /\ used.restarts < MaxRestarts
  /\ used' = [used EXCEPT !.restarts = @ + 1]
  /\ \E k \in 0..pending : \E s \in 0..(pending - k) :
       Raised(k) /\ spooled' = spooled + s
  /\ pending' = 0 /\ replay' = spooled'
  /\ cached' = {} /\ flight' = NoFlight
  /\ Leaves(Visitors)
  /\ epc' = [e \in Editors |-> "idle"]
  /\ current' = 0 /\ pruning' = FALSE
  /\ raced' = (raced \/ row'.count < served)
  /\ UNCHANGED <<top, heap, made, served, bots, recounted>>

-----------------------------------------------------------------------------
Consume(v) == Seed(v) \/ Touch(v) \/ Add(v) \/ Undo(v)

WriterStep ==
  Flush \/ FlushRepeats \/ LoseClick \/ Replay \/ ReplayRepeats \/ ReplayFails

Next ==
  \/ \E v \in Visitors : Lookup(v) \/ Check(v) \/ Consume(v) \/ EnqueueClick(v)
  \/ LoadReads \/ LoadReturns
  \/ WriterStep
  \/ EntryGoes \/ HourPasses
  \/ \E e \in Editors : EditCommits(e) \/ EditResets(e) \/ EditInvalidates(e)
  \/ PruneSees \/ PruneDeletes
  \/ Restart

Spec == Init /\ [][Next]_vars

-----------------------------------------------------------------------------
(* Properties.                                                             *)

\* No more humans are redirected than the highest limit the link ever had,
\* unless the counter was thrown away while clicks it had counted were
\* missing from the row or from a snapshot still in use (ConsumeClick).  It
\* rests on every request adding to the one counter in s.hits, and on a new
\* counter starting from a count that covers what was served.
LimitHoldsUnlessRaced == ~raced => served <= top

\* What the comment of ConsumeClick says ("the limit holds even before the
\* batch writer has flushed the click to the database").
LimitHolds == served <= top

\* The step turns the visitor away because of the limit.
Refused(v) ==
  \/ pc[v] = "add" /\ pc'[v] = "undo"
  \/ /\ pc[v] = "check" /\ pc'[v] = "idle"
     /\ snap[v].live /\ TurnedAway(snap[v])

\* While limits change, refused visitors who have not yet given back the click
\* they took can get in the way of each other.
Intruders(v) ==
  IF used.edits = 0 THEN 0
  ELSE Cardinality({w \in Visitors \ {v} : pc[w] = "undo"})

\* No visitor is refused a click that is left: the clicks of the humans served
\* and of the bots counted have reached the limit he was shown, although
\* counters are thrown away and made anew and refused visitors count for a
\* moment (ConsumeClick).  There are two exceptions.  After an edit that raised
\* the limit, those refused under the old one may count too.  And click_count
\* has a click once more for each insert that was repeated: after a COMMIT
\* that took effect and reported an error (flush), or because a replayed file
\* was not removed (replaySpool).
NoEarlyGone ==
  [][\A v \in Visitors :
       Refused(v) => served + bots + recounted + Intruders(v) >= snap[v].limit]_vars

=============================================================================
