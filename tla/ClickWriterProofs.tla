------------------------- MODULE ClickWriterProofs -------------------------
(***************************************************************************)
(* Proofs about ClickWriter for every set of clicks, every queue and batch *)
(* size and any number of restarts: whatever fails, no click is lost       *)
(* silently and its rows stay bounded, and without lying COMMITs and disk  *)
(* faults the pipeline implements ClickLedger.                             *)
(***************************************************************************)
EXTENDS ClickWriter, FiniteSetTheorems, TLAPS

\* The record that stands for "no file" is a file.
LEMMA NoFileType == NoFile \in File
BY DEF NoFile, File

\* Inserting clicks adds rows for them and takes none away.
LEMMA InsertedRows ==
  ASSUME NEW S \in SUBSET Clicks, rows \in [Clicks -> Nat]
  PROVE  /\ Inserted(S) \in [Clicks -> Nat]
         /\ \A c \in Clicks : Inserted(S)[c] > 0 <=> c \in S \/ rows[c] > 0
BY DEF Inserted

\* An empty channel is within its capacity.
LEMMA NoneInQueue == Cardinality({}) <= QueueSize
<1>1. Cardinality({}) = 0
  BY FS_EmptySet
<1> QED
  BY <1>1, SizesAssumption

\* The channel's size is a number, and changes by one with a send or receive.
LEMMA QueueCardinality ==
  ASSUME NEW Q \in SUBSET Clicks, NEW c
  PROVE  /\ Cardinality(Q) \in Nat
         /\ Cardinality(Q \cup {c}) <= Cardinality(Q) + 1
         /\ Cardinality(Q \ {c}) <= Cardinality(Q)
<1>1. IsFiniteSet(Q)
  BY SizesAssumption, FS_Subset
<1>2. Cardinality(Q) \in Nat
  BY <1>1, FS_CardinalityType
<1>3. Cardinality(Q \cup {c}) <= Cardinality(Q) + 1
  <2>1. Cardinality(Q \cup {c}) =
          IF c \in Q THEN Cardinality(Q) ELSE Cardinality(Q) + 1
    BY <1>1, FS_AddElement
  <2> QED
    BY <1>2, <2>1
<1>4. Cardinality(Q \ {c}) <= Cardinality(Q)
  <2>1. Cardinality(Q \ {c}) =
          IF c \in Q THEN Cardinality(Q) - 1 ELSE Cardinality(Q)
    BY <1>1, FS_RemoveElement
  <2> QED
    BY <1>2, <2>1
<1> QED
  BY <1>2, <1>3, <1>4

-----------------------------------------------------------------------------
(* Type correctness.                                                       *)

\* The initial state is of its types.
LEMMA TypeInit == Init => TypeOK
<1>1. Cardinality({}) <= QueueSize
  BY NoneInQueue
<1> SUFFICES ASSUME Init PROVE TypeOK
  OBVIOUS
<1>2. queue = {}
  BY DEF Init
<1>3. Cardinality(queue) <= QueueSize
  BY <1>1, <1>2
<1>4. fate \in [Clicks -> Fates] /\ rows \in [Clicks -> Nat]
  BY DEF Init, Fates
<1>5. file \in File
  BY NoFileType DEF Init
<1>6. starts \in 1..MaxStarts /\ attempt \in 0..LastAttempt
  BY SizesAssumption DEF Init, LastAttempt
<1> QED
  BY <1>2, <1>3, <1>4, <1>5, <1>6 DEF Init, TypeOK, WriterSteps

\* So is the state after a step of a redirect handler.
LEMMA TypeHandlers ==
  ASSUME TypeOK, NEW c \in Clicks, Arrive(c) \/ Enqueue(c)
  PROVE  TypeOK'
<1>1. CASE Arrive(c)
  BY <1>1 DEF Arrive, TypeOK, Fates, mainVars, writerVars
<1>2. CASE Enqueue(c)
  <2>1. CASE Accepted(c)
    <3>1. /\ queue \in SUBSET Clicks
          /\ queue' = queue \cup {c}
          /\ Cardinality(queue) < QueueSize
      BY <2>1 DEF Accepted, TypeOK
    <3>2. Cardinality(queue') <= QueueSize
      <4>1. /\ Cardinality(queue) \in Nat
            /\ Cardinality(queue \cup {c}) <= Cardinality(queue) + 1
        BY <3>1, QueueCardinality
      <4>2. Cardinality(queue \cup {c}) \in Nat
        BY <3>1, QueueCardinality
      <4> QED
        BY <3>1, <4>1, <4>2, SizesAssumption
    <3> QED
      BY <1>2, <2>1, <3>2
         DEF Accepted, Becomes, Enqueue, TypeOK, Fates, mainVars, writerVars
  <2>2. CASE Refused(c) \/ Panics(c)
    BY <1>2, <2>2
       DEF Refused, Panics, Becomes, Enqueue, TypeOK, Fates, mainVars, writerVars
  <2> QED
    BY <1>2, <2>1, <2>2 DEF Enqueue
<1> QED
  BY <1>1, <1>2

\* So is the state after a step of the replay.
LEMMA TypeReplay ==
  ASSUME TypeOK, ReplayStep
  PROVE  TypeOK'
<1> USE DEF TypeOK, WriterSteps, mainVars
<1>1. CASE ListSpool
  BY <1>1 DEF ListSpool
<1>2. CASE ReplayCommits
  BY <1>2, InsertedRows DEF ReplayCommits, File
<1>3. CASE ReplayFails
  BY <1>3, InsertedRows, NoFileType DEF ReplayFails, File
<1>4. CASE RemoveFile
  <2>1. unread' \in SUBSET Clicks
    BY <1>4 DEF RemoveFile, File
  <2> QED
    BY <1>4, <2>1, NoFileType DEF RemoveFile
<1>5. CASE ReplayEnds
  BY <1>5 DEF ReplayEnds
<1>6. ASSUME NEW f \in todo, OpenFile(f) PROVE TypeOK'
  <2>1. f \in File /\ f.readable \subseteq Clicks
    BY DEF File
  <2>2. decoded' \in SUBSET Clicks
    BY <1>6, <2>1 DEF OpenFile
  <2> QED
    BY <1>6, <2>1, <2>2 DEF OpenFile
<1>7. ASSUME NEW f \in todo, OpenFails(f) PROVE TypeOK'
  BY <1>7 DEF OpenFails
<1> QED
  BY <1>1, <1>2, <1>3, <1>4, <1>5, <1>6, <1>7 DEF ReplayStep

\* So is the state after a step of Run's loop.
LEMMA TypeLoop ==
  ASSUME TypeOK, LoopStep
  PROVE  TypeOK'
<1> USE DEF TypeOK, WriterSteps, mainVars
<1>1. CASE Tick \/ SeesCancel \/ LastFlush
  BY <1>1 DEF Tick, SeesCancel, LastFlush
<1>2. ASSUME NEW c \in Clicks, Receive(c) PROVE TypeOK'
  <2>1. queue' \in SUBSET Clicks /\ Cardinality(queue') <= QueueSize
    <3>1. queue \in SUBSET Clicks /\ queue' = queue \ {c}
      BY <1>2 DEF Receive
    <3>2. /\ Cardinality(queue) \in Nat
          /\ Cardinality(queue \ {c}) <= Cardinality(queue)
      BY <3>1, QueueCardinality
    <3>3. Cardinality(queue \ {c}) \in Nat
      BY <3>1, QueueCardinality
    <3> QED
      BY <3>1, <3>2, <3>3, SizesAssumption
  <2> QED
    BY <1>2, <2>1 DEF Receive, Enriched
<1> QED
  BY <1>1, <1>2 DEF LoopStep

\* So is the state after a step of flush and spool.
LEMMA TypeFlush ==
  ASSUME TypeOK, FlushStep
  PROVE  TypeOK'
<1> USE DEF TypeOK, WriterSteps, mainVars, LastAttempt
<1>1. CASE InsertCommits
  BY <1>1, InsertedRows, NoFileType DEF InsertCommits, Flushed
<1>2. CASE InsertFails
  BY <1>2, InsertedRows DEF InsertFails
<1>3. CASE CreateFile
  BY <1>3 DEF CreateFile, File, NoFile
<1>4. CASE CreateFails \/ CloseFile
  BY <1>4, NoFileType DEF CreateFails, CloseFile, Flushed
<1>5. ASSUME NEW c \in Clicks, WriteRecord(c) PROVE TypeOK'
  <2>1. file' \in File
    <3>1. [file EXCEPT !.readable = @ \cup {c}] \in File
      BY DEF File
    <3>2. [file EXCEPT !.broken = TRUE] \in File
      BY DEF File
    <3>3. file' \in {file, [file EXCEPT !.readable = @ \cup {c}], [file EXCEPT !.broken = TRUE]}
      BY <1>5 DEF WriteRecord
    <3> QED
      BY <3>1, <3>2, <3>3
  <2>2. spool' \in SUBSET File
    BY <1>5, <2>1 DEF WriteRecord
  <2>3. batch' \in SUBSET Clicks /\ torn' \in SUBSET Clicks
    BY <1>5 DEF WriteRecord
  <2>4. UNCHANGED <<fate, queue, dropped, mainVars, pc, attempt, stopping, todo, rows,
                    decoded, unread>>
    BY <1>5 DEF WriteRecord
  <2>5. UNCHANGED <<main, closed, cancelled, expired, starts, lost>>
    BY <2>4 DEF mainVars
  <2> QED
    BY <2>1, <2>2, <2>3, <2>4, <2>5
<1> QED
  BY <1>1, <1>2, <1>3, <1>4, <1>5 DEF FlushStep

\* So is the state after a step of main.
LEMMA TypeMain ==
  ASSUME TypeOK, MainStep
  PROVE  TypeOK'
<1> USE DEF TypeOK, WriterSteps, writerVars, LastAttempt
<1>1. CASE BeginShutdown \/ CloseWriter \/ ShutdownTimeout \/ Return
  <2>1. /\ main' \in {"up", "draining", "closing", "returning", "exited"}
        /\ closed' \in BOOLEAN /\ cancelled' \in BOOLEAN /\ expired' \in BOOLEAN
    BY <1>1 DEF BeginShutdown, CloseWriter, ShutdownTimeout, Return
  <2>2. UNCHANGED <<fate, queue, dropped, batch, pc, attempt, stopping, spool, todo, file,
                    decoded, rows, torn, unread, starts, lost>>
    BY <1>1 DEF BeginShutdown, CloseWriter, ShutdownTimeout, Return
  <2> QED
    BY <2>1, <2>2
<1>2. CASE ProcessEnds
  <2>1. queue' = {} /\ Cardinality({}) <= QueueSize
    BY <1>2, NoneInQueue DEF ProcessEnds
  <2>2. Cardinality(queue') <= QueueSize
    BY <2>1
  <2>3. fate' \in [Clicks -> Fates]
    BY <1>2 DEF ProcessEnds, Fates
  <2>4. file' \in File
    BY <1>2, NoFileType DEF ProcessEnds
  <2>5. /\ queue' \in SUBSET Clicks /\ batch' \in SUBSET Clicks
        /\ lost' \in SUBSET Clicks /\ dropped' \in SUBSET Clicks
        /\ torn' \in SUBSET Clicks /\ unread' \in SUBSET Clicks
        /\ decoded' \in SUBSET Clicks
        /\ spool' \in SUBSET File /\ todo' \in SUBSET File
    BY <1>2 DEF ProcessEnds
  <2>6. /\ rows' \in [Clicks -> Nat] /\ starts' \in 1..MaxStarts
        /\ pc' \in WriterSteps /\ attempt' \in 0..LastAttempt
        /\ main' \in {"up", "draining", "closing", "returning", "exited"}
    BY <1>2 DEF ProcessEnds
  <2>7. /\ stopping' \in BOOLEAN /\ closed' \in BOOLEAN
        /\ cancelled' \in BOOLEAN /\ expired' \in BOOLEAN
    BY <1>2 DEF ProcessEnds
  <2> QED
    BY <2>2, <2>3, <2>4, <2>5, <2>6, <2>7
<1>3. CASE StartProcess
  BY <1>3, SizesAssumption DEF StartProcess
<1> QED
  BY <1>1, <1>2, <1>3 DEF MainStep

\* Every step keeps the types.
LEMMA TypeNext == TypeOK /\ [Next]_vars => TypeOK'
<1> SUFFICES ASSUME TypeOK, [Next]_vars PROVE TypeOK'
  OBVIOUS
<1>1. CASE UNCHANGED vars
  BY <1>1 DEF TypeOK, vars, writerVars, mainVars
<1> QED
  BY <1>1, TypeHandlers, TypeReplay, TypeLoop, TypeFlush, TypeMain
     DEF Next, WriterStep

\* The pipeline never leaves its types: the channel never holds more than its
\* capacity, flush makes at most four attempts, the counters count clicks.
THEOREM WriterTypeCorrect == Spec => []TypeOK
BY TypeInit, TypeNext, PTL DEF Spec

-----------------------------------------------------------------------------
(* No silent loss.                                                         *)

\* What was read of a file about to be removed is in the database.
RemovedIsKept == pc = "remove" => decoded \subseteq InDatabase

\* The inductive invariant.
LossInv == TypeOK /\ NoSilentLoss /\ RemovedIsKept

\* What the steps that leave a click where it is keep.
Places == <<queue, batch, spool, rows, dropped, lost, torn, unread>>

\* Clicks move only between the places NoSilentLoss looks at.
LEMMA LossStays ==
  ASSUME NoSilentLoss, UNCHANGED Places,
         \A c \in Clicks : fate'[c] = "accepted" => fate[c] = "accepted"
  PROVE  NoSilentLoss'
BY DEF NoSilentLoss, Places, InMemory, Kept, InSpool, InDatabase

\* The handlers put an accepted click into the queue.
LEMMA LossHandlers ==
  ASSUME LossInv, NEW c \in Clicks, Arrive(c) \/ Enqueue(c)
  PROVE  NoSilentLoss' /\ RemovedIsKept'
<1>1. RemovedIsKept'
  BY DEF LossInv, RemovedIsKept, InDatabase, Arrive, Enqueue, writerVars
<1>2. NoSilentLoss'
  BY DEF LossInv, TypeOK, NoSilentLoss, Arrive, Enqueue, Accepted, Refused,
         Panics, Becomes, writerVars, mainVars, InMemory, Kept, InSpool,
         InDatabase
<1> QED
  BY <1>1, <1>2

\* The replay inserts before it removes.
LEMMA LossReplay ==
  ASSUME LossInv, ReplayStep
  PROVE  NoSilentLoss' /\ RemovedIsKept'
<1> USE DEF LossInv
<1>1. CASE ListSpool \/ ReplayEnds
  BY <1>1, LossStays DEF ListSpool, ReplayEnds, mainVars, Places, RemovedIsKept
<1>2. ASSUME NEW f \in todo, OpenFile(f) PROVE NoSilentLoss' /\ RemovedIsKept'
  BY <1>2, LossStays DEF OpenFile, mainVars, Places, RemovedIsKept
<1>6. ASSUME NEW f \in todo, OpenFails(f) PROVE NoSilentLoss' /\ RemovedIsKept'
  BY <1>6, LossStays DEF OpenFails, mainVars, Places, RemovedIsKept
<1>3. CASE ReplayCommits
  <2>1. decoded \in SUBSET Clicks
    BY DEF TypeOK
  <2>2. InDatabase' = InDatabase \cup decoded
    BY <1>3, <2>1, InsertedRows DEF ReplayCommits, TypeOK, InDatabase
  <2> QED
    BY <1>3, <2>2
       DEF ReplayCommits, NoSilentLoss, RemovedIsKept, mainVars, InMemory, Kept,
           InSpool
<1>4. CASE ReplayFails
  <2>1. decoded \in SUBSET Clicks
    BY DEF TypeOK
  <2>2. InDatabase \subseteq InDatabase'
    BY <1>4, <2>1, InsertedRows DEF ReplayFails, TypeOK, InDatabase
  <2> QED
    BY <1>4, <2>2
       DEF ReplayFails, NoSilentLoss, RemovedIsKept, mainVars, InMemory, Kept,
           InSpool
<1>5. CASE RemoveFile
  <2>1. InDatabase' = InDatabase /\ decoded \subseteq InDatabase
    BY <1>5 DEF RemoveFile, RemovedIsKept, InDatabase
  <2>2. InSpool \subseteq InSpool' \cup decoded \cup unread' /\ unread \subseteq unread'
    BY <1>5 DEF RemoveFile, InSpool
  <2>3. Kept \cup unread \subseteq Kept' \cup unread'
    BY <2>1, <2>2 DEF Kept
  <2> QED
    BY <1>5, <2>3 DEF RemoveFile, NoSilentLoss, RemovedIsKept, mainVars, InMemory
<1> QED
  BY <1>1, <1>2, <1>3, <1>4, <1>5, <1>6 DEF ReplayStep

\* The loop moves clicks from the queue to the batch or counts them.
LEMMA LossLoop ==
  ASSUME LossInv, LoopStep
  PROVE  NoSilentLoss' /\ RemovedIsKept'
<1> USE DEF LossInv
<1>1. CASE Tick \/ SeesCancel \/ LastFlush
  BY <1>1, LossStays
     DEF Tick, SeesCancel, LastFlush, mainVars, Places, RemovedIsKept
<1>2. ASSUME NEW c \in Clicks, Receive(c) PROVE NoSilentLoss' /\ RemovedIsKept'
  BY <1>2 DEF Receive, Enriched, mainVars, NoSilentLoss, RemovedIsKept, InMemory,
              Kept, InSpool, InDatabase
<1> QED
  BY <1>1, <1>2 DEF LoopStep

\* flush and spool give a click up only when it is written or counted.
LEMMA LossFlush ==
  ASSUME LossInv, FlushStep
  PROVE  NoSilentLoss' /\ RemovedIsKept'
<1> USE DEF LossInv, mainVars
<1>0. pc' # "remove" => RemovedIsKept'
  BY DEF RemovedIsKept
<1>1. CASE InsertCommits
  <2>1. InDatabase' = InDatabase \cup batch
    BY <1>1, InsertedRows DEF InsertCommits, TypeOK, InDatabase
  <2> QED
    BY <1>1, <2>1, <1>0 DEF InsertCommits, Flushed, NoSilentLoss, InMemory, Kept,
                            InSpool
<1>2. CASE InsertFails
  <2>1. InDatabase \subseteq InDatabase'
    BY <1>2, InsertedRows DEF InsertFails, TypeOK, InDatabase
  <2> QED
    BY <1>2, <2>1, <1>0 DEF InsertFails, NoSilentLoss, InMemory, Kept, InSpool
<1>3. CASE CreateFile
  <2>1. InSpool \subseteq InSpool'
    BY <1>3 DEF CreateFile, InSpool
  <2> QED
    BY <1>3, <2>1, <1>0 DEF CreateFile, NoSilentLoss, InMemory, Kept, InDatabase
<1>4. CASE CreateFails \/ CloseFile
  BY <1>4, <1>0 DEF CreateFails, CloseFile, Flushed, NoSilentLoss, InMemory, Kept,
                    InSpool, InDatabase
<1>5. ASSUME NEW c \in Clicks, WriteRecord(c) PROVE NoSilentLoss' /\ RemovedIsKept'
  <2>1. file.readable \subseteq file'.readable
    BY <1>5 DEF WriteRecord, TypeOK, File
  <2>2. InSpool \cup file'.readable \subseteq InSpool'
    BY <1>5, <2>1 DEF WriteRecord, InSpool
  <2> QED
    BY <1>5, <2>2, <1>0 DEF WriteRecord, NoSilentLoss, InMemory, Kept, InDatabase
<1> QED
  BY <1>1, <1>2, <1>3, <1>4, <1>5 DEF FlushStep

\* The end of the process puts what was in memory among the lost.
LEMMA LossMain ==
  ASSUME LossInv, MainStep
  PROVE  NoSilentLoss' /\ RemovedIsKept'
<1> USE DEF LossInv, writerVars
<1>1. CASE BeginShutdown \/ CloseWriter \/ ShutdownTimeout \/ Return
  BY <1>1, LossStays DEF BeginShutdown, CloseWriter, ShutdownTimeout, Return,
                         Places, RemovedIsKept, InDatabase
<1>2. CASE ProcessEnds
  BY <1>2 DEF ProcessEnds, TypeOK, NoSilentLoss, RemovedIsKept, InMemory, Kept,
              InSpool, InDatabase
<1>3. CASE StartProcess
  BY <1>3, LossStays DEF StartProcess, Places, RemovedIsKept
<1> QED
  BY <1>1, <1>2, <1>3 DEF MainStep

\* Every step keeps the inductive invariant.
LEMMA LossNext == LossInv /\ [Next]_vars => LossInv'
<1> SUFFICES ASSUME LossInv, [Next]_vars PROVE LossInv'
  OBVIOUS
<1>1. TypeOK'
  BY TypeNext DEF LossInv
<1>2. CASE UNCHANGED vars
  BY <1>1, <1>2, LossStays
     DEF LossInv, vars, writerVars, mainVars, Places, RemovedIsKept, InDatabase
<1>3. CASE Next
  BY <1>1, <1>3, LossHandlers, LossReplay, LossLoop, LossFlush, LossMain
     DEF Next, WriterStep, LossInv
<1> QED
  BY <1>2, <1>3

\* No accepted click disappears without a trace, whatever the database, the
\* disk, the shutdown timeout and crashes do (writer.go, main.go).  Among the
\* traces are those of the disk: a record that was not written, and one that
\* was not read when replaySpool removed its file.
THEOREM NothingLostSilently == Spec => []NoSilentLoss
<1>1. Init => LossInv
  BY TypeInit DEF Init, LossInv, NoSilentLoss, RemovedIsKept
<1>2. LossInv => NoSilentLoss
  BY DEF LossInv
<1> QED
  BY <1>1, <1>2, LossNext, PTL DEF Spec

-----------------------------------------------------------------------------
(* The refinement, for a database and a disk that tell the truth.          *)

\* A click is in one place.
Separate ==
  /\ queue \cap batch = {}
  /\ InMemory \cap Kept = {}
  /\ dropped \cap (InMemory \cup Kept) = {}
  /\ lost \cap (InMemory \cup Kept \cup dropped) = {}

\* What is anywhere has gone through Enqueue.
Entered ==
  \A c \in InMemory \cup Kept \cup dropped \cup lost :
    fate[c] \in {"accepted", "refused"}

\* Files are whole, and the writer works on files that are there.
FilesInOrder ==
  /\ ~file.broken
  /\ \A f \in spool : ~f.broken
  /\ todo \subseteq spool
  /\ pc \in {"replaying", "remove", "write"} => file \in spool
  /\ pc \in {"replaying", "remove"} => decoded = file.readable
  /\ pc \notin {"replay", "replaying", "remove"} => todo = {}
  /\ main = "exited" => pc = "down"

\* The inductive invariant.
LedgerInv == TypeOK /\ RemovedIsKept /\ Separate /\ Entered /\ FilesInOrder

\* The refinement mapping.
status == [c \in Clicks |-> Status(c)]

LedgerStep == Ledger!Next \/ UNCHANGED status

\* The places of InMemory, Kept, dropped and lost are sets of clicks.
LEMMA PlaceTypes ==
  ASSUME TypeOK
  PROVE  InMemory \subseteq Clicks /\ Kept \subseteq Clicks
<1>1. \A f \in spool : f.readable \subseteq Clicks
  BY DEF TypeOK, File
<1> QED
  BY <1>1 DEF TypeOK, InMemory, Kept, InSpool, InDatabase

\* A step that moves no click between the places is no step of the ledger.
LEMMA SameStatus ==
  ASSUME InMemory' = InMemory, Kept' = Kept, dropped' = dropped, lost' = lost
  PROVE  LedgerStep
BY DEF LedgerStep, status, Status

\* Clicks that move from memory to the database or the spool are kept.
LEMMA KeepStep ==
  ASSUME TypeOK, Separate, NEW S \in SUBSET InMemory,
         InMemory' = InMemory \ S, Kept' = Kept \cup S,
         dropped' = dropped, lost' = lost
  PROVE  LedgerStep
<1>1. S \in SUBSET Ledger!In("memory")
  BY PlaceTypes DEF Ledger!In, Status, Separate
<1>2. Ledger!Become(S, "kept")
  BY PlaceTypes DEF Ledger!Become, Status, Separate
<1> QED
  BY <1>1, <1>2 DEF Ledger!Next, Ledger!Keep, LedgerStep

\* A click that enrich panics on is dropped.
LEMMA DropStep ==
  ASSUME TypeOK, Separate, NEW S \in SUBSET InMemory,
         InMemory' = InMemory \ S, dropped' = dropped \cup S,
         Kept' = Kept, lost' = lost
  PROVE  LedgerStep
<1>1. S \in SUBSET Ledger!In("memory")
  BY PlaceTypes DEF Ledger!In, Status, Separate
<1>2. Ledger!Become(S, "dropped")
  BY PlaceTypes DEF Ledger!Become, Status, Separate
<1> QED
  BY <1>1, <1>2 DEF Ledger!Next, Ledger!Drop, LedgerStep

\* Enqueue accepts or refuses a new click; a panic changes nothing.
LEMMA LedgerHandlers ==
  ASSUME LedgerInv, NEW c \in Clicks, Arrive(c) \/ Enqueue(c)
  PROVE  LedgerInv' /\ LedgerStep
<1> USE DEF LedgerInv
<1>1. /\ Kept' = Kept /\ lost' = lost
      /\ FilesInOrder' /\ RemovedIsKept'
  BY DEF Arrive, Enqueue, writerVars, mainVars, FilesInOrder, RemovedIsKept,
         Kept, InSpool, InDatabase
<1>2. TypeOK'
  BY TypeHandlers
<1>3. CASE Arrive(c) \/ Panics(c)
  <2>1. InMemory' = InMemory /\ dropped' = dropped /\ queue' = queue
        /\ batch' = batch
    BY <1>3 DEF Arrive, Enqueue, Panics, writerVars, InMemory, Accepted, Refused
  <2>2. Separate'
    BY <1>1, <2>1 DEF Separate
  <2>3. /\ fate[c] \in {"new", "active"}
        /\ \A d \in Clicks : d # c => fate'[d] = fate[d]
    BY <1>3 DEF Arrive, Panics, Becomes, TypeOK
  <2>4. Entered'
    BY <1>1, <2>1, <2>3, PlaceTypes DEF Entered, TypeOK
  <2> QED
    BY <1>1, <1>2, <2>1, <2>2, <2>4, SameStatus
<1>4. CASE Enqueue(c) /\ Accepted(c)
  <2>1. /\ fate[c] = "active"
        /\ c \notin InMemory \cup Kept \cup dropped \cup lost
    BY <1>4 DEF Accepted, Becomes, Entered
  <2>2. /\ InMemory' = InMemory \cup {c} /\ dropped' = dropped
        /\ queue' = queue \cup {c} /\ batch' = batch
    BY <1>4 DEF Accepted, Enqueue, writerVars, InMemory
  <2>3. Separate'
    BY <1>1, <2>1, <2>2 DEF Separate, InMemory
  <2>4. Entered'
    BY <1>1, <1>4, <2>2 DEF Entered, Accepted, Becomes, TypeOK
  <2>5. c \in Ledger!In("new")
    BY <2>1 DEF Ledger!In, Status
  <2>6. Ledger!Become({c}, "memory")
    BY <1>1, <2>1, <2>2 DEF Ledger!Become, Status
  <2> QED
    BY <1>1, <1>2, <2>3, <2>4, <2>5, <2>6
       DEF LedgerStep, Ledger!Next, Ledger!Accept
<1>5. CASE Enqueue(c) /\ Refused(c)
  <2>1. /\ fate[c] = "active"
        /\ c \notin InMemory \cup Kept \cup dropped \cup lost
    BY <1>5 DEF Refused, Becomes, Entered
  <2>2. /\ InMemory' = InMemory /\ dropped' = dropped \cup {c}
        /\ queue' = queue /\ batch' = batch
    BY <1>5 DEF Refused, Enqueue, writerVars, InMemory
  <2>3. Separate'
    BY <1>1, <2>1, <2>2 DEF Separate
  <2>4. Entered'
    BY <1>1, <1>5, <2>2 DEF Entered, Refused, Becomes, TypeOK
  <2>5. c \in Ledger!In("new")
    BY <2>1 DEF Ledger!In, Status
  <2>6. Ledger!Become({c}, "dropped")
    BY <1>1, <2>1, <2>2 DEF Ledger!Become, Status
  <2> QED
    BY <1>1, <1>2, <2>3, <2>4, <2>5, <2>6
       DEF LedgerStep, Ledger!Next, Ledger!Refuse
<1> QED
  BY <1>3, <1>4, <1>5 DEF Enqueue

\* The replay moves no click: what it inserts is in the spool, what it removes
\* is in the database.
LEMMA LedgerReplay ==
  ASSUME LedgerInv, ReplayStep, ~AmbiguousCommit, ~DiskFaults
  PROVE  LedgerInv' /\ LedgerStep
<1> USE DEF LedgerInv, mainVars
<1>1. /\ InMemory' = InMemory /\ dropped' = dropped /\ lost' = lost
      /\ queue' = queue /\ batch' = batch /\ fate' = fate
  BY DEF ReplayStep, ListSpool, ReplayCommits, ReplayFails, RemoveFile,
         ReplayEnds, OpenFile, OpenFails, mainVars, InMemory
<1>2. TypeOK'
  BY TypeReplay
<1>3. Kept' = Kept /\ FilesInOrder' /\ RemovedIsKept'
  <2>1. CASE ListSpool \/ ReplayEnds
    BY <2>1 DEF ListSpool, ReplayEnds, Kept, InSpool, InDatabase, FilesInOrder,
                RemovedIsKept
  <2>2. ASSUME NEW f \in todo, OpenFile(f)
        PROVE  Kept' = Kept /\ FilesInOrder' /\ RemovedIsKept'
    BY <2>2 DEF OpenFile, Kept, InSpool, InDatabase, FilesInOrder, RemovedIsKept
  <2>6. ~ \E f \in todo : OpenFails(f)
    BY DEF OpenFails
  <2>3. CASE ReplayCommits
    <3>1. /\ file \in spool /\ file.readable \in SUBSET Clicks
          /\ decoded = file.readable
      BY <2>3 DEF ReplayCommits, FilesInOrder, TypeOK, File
    <3>2. InDatabase' = InDatabase \cup file.readable
      BY <2>3, <3>1, InsertedRows DEF ReplayCommits, TypeOK, InDatabase
    <3>3. InSpool' = InSpool /\ file.readable \subseteq InSpool
      BY <2>3, <3>1 DEF ReplayCommits, InSpool
    <3>4. Kept' = Kept
      BY <3>2, <3>3 DEF Kept
    <3> QED
      BY <2>3, <3>2, <3>4 DEF ReplayCommits, FilesInOrder, RemovedIsKept
  <2>4. CASE ReplayFails
    BY <2>4 DEF ReplayFails, Kept, InSpool, InDatabase, FilesInOrder,
                RemovedIsKept, NoFile
  <2>5. CASE RemoveFile
    <3>1. InDatabase' = InDatabase /\ file.readable \subseteq InDatabase
      BY <2>5 DEF RemoveFile, RemovedIsKept, FilesInOrder, InDatabase
    <3>2. /\ InSpool \subseteq InSpool' \cup file.readable
          /\ InSpool' \subseteq InSpool
      BY <2>5 DEF RemoveFile, InSpool
    <3>3. Kept' = Kept
      BY <3>1, <3>2 DEF Kept
    <3> QED
      BY <2>5, <3>3 DEF RemoveFile, FilesInOrder, RemovedIsKept, NoFile
  <2> QED
    BY <2>1, <2>2, <2>3, <2>4, <2>5, <2>6 DEF ReplayStep
<1>4. Separate' /\ Entered'
  BY <1>1, <1>3 DEF Separate, Entered
<1> QED
  BY <1>1, <1>2, <1>3, <1>4, SameStatus

\* The loop moves clicks within memory, or drops one.
LEMMA LedgerLoop ==
  ASSUME LedgerInv, LoopStep
  PROVE  LedgerInv' /\ LedgerStep
<1> USE DEF LedgerInv
<1>1. /\ Kept' = Kept /\ lost' = lost /\ fate' = fate
      /\ FilesInOrder' /\ RemovedIsKept'
  BY DEF LoopStep, Tick, SeesCancel, LastFlush, Receive, mainVars, Kept, InSpool,
         InDatabase, FilesInOrder, RemovedIsKept
<1>2. TypeOK'
  BY TypeLoop
<1>3. CASE Tick \/ SeesCancel \/ LastFlush
  <2>1. InMemory' = InMemory /\ dropped' = dropped
        /\ queue' = queue /\ batch' = batch
    BY <1>3 DEF Tick, SeesCancel, LastFlush, InMemory
  <2>2. Separate' /\ Entered'
    BY <1>1, <2>1 DEF Separate, Entered
  <2> QED
    BY <1>1, <1>2, <2>1, <2>2, SameStatus
<1>4. ASSUME NEW c \in Clicks, Receive(c)
      PROVE  LedgerInv' /\ LedgerStep
  <2>1. c \in queue /\ queue' = queue \ {c}
    BY <1>4 DEF Receive
  <2>2. CASE batch' = batch \cup {c} /\ dropped' = dropped
    <3>1. InMemory' = InMemory
      BY <2>1, <2>2 DEF InMemory
    <3>2. Separate' /\ Entered'
      BY <1>1, <2>1, <2>2, <3>1 DEF Separate, Entered
    <3> QED
      BY <1>1, <1>2, <2>2, <3>1, <3>2, SameStatus
  <2>3. CASE batch' = batch /\ dropped' = dropped \cup {c}
    <3>1. InMemory' = InMemory \ {c} /\ c \in InMemory
      BY <2>1, <2>3 DEF InMemory, Separate
    <3>2. Separate' /\ Entered'
      BY <1>1, <2>1, <2>3, <3>1 DEF Separate, Entered
    <3>3. LedgerStep
      BY <1>1, <2>3, <3>1, DropStep
    <3> QED
      BY <1>1, <1>2, <3>2, <3>3
  <2> QED
    BY <1>4, <2>2, <2>3 DEF Receive, Enriched
<1> QED
  BY <1>3, <1>4 DEF LoopStep

\* flush keeps a batch at once, spool keeps it click by click.
LEMMA LedgerFlush ==
  ASSUME LedgerInv, FlushStep, ~AmbiguousCommit, ~DiskFaults
  PROVE  LedgerInv' /\ LedgerStep
<1> USE DEF LedgerInv, mainVars
<1>1. dropped' = dropped /\ lost' = lost /\ fate' = fate /\ queue' = queue
  BY DEF FlushStep, InsertCommits, InsertFails, CreateFile, CreateFails,
         CloseFile, WriteRecord, mainVars
<1>2. TypeOK'
  BY TypeFlush
<1>3. CASE InsertCommits
  <2>1. /\ InDatabase' = InDatabase \cup batch /\ InSpool' = InSpool
    BY <1>3, InsertedRows DEF InsertCommits, TypeOK, InDatabase, InSpool
  <2>2. Kept' = Kept \cup batch /\ batch' = {}
    BY <1>3, <2>1 DEF InsertCommits, Flushed, Kept
  <2>3. InMemory' = InMemory \ batch /\ batch \in SUBSET InMemory
    BY <1>1, <2>2 DEF InMemory, Separate
  <2>4. Separate' /\ Entered'
    BY <1>1, <2>2, <2>3 DEF Separate, Entered
  <2>5. FilesInOrder' /\ RemovedIsKept'
    BY <1>3 DEF InsertCommits, Flushed, FilesInOrder, RemovedIsKept, NoFile
  <2>6. LedgerStep
    BY <1>1, <2>2, <2>3, KeepStep
  <2> QED
    BY <1>2, <2>4, <2>5, <2>6
<1>4. CASE InsertFails \/ CreateFile \/ CloseFile
  <2>1. InMemory' = InMemory /\ batch' = batch
    BY <1>4 DEF InsertFails, CreateFile, CloseFile, Flushed, InMemory
  <2>2. Kept' = Kept
    <3>1. CASE InsertFails \/ CloseFile
      BY <3>1 DEF InsertFails, CloseFile, Kept, InSpool, InDatabase
    <3>2. CASE CreateFile
      <4>1. spool' = spool \cup {file'} /\ file'.readable = {}
        BY <3>2 DEF CreateFile, NoFile
      <4>2. InSpool' = InSpool
        BY <4>1 DEF InSpool
      <4> QED
        BY <3>2, <4>2 DEF CreateFile, Kept, InDatabase
    <3> QED
      BY <1>4, <3>1, <3>2
  <2>3. Separate' /\ Entered'
    BY <1>1, <2>1, <2>2 DEF Separate, Entered
  <2>4. FilesInOrder' /\ RemovedIsKept'
    BY <1>4 DEF InsertFails, CreateFile, CloseFile, Flushed, FilesInOrder,
                RemovedIsKept, NoFile
  <2> QED
    BY <1>1, <1>2, <2>1, <2>2, <2>3, <2>4, SameStatus
<1>5. ASSUME NEW c \in Clicks, WriteRecord(c)
      PROVE  LedgerInv' /\ LedgerStep
  <2>1. /\ c \in batch /\ batch' = batch \ {c} /\ pc = "write" /\ pc' = pc
        /\ file \in spool /\ ~file.broken
        /\ spool' = (spool \ {file}) \cup {file'}
        /\ todo = {} /\ todo' = {} /\ rows' = rows
    BY <1>5 DEF WriteRecord, FilesInOrder
  <2>2. /\ file'.readable = file.readable \cup {c}
        /\ ~file'.broken
    BY <1>5, <2>1 DEF WriteRecord, TypeOK, File
  <2>3. InSpool' = InSpool \cup {c}
    BY <2>1, <2>2 DEF InSpool
  <2>4. Kept' = Kept \cup {c}
    BY <2>1, <2>3 DEF Kept, InDatabase
  <2>5. InMemory' = InMemory \ {c} /\ {c} \in SUBSET InMemory
    BY <1>1, <2>1 DEF InMemory, Separate
  <2>6. Separate' /\ Entered'
    BY <1>1, <2>1, <2>4, <2>5 DEF Separate, Entered
  <2>7. FilesInOrder' /\ RemovedIsKept'
    BY <1>5, <2>1, <2>2 DEF WriteRecord, FilesInOrder, RemovedIsKept
  <2>8. LedgerStep
    BY <1>1, <2>4, <2>5, KeepStep
  <2> QED
    BY <1>2, <2>6, <2>7, <2>8
<1>6. ~CreateFails
  BY DEF CreateFails
<1> QED
  BY <1>3, <1>4, <1>5, <1>6 DEF FlushStep

\* The end of the process is the ledger's Die; main's other steps are none.
LEMMA LedgerMain ==
  ASSUME LedgerInv, MainStep
  PROVE  LedgerInv' /\ LedgerStep
<1> USE DEF LedgerInv
<1>1. /\ Kept' = Kept /\ dropped' = dropped /\ spool' = spool
  BY DEF MainStep, BeginShutdown, CloseWriter, ShutdownTimeout, Return,
         ProcessEnds, StartProcess, writerVars, Kept, InSpool, InDatabase
<1>2. TypeOK'
  BY TypeMain
<1>3. CASE ProcessEnds
  <2>1. /\ InMemory' = {} /\ queue' = {} /\ batch' = {}
        /\ lost' = lost \cup InMemory
    BY <1>3 DEF ProcessEnds, InMemory
  <2>2. Separate'
    BY <1>1, <2>1 DEF Separate
  <2>3. Entered'
    BY <1>1, <1>3, <2>1, PlaceTypes DEF Entered, ProcessEnds, TypeOK
  <2>4. FilesInOrder' /\ RemovedIsKept'
    BY <1>3 DEF ProcessEnds, FilesInOrder, RemovedIsKept, NoFile
  <2>5. Ledger!Die
    BY <1>1, <2>1, PlaceTypes
       DEF Ledger!Die, Ledger!Become, Ledger!In, Status, Separate
  <2> QED
    BY <1>2, <2>2, <2>3, <2>4, <2>5 DEF LedgerStep, Ledger!Next
<1>4. CASE MainStep /\ ~ProcessEnds
  <2>1. /\ InMemory' = InMemory /\ lost' = lost /\ fate' = fate
        /\ queue' = queue /\ batch' = batch
    BY <1>4 DEF MainStep, BeginShutdown, CloseWriter, ShutdownTimeout, Return,
                StartProcess, writerVars, InMemory
  <2>2. Separate' /\ Entered'
    BY <1>1, <2>1 DEF Separate, Entered
  <2>3. FilesInOrder' /\ RemovedIsKept'
    BY <1>4 DEF MainStep, BeginShutdown, CloseWriter, ShutdownTimeout, Return,
                StartProcess, writerVars, FilesInOrder, RemovedIsKept, InDatabase
  <2> QED
    BY <1>1, <1>2, <2>1, <2>2, <2>3, SameStatus
<1> QED
  BY <1>3, <1>4

\* Every step keeps the invariant and is a step of the ledger.
LEMMA LedgerNext ==
  ASSUME LedgerInv, [Next]_vars, ~AmbiguousCommit, ~DiskFaults
  PROVE  LedgerInv' /\ LedgerStep
<1>1. CASE UNCHANGED vars
  <2>1. TypeOK'
    BY <1>1, TypeNext DEF LedgerInv
  <2>2. InMemory' = InMemory /\ Kept' = Kept /\ dropped' = dropped /\ lost' = lost
    BY <1>1 DEF vars, writerVars, mainVars, InMemory, Kept, InSpool, InDatabase
  <2>3. Separate' /\ Entered' /\ FilesInOrder' /\ RemovedIsKept'
    BY <1>1, <2>2
       DEF LedgerInv, vars, writerVars, mainVars, Separate, Entered,
           FilesInOrder, RemovedIsKept, InDatabase
  <2> QED
    BY <2>1, <2>2, <2>3, SameStatus DEF LedgerInv
<1>2. CASE Next
  BY <1>2, LedgerHandlers, LedgerReplay, LedgerLoop, LedgerFlush, LedgerMain
     DEF Next, WriterStep
<1> QED
  BY <1>1, <1>2

\* With a database and a disk that tell the truth the pipeline (writer.go,
\* main.go) does to every click only what ClickLedger allows.
THEOREM WriterImplementsLedger ==
  ASSUME ~AmbiguousCommit, ~DiskFaults
  PROVE  Spec => ImplementsLedger
<1>1. Init => LedgerInv /\ Ledger!Init
  <2> SUFFICES ASSUME Init PROVE LedgerInv /\ Ledger!Init
    OBVIOUS
  <2>1. TypeOK
    BY TypeInit
  <2>2. InMemory = {} /\ Kept = {} /\ dropped = {} /\ lost = {}
    BY DEF Init, InMemory, Kept, InSpool, InDatabase
  <2>3. Separate /\ Entered /\ FilesInOrder /\ RemovedIsKept
    BY <2>2 DEF Init, Separate, Entered, FilesInOrder, RemovedIsKept, NoFile
  <2>4. Ledger!Init
    BY <2>2 DEF Ledger!Init, Status
  <2> QED
    BY <2>1, <2>3, <2>4 DEF LedgerInv
<1>2. LedgerInv /\ [Next]_vars => LedgerInv' /\ [Ledger!Next]_status
  BY LedgerNext DEF LedgerStep
<1> QED
  BY <1>1, <1>2, PTL DEF Spec, ImplementsLedger, Ledger!Spec, status

-----------------------------------------------------------------------------
(* One place for each click, with a disk that may fail.                    *)

\* The writer replays and writes files that are there.
FilesAreThere ==
  /\ todo \subseteq spool
  /\ pc \in {"replaying", "remove"} => file \in todo /\ decoded \subseteq file.readable
  /\ pc = "write" => file \in spool
  /\ pc \notin {"replay", "replaying", "remove"} => todo = {}
  /\ main = "exited" => pc = "down"

\* The inductive invariant.
PlaceInv == TypeOK /\ Separate /\ Entered /\ FilesAreThere

\* A step that adds nothing to what is kept but what has left memory, nothing
\* to what is counted but what has left memory and is not kept, and
\* takes nothing new into memory leaves each click in one place.
LEMMA StillSeparate ==
  ASSUME Separate, Entered, fate' = fate,
         queue' \cap batch' = {}, InMemory' \subseteq InMemory,
         Kept' \subseteq Kept \cup (InMemory \ InMemory'),
         dropped' \subseteq dropped \cup (InMemory \ InMemory'),
         lost' \subseteq lost \cup (InMemory \ InMemory'),
         Kept' \subseteq Kept \/ (dropped' = dropped /\ lost' = lost),
         dropped' = dropped \/ lost' = lost
  PROVE  Separate' /\ Entered'
<1>1. Entered'
  BY DEF Entered
<1>2. Separate'
  BY DEF Separate
<1> QED
  BY <1>1, <1>2

\* The handlers are those of the refinement.
LEMMA PlaceHandlers ==
  ASSUME PlaceInv, NEW c \in Clicks, Arrive(c) \/ Enqueue(c)
  PROVE  PlaceInv'
<1> USE DEF PlaceInv
<1>1. Kept' = Kept /\ lost' = lost /\ batch' = batch /\ FilesAreThere'
  BY DEF Arrive, Enqueue, writerVars, mainVars, FilesAreThere, Kept, InSpool, InDatabase
<1>2. TypeOK'
  BY TypeHandlers
<1>3. CASE Arrive(c) \/ Panics(c)
  <2>1. InMemory' = InMemory /\ dropped' = dropped /\ queue' = queue
    BY <1>3 DEF Arrive, Enqueue, Panics, writerVars, InMemory, Accepted, Refused
  <2>2. /\ fate[c] \in {"new", "active"}
        /\ \A d \in Clicks : d # c => fate'[d] = fate[d]
    BY <1>3 DEF Arrive, Panics, Becomes, TypeOK
  <2>3. Separate'
    BY <1>1, <2>1 DEF Separate
  <2>4. Entered'
    BY <1>1, <2>1, <2>2, PlaceTypes DEF Entered, TypeOK
  <2> QED
    BY <1>1, <1>2, <2>3, <2>4
<1>4. CASE Enqueue(c) /\ (Accepted(c) \/ Refused(c))
  <2>1. /\ fate[c] = "active"
        /\ c \notin InMemory \cup Kept \cup dropped \cup lost
    BY <1>4 DEF Accepted, Refused, Becomes, Entered
  <2>2. \/ /\ InMemory' = InMemory \cup {c} /\ dropped' = dropped
           /\ queue' = queue \cup {c}
        \/ /\ InMemory' = InMemory /\ dropped' = dropped \cup {c}
           /\ queue' = queue
    BY <1>1, <1>4 DEF Accepted, Refused, InMemory
  <2>3. Separate'
    BY <1>1, <2>1, <2>2 DEF Separate, InMemory
  <2>4. \E f \in {"accepted", "refused"} : fate' = [fate EXCEPT ![c] = f]
    BY <1>4 DEF Accepted, Refused, Becomes
  <2>5. Entered'
    BY <1>1, <2>2, <2>4 DEF Entered, TypeOK
  <2> QED
    BY <1>1, <1>2, <2>3, <2>5
<1> QED
  BY <1>3, <1>4 DEF Enqueue

\* The replay keeps nothing that was not kept.
LEMMA PlaceReplay ==
  ASSUME PlaceInv, ReplayStep, ~AmbiguousCommit
  PROVE  PlaceInv'
<1> USE DEF PlaceInv, mainVars
<1>1. /\ InMemory' = InMemory /\ dropped' = dropped /\ lost' = lost
      /\ queue' = queue /\ batch' = batch /\ fate' = fate
  BY DEF ReplayStep, ListSpool, ReplayCommits, ReplayFails, RemoveFile,
         ReplayEnds, OpenFile, OpenFails, mainVars, InMemory
<1>2. TypeOK'
  BY TypeReplay
<1>3. Kept' \subseteq Kept /\ FilesAreThere'
  <2>1. CASE ListSpool \/ ReplayEnds
    BY <2>1 DEF ListSpool, ReplayEnds, Kept, InSpool, InDatabase, FilesAreThere
  <2>2. ASSUME NEW f \in todo, OpenFile(f) PROVE Kept' \subseteq Kept /\ FilesAreThere'
    BY <2>2 DEF OpenFile, Kept, InSpool, InDatabase, FilesAreThere
  <2>6. ASSUME NEW f \in todo, OpenFails(f) PROVE Kept' \subseteq Kept /\ FilesAreThere'
    BY <2>6 DEF OpenFails, Kept, InSpool, InDatabase, FilesAreThere
  <2>3. CASE ReplayCommits
    <3>1. file \in spool /\ decoded \in SUBSET Clicks /\ decoded \subseteq file.readable
      BY <2>3 DEF ReplayCommits, FilesAreThere, TypeOK
    <3>2. InDatabase' = InDatabase \cup decoded
      BY <2>3, <3>1, InsertedRows DEF ReplayCommits, TypeOK, InDatabase
    <3>3. InSpool' = InSpool /\ decoded \subseteq InSpool
      BY <2>3, <3>1 DEF ReplayCommits, InSpool
    <3> QED
      BY <2>3, <3>2, <3>3 DEF ReplayCommits, FilesAreThere, Kept
  <2>4. CASE ReplayFails
    BY <2>4 DEF ReplayFails, Kept, InSpool, InDatabase, FilesAreThere
  <2>5. CASE RemoveFile
    BY <2>5 DEF RemoveFile, Kept, InSpool, InDatabase, FilesAreThere
  <2> QED
    BY <2>1, <2>2, <2>3, <2>4, <2>5, <2>6 DEF ReplayStep
<1>4. Separate' /\ Entered'
  BY <1>1, <1>3, StillSeparate DEF Separate
<1> QED
  BY <1>2, <1>3, <1>4

\* The loop moves a click into the batch or counts it.
LEMMA PlaceLoop ==
  ASSUME PlaceInv, LoopStep
  PROVE  PlaceInv'
<1> USE DEF PlaceInv
<1>1. Kept' = Kept /\ lost' = lost /\ fate' = fate /\ FilesAreThere'
  BY DEF LoopStep, Tick, SeesCancel, LastFlush, Receive, mainVars, Kept, InSpool,
         InDatabase, FilesAreThere
<1>2. TypeOK'
  BY TypeLoop
<1>3. Separate' /\ Entered'
  <2>1. CASE Tick \/ SeesCancel \/ LastFlush
    <3>1. InMemory' = InMemory /\ dropped' = dropped /\ queue' = queue /\ batch' = batch
      BY <2>1 DEF Tick, SeesCancel, LastFlush, InMemory
    <3> QED
      BY <1>1, <3>1 DEF Separate, Entered
  <2>2. ASSUME NEW c \in Clicks, Receive(c) PROVE Separate' /\ Entered'
    <3>1. /\ c \in queue /\ queue' = queue \ {c}
          /\ \/ batch' = batch \cup {c} /\ dropped' = dropped
             \/ batch' = batch /\ dropped' = dropped \cup {c}
      BY <2>2 DEF Receive, Enriched
    <3>2. /\ InMemory' \subseteq InMemory
          /\ dropped' \subseteq dropped \cup (InMemory \ InMemory')
          /\ queue' \cap batch' = {}
      BY <3>1 DEF InMemory, Separate
    <3> QED
      BY <1>1, <3>2, StillSeparate
  <2> QED
    BY <2>1, <2>2 DEF LoopStep
<1> QED
  BY <1>1, <1>2, <1>3

\* flush and spool keep, count or lose what they take out of the batch.
LEMMA PlaceFlush ==
  ASSUME PlaceInv, FlushStep, ~AmbiguousCommit
  PROVE  PlaceInv'
<1> USE DEF PlaceInv, mainVars
<1>1. lost' = lost /\ fate' = fate /\ queue' = queue
  BY DEF FlushStep, InsertCommits, InsertFails, CreateFile, CreateFails,
         CloseFile, WriteRecord, mainVars
<1>2. TypeOK'
  BY TypeFlush
<1>3. CASE InsertCommits
  <2>1. /\ InDatabase' = InDatabase \cup batch /\ InSpool' = InSpool
    BY <1>3, InsertedRows DEF InsertCommits, TypeOK, InDatabase, InSpool
  <2>2. Kept' = Kept \cup batch /\ batch' = {} /\ dropped' = dropped
    BY <1>3, <2>1 DEF InsertCommits, Flushed, Kept
  <2>3. InMemory' \subseteq InMemory /\ batch = InMemory \ InMemory'
    BY <1>1, <2>2 DEF InMemory, Separate
  <2>4. FilesAreThere'
    BY <1>3 DEF InsertCommits, Flushed, FilesAreThere
  <2> QED
    BY <1>1, <1>2, <2>2, <2>3, <2>4, StillSeparate
<1>4. CASE InsertFails \/ CreateFile \/ CloseFile
  <2>1. InMemory' = InMemory /\ batch' = batch /\ dropped' = dropped
    BY <1>4 DEF InsertFails, CreateFile, CloseFile, Flushed, InMemory
  <2>2. Kept' = Kept
    <3>1. CASE InsertFails \/ CloseFile
      BY <3>1 DEF InsertFails, CloseFile, Kept, InSpool, InDatabase
    <3>2. CASE CreateFile
      <4>1. spool' = spool \cup {file'} /\ file'.readable = {}
        BY <3>2 DEF CreateFile, NoFile
      <4>2. InSpool' = InSpool
        BY <4>1 DEF InSpool
      <4> QED
        BY <3>2, <4>2 DEF CreateFile, Kept, InDatabase
    <3> QED
      BY <1>4, <3>1, <3>2
  <2>3. FilesAreThere'
    BY <1>4 DEF InsertFails, CreateFile, CloseFile, Flushed, FilesAreThere
  <2> QED
    BY <1>1, <1>2, <2>1, <2>2, <2>3 DEF Separate, Entered
<1>5. CASE CreateFails
  <2>1. /\ dropped' = dropped \cup batch /\ batch' = {} /\ Kept' = Kept
    BY <1>5 DEF CreateFails, Flushed, Kept, InSpool, InDatabase
  <2>2. InMemory' \subseteq InMemory /\ batch = InMemory \ InMemory'
    BY <1>1, <2>1 DEF InMemory, Separate
  <2>3. FilesAreThere'
    BY <1>5 DEF CreateFails, Flushed, FilesAreThere
  <2> QED
    BY <1>1, <1>2, <2>1, <2>2, <2>3, StillSeparate
<1>6. ASSUME NEW c \in Clicks, WriteRecord(c) PROVE PlaceInv'
  <2>1. /\ c \in batch /\ batch' = batch \ {c} /\ pc = "write" /\ pc' = pc
        /\ file \in spool /\ spool' = (spool \ {file}) \cup {file'}
        /\ todo = {} /\ todo' = {} /\ rows' = rows /\ dropped' = dropped
    BY <1>6 DEF WriteRecord, FilesAreThere
  <2>2. file'.readable \subseteq file.readable \cup {c}
    BY <1>6, <2>1 DEF WriteRecord, TypeOK, File
  <2>3. InSpool' \subseteq InSpool \cup {c}
    BY <2>1, <2>2 DEF InSpool
  <2>4. Kept' \subseteq Kept \cup {c}
    BY <2>1, <2>3 DEF Kept, InDatabase
  <2>5. InMemory' \subseteq InMemory /\ {c} = InMemory \ InMemory'
    BY <1>1, <2>1 DEF InMemory, Separate
  <2>6. queue' \cap batch' = {}
    BY <1>1, <2>1 DEF Separate
  <2>7. FilesAreThere'
    BY <1>6, <2>1 DEF WriteRecord, FilesAreThere
  <2> QED
    BY <1>1, <1>2, <2>1, <2>4, <2>5, <2>6, <2>7, StillSeparate
<1> QED
  BY <1>3, <1>4, <1>5, <1>6 DEF FlushStep

\* The end of the process makes memory lost.
LEMMA PlaceMain ==
  ASSUME PlaceInv, MainStep
  PROVE  PlaceInv'
<1> USE DEF PlaceInv
<1>1. /\ Kept' = Kept /\ dropped' = dropped
  BY DEF MainStep, BeginShutdown, CloseWriter, ShutdownTimeout, Return,
         ProcessEnds, StartProcess, writerVars, Kept, InSpool, InDatabase
<1>2. TypeOK'
  BY TypeMain
<1>3. CASE ProcessEnds
  <2>1. /\ InMemory' = {} /\ queue' = {} /\ batch' = {}
        /\ lost' = lost \cup InMemory
    BY <1>3 DEF ProcessEnds, InMemory
  <2>2. Separate'
    BY <1>1, <2>1 DEF Separate
  <2>3. Entered'
    BY <1>1, <1>3, <2>1, PlaceTypes DEF Entered, ProcessEnds, TypeOK
  <2>4. FilesAreThere'
    BY <1>3 DEF ProcessEnds, FilesAreThere
  <2> QED
    BY <1>2, <2>2, <2>3, <2>4
<1>4. CASE MainStep /\ ~ProcessEnds
  <2>1. /\ InMemory' = InMemory /\ lost' = lost /\ fate' = fate
        /\ queue' = queue /\ batch' = batch
        /\ todo' = todo /\ spool' = spool /\ file' = file /\ decoded' = decoded
        /\ pc' = pc \/ (main = "exited" /\ pc' = "start")
        /\ main' # "exited"
    BY <1>4 DEF MainStep, BeginShutdown, CloseWriter, ShutdownTimeout, Return,
                StartProcess, writerVars, InMemory
  <2> QED
    BY <1>1, <1>2, <2>1 DEF Separate, Entered, FilesAreThere
<1> QED
  BY <1>3, <1>4

\* The first state has no click anywhere.
LEMMA PlaceInit == Init => PlaceInv
<1> SUFFICES ASSUME Init PROVE PlaceInv
  OBVIOUS
<1>1. TypeOK
  BY TypeInit
<1>2. InMemory = {} /\ Kept = {} /\ dropped = {} /\ lost = {}
  BY DEF Init, InMemory, Kept, InSpool, InDatabase
<1> QED
  BY <1>1, <1>2 DEF Init, PlaceInv, Separate, Entered, FilesAreThere

\* Every step keeps the inductive invariant.
LEMMA PlaceNext ==
  ASSUME PlaceInv, [Next]_vars, ~AmbiguousCommit
  PROVE  PlaceInv'
<1>1. CASE UNCHANGED vars
  <2>1. TypeOK'
    BY <1>1, TypeNext DEF PlaceInv
  <2>2. InMemory' = InMemory /\ Kept' = Kept /\ dropped' = dropped /\ lost' = lost
    BY <1>1 DEF vars, writerVars, mainVars, InMemory, Kept, InSpool, InDatabase
  <2> QED
    BY <1>1, <2>1, <2>2
       DEF PlaceInv, vars, writerVars, mainVars, Separate, Entered, FilesAreThere
<1>2. CASE Next
  BY <1>2, PlaceHandlers, PlaceReplay, PlaceLoop, PlaceFlush, PlaceMain
     DEF Next, WriterStep
<1> QED
  BY <1>1, <1>2

\* As long as no COMMIT that took effect is reported as failed, a click that
\* was counted as dropped is nowhere, and one that is kept is not still in
\* memory, however the disk, the shutdown and crashes behave (flush, spool,
\* replaySpool).
THEOREM EachInOnePlace == Spec => []OnePlace
<1>1. CASE AmbiguousCommit
  BY <1>1, PTL DEF OnePlace
<1>2. CASE ~AmbiguousCommit
  <2>1. PlaceInv /\ [Next]_vars => PlaceInv'
    BY <1>2, PlaceNext
  <2>2. PlaceInv => OnePlace
    BY DEF PlaceInv, Separate, OnePlace
  <2> QED
    BY <2>1, <2>2, PlaceInit, PTL DEF Spec
<1> QED
  BY <1>1, <1>2

-----------------------------------------------------------------------------
(* Copies, with a disk that does not fail either.                          *)

\* Is f going to be replayed in this start?
Replayable(f) == pc = "start" \/ (f \in todo /\ ~(pc = "remove" /\ f = file))

\* Files share no click.
OneFile == \A f, g \in spool : f.readable \cap g.readable # {} => f = g

\* A click in the spool has been inserted once for each start after the one
\* it was spooled in, this one included if its file is done.
SpoolRows ==
  \A f \in spool : \A c \in f.readable :
    /\ rows[c] <= starts - 1
    /\ Replayable(f) => rows[c] <= starts - 2

RowsPerStart ==
  \A c \in Clicks : rows[c] <= IF starts <= 2 THEN 1 ELSE starts - 1

\* The inductive invariant.
CopiesInv == PlaceInv /\ OneFile /\ SpoolRows /\ RowsPerStart

\* What is in memory has no row and is in no file.
LEMMA MemoryIsNew ==
  ASSUME PlaceInv, NEW c \in InMemory
  PROVE  c \in Clicks /\ rows[c] = 0 /\ \A f \in spool : c \notin f.readable
<1>1. c \in Clicks /\ c \notin Kept
  BY PlaceTypes DEF PlaceInv, Separate
<1> QED
  BY <1>1 DEF PlaceInv, TypeOK, Kept, InSpool, InDatabase

\* A step that touches neither files nor rows, and replays nothing anew.
LEMMA CopiesFrame ==
  ASSUME CopiesInv, UNCHANGED <<rows, spool, starts>>,
         \A f \in spool : Replayable(f)' => Replayable(f)
  PROVE  OneFile' /\ SpoolRows' /\ RowsPerStart'
BY DEF CopiesInv, OneFile, SpoolRows, RowsPerStart

\* The replay inserts a file that has not been inserted in this start.
LEMMA CopiesReplay ==
  ASSUME CopiesInv, ReplayStep, ~AmbiguousCommit, ~DiskFaults
  PROVE  OneFile' /\ SpoolRows' /\ RowsPerStart'
<1> USE DEF CopiesInv, PlaceInv, mainVars
<1>1. CASE ListSpool \/ ReplayEnds
  BY <1>1, CopiesFrame DEF ListSpool, ReplayEnds, Replayable
<1>2. ASSUME NEW f \in todo, OpenFile(f) PROVE OneFile' /\ SpoolRows' /\ RowsPerStart'
  BY <1>2, CopiesFrame DEF OpenFile, Replayable
<1>6. ~ \E f \in todo : OpenFails(f)
  BY DEF OpenFails
<1>3. CASE ReplayFails
  BY <1>3, CopiesFrame DEF ReplayFails, Replayable
<1>4. CASE ReplayCommits
  <2>1. /\ pc = "replaying" /\ pc' = "remove" /\ rows' = Inserted(decoded)
        /\ UNCHANGED <<spool, todo, file, starts>>
    BY <1>4 DEF ReplayCommits
  <2>2. /\ file \in spool /\ Replayable(file)
        /\ decoded \subseteq file.readable /\ file.readable \subseteq Clicks
    BY <2>1 DEF FilesAreThere, Replayable, TypeOK, File
  <2>3. /\ starts \in Nat
        /\ \A c \in Clicks : rows[c] \in Nat
        /\ \A c \in Clicks \ file.readable : rows'[c] = rows[c]
        /\ \A c \in file.readable : rows'[c] \in {rows[c], rows[c] + 1} /\ rows[c] <= starts - 2
    BY <2>1, <2>2 DEF TypeOK, Inserted, SpoolRows
  <2>4. OneFile'
    BY <2>1 DEF OneFile
  <2>5. RowsPerStart'
    BY <2>1, <2>2, <2>3 DEF RowsPerStart
  <2>6. ASSUME NEW f \in spool, NEW c \in f.readable
        PROVE  /\ rows'[c] <= starts - 1
               /\ Replayable(f)' => rows'[c] <= starts - 2
    <3>1. c \in Clicks
      BY DEF TypeOK, File
    <3>2. CASE f = file
      BY <2>1, <2>2, <2>3, <3>2 DEF Replayable
    <3>3. CASE f # file
      <4>1. c \notin file.readable
        BY <2>2, <3>3 DEF OneFile
      <4>2. Replayable(f)' => Replayable(f)
        BY <2>1 DEF Replayable
      <4> QED
        BY <2>3, <3>1, <4>1, <4>2 DEF SpoolRows
    <3> QED
      BY <3>2, <3>3
  <2> QED
    BY <2>1, <2>4, <2>5, <2>6 DEF SpoolRows
<1>5. CASE RemoveFile
  <2>1. /\ pc = "remove" /\ pc' = "replay" /\ spool' = spool \ {file}
        /\ todo' = todo \ {file} /\ UNCHANGED <<rows, starts>>
    BY <1>5 DEF RemoveFile
  <2>2. \A f \in spool' : Replayable(f)' => Replayable(f)
    BY <2>1 DEF Replayable
  <2> QED
    BY <2>1, <2>2 DEF OneFile, SpoolRows, RowsPerStart
<1> QED
  BY <1>1, <1>2, <1>3, <1>4, <1>5, <1>6 DEF ReplayStep

\* flush inserts and spools what has no row and is in no file.
LEMMA CopiesFlush ==
  ASSUME CopiesInv, FlushStep, ~AmbiguousCommit, ~DiskFaults
  PROVE  OneFile' /\ SpoolRows' /\ RowsPerStart'
<1> USE DEF CopiesInv, PlaceInv, mainVars
<1>1. starts \in Nat /\ starts >= 1
  BY SizesAssumption DEF TypeOK
<1>2. CASE InsertCommits
  <2>1. /\ rows' = Inserted(batch) /\ UNCHANGED <<spool, todo, starts>>
        /\ pc = "insert" /\ pc' \in {"done", "select"}
    BY <1>2 DEF InsertCommits, Flushed
  <2>2. \A c \in batch : rows[c] = 0 /\ \A f \in spool : c \notin f.readable
    BY MemoryIsNew DEF InMemory
  <2>3. todo = {}
    BY <2>1 DEF FilesAreThere
  <2>4. \A c \in Clicks : rows'[c] = IF c \in batch THEN 1 ELSE rows[c]
    BY <2>1, <2>2 DEF Inserted
  <2>5. \A f \in spool : f.readable \subseteq Clicks
    BY DEF TypeOK, File
  <2>6. RowsPerStart'
    BY <1>1, <2>1, <2>4 DEF RowsPerStart
  <2>7. OneFile' /\ SpoolRows'
    BY <2>1, <2>2, <2>3, <2>4, <2>5 DEF OneFile, SpoolRows, Replayable
  <2> QED
    BY <2>6, <2>7
<1>3. CASE InsertFails \/ CloseFile
  BY <1>3, CopiesFrame DEF InsertFails, CloseFile, Flushed, Replayable
<1>4. CASE CreateFile
  <2>1. /\ spool' = spool \cup {file'} /\ file'.readable = {}
        /\ pc = "spool" /\ pc' = "write" /\ UNCHANGED <<rows, starts, todo>>
    BY <1>4 DEF CreateFile, NoFile
  <2>2. \A f \in spool : Replayable(f)' => Replayable(f)
    BY <2>1 DEF Replayable
  <2>3. OneFile'
    BY <2>1 DEF OneFile
  <2>4. SpoolRows' /\ RowsPerStart'
    BY <2>1, <2>2 DEF SpoolRows, RowsPerStart
  <2> QED
    BY <2>3, <2>4
<1>5. ASSUME NEW c \in Clicks, WriteRecord(c)
      PROVE  OneFile' /\ SpoolRows' /\ RowsPerStart'
  <2>1. /\ c \in batch /\ pc = "write" /\ pc' = pc
        /\ file \in spool /\ spool' = (spool \ {file}) \cup {file'}
        /\ todo = {} /\ todo' = {} /\ UNCHANGED <<rows, starts>>
    BY <1>5 DEF WriteRecord, FilesAreThere
  <2>2. file'.readable \subseteq file.readable \cup {c}
    BY <1>5, <2>1 DEF WriteRecord, TypeOK, File
  <2>3. rows[c] = 0 /\ \A f \in spool : c \notin f.readable
    BY <2>1, MemoryIsNew DEF InMemory
  <2>4. OneFile'
    BY <2>1, <2>2, <2>3 DEF OneFile
  <2>5. SpoolRows' /\ RowsPerStart'
    BY <1>1, <2>1, <2>2, <2>3 DEF SpoolRows, RowsPerStart, Replayable
  <2> QED
    BY <2>4, <2>5
<1> QED
  BY <1>2, <1>3, <1>4, <1>5 DEF FlushStep, CreateFails

\* A new start replays once more.
LEMMA CopiesMain ==
  ASSUME CopiesInv, MainStep
  PROVE  OneFile' /\ SpoolRows' /\ RowsPerStart'
<1> USE DEF CopiesInv, PlaceInv, writerVars
<1>1. CASE BeginShutdown \/ CloseWriter \/ ShutdownTimeout \/ Return
  BY <1>1, CopiesFrame
     DEF BeginShutdown, CloseWriter, ShutdownTimeout, Return, Replayable
<1>2. CASE ProcessEnds
  BY <1>2, CopiesFrame DEF ProcessEnds, Replayable
<1>3. CASE StartProcess
  <2>1. starts \in Nat /\ starts >= 1 /\ \A c \in Clicks : rows[c] \in Nat
    BY SizesAssumption DEF TypeOK
  <2>2. UNCHANGED <<rows, spool>> /\ starts' = starts + 1
    BY <1>3 DEF StartProcess
  <2>3. \A f \in spool : f.readable \subseteq Clicks
    BY DEF TypeOK, File
  <2>4. OneFile' /\ RowsPerStart'
    BY <2>1, <2>2 DEF OneFile, RowsPerStart
  <2>5. SpoolRows'
    BY <2>1, <2>2, <2>3 DEF SpoolRows
  <2> QED
    BY <2>4, <2>5
<1> QED
  BY <1>1, <1>2, <1>3 DEF MainStep

\* Every step keeps the inductive invariant.
LEMMA CopiesNext ==
  ASSUME CopiesInv, [Next]_vars, ~AmbiguousCommit, ~DiskFaults
  PROVE  CopiesInv'
<1>1. PlaceInv'
  BY PlaceNext DEF CopiesInv
<1>2. CASE UNCHANGED vars \/ LoopStep \/ \E c \in Clicks : Arrive(c) \/ Enqueue(c)
  <2>1. UNCHANGED <<rows, spool, starts, todo>>
    BY <1>2 DEF vars, writerVars, mainVars, LoopStep, Tick, SeesCancel, LastFlush,
                Receive, Arrive, Enqueue
  <2>2. pc' # pc => pc' \notin {"start", "remove"} /\ pc \notin {"start", "replay", "replaying", "remove"}
    BY <1>2 DEF vars, writerVars, LoopStep, Tick, SeesCancel, LastFlush, Receive, Arrive, Enqueue
  <2>3. pc' = pc => file' = file
    BY <1>2 DEF vars, writerVars, LoopStep, Tick, SeesCancel, LastFlush, Receive, Arrive, Enqueue
  <2>4. pc' # pc => todo = {}
    BY <2>2 DEF CopiesInv, PlaceInv, FilesAreThere
  <2>5. \A f \in spool : Replayable(f)' => Replayable(f)
    BY <2>1, <2>2, <2>3, <2>4 DEF Replayable
  <2> QED
    BY <1>1, <2>1, <2>5, CopiesFrame DEF CopiesInv
<1>3. CASE ReplayStep \/ FlushStep \/ MainStep
  BY <1>1, <1>3, CopiesReplay, CopiesFlush, CopiesMain DEF CopiesInv
<1> QED
  BY <1>2, <1>3 DEF Next, WriterStep

\* With a database and a disk that tell the truth a click has one row, and
\* one more at most for each restart that found a file already replayed
\* (replaySpool), for any number of clicks and restarts.
THEOREM CopiesAreBounded == Spec => []CopiesBounded
<1>1. CASE AmbiguousCommit \/ DiskFaults
  BY <1>1, PTL DEF CopiesBounded
<1>2. CASE ~AmbiguousCommit /\ ~DiskFaults
  <2>1. Init => CopiesInv
    BY PlaceInit DEF Init, CopiesInv, OneFile, SpoolRows, RowsPerStart
  <2>2. CopiesInv /\ [Next]_vars => CopiesInv'
    BY <1>2, CopiesNext
  <2>3. CopiesInv => CopiesBounded
    BY DEF CopiesInv, RowsPerStart, CopiesBounded
  <2> QED
    BY <2>1, <2>2, <2>3, PTL DEF Spec
<1> QED
  BY <1>1, <1>2

-----------------------------------------------------------------------------
(* Rows, whatever fails.                                                   *)

\* The batch has a row for each attempt that reported an error although its
\* COMMIT took effect; what waits for the batch has none, and nothing that is
\* in memory is in a file.
Attempted ==
  /\ queue \cap batch = {}
  /\ \A c \in queue : rows[c] = 0
  /\ \A c \in batch : rows[c] <= IF pc = "insert" THEN attempt
                                 ELSE IF pc \in {"spool", "write"} THEN LastAttempt + 1
                                 ELSE 0
  /\ pc \notin {"insert", "spool", "write"} => attempt = 0
  /\ \A f \in spool : f.readable \cap InMemory = {}

\* A click in the spool has the rows of its flush, and one for each start
\* after the one it was spooled in, this one included if its file is done.
SpoolAttempts ==
  \A f \in spool : \A c \in f.readable :
    /\ rows[c] <= LastAttempt + starts
    /\ Replayable(f) => rows[c] <= LastAttempt + starts - 1

\* The inductive invariant.
RowsInv ==
  TypeOK /\ Entered /\ FilesAreThere /\ OneFile /\ Attempted /\ SpoolAttempts /\ RowsBounded

\* What the steps of this section are shown to keep.
RowParts == OneFile /\ Attempted /\ SpoolAttempts /\ RowsBounded

\* A step that touches neither files, rows nor memory, and replays nothing anew.
LEMMA RowsFrame ==
  ASSUME RowsInv, UNCHANGED <<rows, spool, starts, queue, batch, attempt>>,
         \A f \in spool : Replayable(f)' => Replayable(f),
         pc' # pc => pc \notin {"insert", "spool", "write"} /\ pc' \notin {"spool", "write"}
  PROVE  RowParts'
<1>1. attempt \in Nat /\ \A c \in batch : rows[c] \in Nat
  BY DEF RowsInv, TypeOK, LastAttempt
<1>2. Attempted'
  BY <1>1 DEF RowsInv, Attempted, InMemory
<1> QED
  BY <1>2 DEF RowsInv, RowParts, OneFile, SpoolAttempts, RowsBounded

\* Everything stays entered if nothing comes from nowhere.
LEMMA StillEntered ==
  ASSUME Entered, fate' = fate,
         (InMemory \cup Kept \cup dropped \cup lost)'
           \subseteq InMemory \cup Kept \cup dropped \cup lost
  PROVE  Entered'
BY DEF Entered

\* The replay inserts a file at most once in a start.
LEMMA RowsReplay ==
  ASSUME RowsInv, ReplayStep
  PROVE  RowsInv'
<1> USE DEF RowsInv, mainVars
<1>1. TypeOK'
  BY TypeReplay
<1>2. /\ UNCHANGED <<fate, queue, dropped, lost, batch, attempt, starts>>
      /\ pc \in {"start", "replay", "replaying", "remove"}
      /\ pc' \in {"replay", "replaying", "remove", "select"}
  BY DEF ReplayStep, ListSpool, ReplayCommits, ReplayFails, RemoveFile, ReplayEnds,
         OpenFile, OpenFails
<1>3. CASE ListSpool \/ ReplayEnds \/ \E f \in todo : OpenFile(f) \/ OpenFails(f)
  <2>1. /\ UNCHANGED <<rows, spool>>
        /\ \A f \in spool : Replayable(f)' => Replayable(f)
    BY <1>3 DEF ListSpool, ReplayEnds, OpenFile, OpenFails, Replayable
  <2>2. RowParts'
    BY <1>2, <2>1, RowsFrame
  <2>3. FilesAreThere'
    BY <1>3 DEF ListSpool, ReplayEnds, OpenFile, OpenFails, FilesAreThere
  <2>4. Entered'
    BY <1>2, <2>1, StillEntered DEF InMemory, Kept, InSpool, InDatabase
  <2> QED
    BY <1>1, <2>2, <2>3, <2>4 DEF RowParts
<1>4. CASE ReplayCommits \/ ReplayFails
  <2>1. /\ pc = "replaying" /\ spool' = spool
        /\ rows' = Inserted(decoded) \/ rows' = rows
        /\ \/ pc' = "remove" /\ UNCHANGED <<todo, file>>
           \/ pc' = "replay" /\ todo' = todo \ {file}
    BY <1>4 DEF ReplayCommits, ReplayFails
  <2>2. /\ file \in spool /\ Replayable(file)
        /\ decoded \subseteq file.readable /\ file.readable \subseteq Clicks
    BY <2>1 DEF FilesAreThere, Replayable, TypeOK, File
  <2>3. /\ starts \in Nat
        /\ \A c \in Clicks : rows[c] \in Nat
        /\ \A c \in Clicks \ file.readable : rows'[c] = rows[c]
        /\ \A c \in file.readable : /\ rows'[c] \in {rows[c], rows[c] + 1}
                                    /\ rows[c] <= LastAttempt + starts - 1
    BY <2>1, <2>2 DEF TypeOK, Inserted, SpoolAttempts
  <2>4. OneFile'
    BY <2>1 DEF OneFile
  <2>5. RowsBounded'
    BY <1>2, <2>2, <2>3 DEF RowsBounded, LastAttempt
  <2>6. Attempted'
    <3>1. \A c \in queue \cup batch : c \in Clicks /\ rows'[c] = rows[c]
      BY <2>2, <2>3 DEF Attempted, InMemory, TypeOK
    <3> QED
      BY <1>2, <2>1, <3>1 DEF Attempted, InMemory
  <2>7. ASSUME NEW f \in spool, NEW c \in f.readable
        PROVE  /\ rows'[c] <= LastAttempt + starts
               /\ Replayable(f)' => rows'[c] <= LastAttempt + starts - 1
    <3>1. c \in Clicks
      BY DEF TypeOK, File
    <3>2. CASE f = file
      BY <2>1, <2>2, <2>3, <3>2 DEF Replayable, LastAttempt
    <3>3. CASE f # file
      <4>1. c \notin file.readable
        BY <2>2, <3>3 DEF OneFile
      <4>2. Replayable(f)' => Replayable(f)
        BY <2>1 DEF Replayable
      <4> QED
        BY <2>3, <3>1, <4>1, <4>2 DEF SpoolAttempts
    <3> QED
      BY <3>2, <3>3
  <2>8. SpoolAttempts'
    BY <1>2, <2>1, <2>7 DEF SpoolAttempts
  <2>9. Entered'
    <3>1. InDatabase' \subseteq InDatabase \cup decoded
      BY <2>1, <2>2, InsertedRows DEF InDatabase, TypeOK
    <3>2. InSpool' = InSpool /\ decoded \subseteq InSpool
      BY <2>1, <2>2 DEF InSpool
    <3> QED
      BY <1>2, <3>1, <3>2, StillEntered DEF InMemory, Kept
  <2>10. FilesAreThere'
    BY <1>4 DEF ReplayCommits, ReplayFails, FilesAreThere
  <2> QED
    BY <1>1, <2>4, <2>5, <2>6, <2>8, <2>9, <2>10
<1>5. CASE RemoveFile
  <2>1. /\ pc = "remove" /\ pc' = "replay" /\ spool' \subseteq spool
        /\ spool \ {file} \subseteq spool'
        /\ todo' = todo \ {file} /\ UNCHANGED rows
    BY <1>5 DEF RemoveFile
  <2>2. \A f \in spool' : Replayable(f)' => Replayable(f)
    BY <2>1 DEF Replayable
  <2>3. OneFile' /\ Attempted' /\ SpoolAttempts' /\ RowsBounded'
    BY <1>2, <2>1, <2>2 DEF OneFile, Attempted, SpoolAttempts, RowsBounded, InMemory
  <2>4. Entered'
    BY <1>2, <2>1, StillEntered DEF InMemory, Kept, InSpool, InDatabase
  <2>5. FilesAreThere'
    BY <1>5, <2>1 DEF RemoveFile, FilesAreThere
  <2> QED
    BY <1>1, <2>3, <2>4, <2>5
<1> QED
  BY <1>3, <1>4, <1>5 DEF ReplayStep

\* A click enters the queue once, without a row and in no file.
LEMMA RowsHandlers ==
  ASSUME RowsInv, NEW c \in Clicks, Arrive(c) \/ Enqueue(c)
  PROVE  RowsInv'
<1> USE DEF RowsInv
<1>1. /\ UNCHANGED <<rows, spool, starts, batch, attempt, pc, todo, file, decoded, lost>>
      /\ FilesAreThere' /\ Kept' = Kept
  BY DEF Arrive, Enqueue, writerVars, mainVars, FilesAreThere, Kept, InSpool, InDatabase
<1>2. TypeOK'
  BY TypeHandlers
<1>3. OneFile' /\ SpoolAttempts' /\ RowsBounded'
  BY <1>1 DEF OneFile, SpoolAttempts, RowsBounded, Replayable
<1>4. /\ fate[c] \in {"new", "active"}
      /\ \A d \in Clicks : d # c => fate'[d] = fate[d]
      /\ \/ queue' = queue /\ dropped' = dropped
         \/ /\ fate[c] = "active" /\ fate'[c] \in {"accepted", "refused"}
            /\ \/ queue' = queue \cup {c} /\ dropped' = dropped
               \/ queue' = queue /\ dropped' = dropped \cup {c}
  BY DEF Arrive, Enqueue, Accepted, Refused, Panics, Becomes, TypeOK
<1>5. c \notin InMemory \cup Kept \cup dropped \cup lost
  BY <1>4 DEF Entered
<1>6. rows[c] = 0 /\ \A f \in spool : c \notin f.readable
  BY <1>5 DEF Kept, InSpool, InDatabase, TypeOK
<1>7. Attempted'
  BY <1>1, <1>4, <1>5, <1>6 DEF Attempted, InMemory
<1>8. InMemory \cup Kept \cup dropped \cup lost \subseteq Clicks
  BY PlaceTypes DEF TypeOK
<1>9. Entered'
  BY <1>1, <1>4, <1>5, <1>8 DEF Entered, InMemory
<1> QED
  BY <1>1, <1>2, <1>3, <1>7, <1>9

\* Receive moves a click that has no row.
LEMMA RowsLoop ==
  ASSUME RowsInv, LoopStep
  PROVE  RowsInv'
<1> USE DEF RowsInv
<1>1. TypeOK'
  BY TypeLoop
<1>2. /\ UNCHANGED <<rows, spool, starts, attempt, todo, file, decoded, fate, lost>>
      /\ pc \in {"select", "drain"} /\ pc' \in {"select", "drain", "insert", "done"}
      /\ todo = {} /\ FilesAreThere'
  BY DEF LoopStep, Tick, SeesCancel, LastFlush, Receive, mainVars, FilesAreThere
<1>3. \A f \in spool : Replayable(f)' => Replayable(f)
  BY <1>2 DEF Replayable
<1>4. /\ InMemory' \cup dropped' = InMemory \cup dropped
      /\ InMemory' \subseteq InMemory /\ queue' \cap batch' = {}
      /\ queue' \subseteq queue /\ batch' \subseteq batch \cup queue
  BY DEF LoopStep, Tick, SeesCancel, LastFlush, Receive, Enriched, InMemory, Attempted
<1>5. OneFile' /\ SpoolAttempts' /\ RowsBounded'
  BY <1>2, <1>3 DEF OneFile, SpoolAttempts, RowsBounded
<1>6. Attempted'
  <2>1. attempt = 0 /\ \A c \in batch \cup queue : c \in Clicks /\ rows[c] \in Nat /\ rows[c] <= 0
    BY <1>2 DEF Attempted, TypeOK
  <2> QED
    BY <1>2, <1>4, <2>1 DEF Attempted
<1>7. Entered'
  BY <1>2, <1>4, StillEntered DEF Kept, InSpool, InDatabase
<1> QED
  BY <1>1, <1>2, <1>5, <1>6, <1>7

\* flush makes LastAttempt + 1 attempts, and spools what is in no file.
LEMMA RowsFlush ==
  ASSUME RowsInv, FlushStep
  PROVE  RowsInv'
<1> USE DEF RowsInv, mainVars
<1>1. TypeOK'
  BY TypeFlush
<1>2. /\ UNCHANGED <<starts, fate, lost, queue, todo>>
      /\ pc \in {"insert", "spool", "write"} /\ todo = {}
      /\ pc' \in {"insert", "spool", "write", "done", "select"}
      /\ batch' \subseteq batch
  BY DEF FlushStep, InsertCommits, InsertFails, CreateFile, CreateFails, CloseFile,
         WriteRecord, Flushed, FilesAreThere
<1>3. \A f : ~Replayable(f) /\ ~Replayable(f)'
  BY <1>2 DEF Replayable
<1>4. /\ starts \in Nat /\ starts >= 1 /\ attempt \in 0..LastAttempt
      /\ \A c \in Clicks : rows[c] \in Nat
      /\ batch \subseteq Clicks /\ queue \subseteq Clicks
      /\ \A f \in spool : f.readable \subseteq Clicks
  BY DEF TypeOK, File
<1>5. CASE InsertCommits \/ InsertFails
  <2>1. /\ rows' = Inserted(batch) \/ rows' = rows
        /\ pc = "insert" /\ spool' = spool
        /\ \/ batch' = {} /\ attempt' = 0 /\ pc' \notin {"insert", "spool", "write"}
           \/ /\ batch' = batch /\ attempt' = attempt + 1 /\ pc' = "insert"
           \/ /\ batch' = batch /\ attempt' = attempt /\ attempt = LastAttempt /\ pc' = "spool"
    BY <1>4, <1>5 DEF InsertCommits, InsertFails, Flushed, LastAttempt
  <2>2. /\ \A c \in Clicks \ batch : rows'[c] = rows[c]
        /\ \A c \in batch : rows'[c] \in Nat /\ rows'[c] <= attempt + 1
    BY <1>4, <2>1 DEF Inserted, Attempted
  <2>3. Attempted'
    <3>1. /\ queue' \cap batch' = {} /\ \A c \in queue : rows'[c] = 0
          /\ \A f \in spool : f.readable \cap InMemory' = {}
      BY <1>2, <1>4, <2>1, <2>2 DEF Attempted, InMemory
    <3>2. \A c \in batch' : rows'[c] <= IF pc' = "insert" THEN attempt'
                                 ELSE IF pc' \in {"spool", "write"} THEN LastAttempt + 1
                                 ELSE 0
      BY <2>1, <2>2
    <3>3. pc' \notin {"insert", "spool", "write"} => attempt' = 0
      BY <2>1
    <3> QED
      BY <1>2, <2>1, <3>1, <3>2, <3>3 DEF Attempted
  <2>4. \A f \in spool : \A c \in f.readable : rows'[c] = rows[c]
    BY <1>4, <2>2 DEF Attempted, InMemory
  <2>5. SpoolAttempts' /\ OneFile'
    BY <1>2, <1>3, <2>1, <2>4 DEF SpoolAttempts, OneFile
  <2>6. RowsBounded'
    BY <1>2, <1>4, <2>2 DEF RowsBounded, LastAttempt
  <2>7. FilesAreThere'
    BY <1>2, <1>5, <2>1 DEF FilesAreThere, InsertCommits, InsertFails
  <2>8. Entered'
    <3>1. InDatabase' \subseteq InDatabase \cup batch
      BY <1>4, <2>1, InsertedRows DEF InDatabase, TypeOK
    <3>2. InSpool' = InSpool /\ dropped' = dropped
      BY <1>5, <2>1 DEF InSpool, InsertCommits, InsertFails
    <3> QED
      BY <1>2, <3>1, <3>2, StillEntered DEF InMemory, Kept
  <2> QED
    BY <1>1, <2>3, <2>5, <2>6, <2>7, <2>8
<1>6. CASE CreateFile \/ CreateFails \/ CloseFile
  <2>1. /\ rows' = rows /\ spool \subseteq spool'
        /\ \A f \in spool' \ spool : f.readable = {}
        /\ \/ pc' = "write" /\ pc = "spool" /\ attempt' = attempt /\ file' \in spool'
           \/ batch' = {} /\ attempt' = 0 /\ pc' \notin {"insert", "spool", "write"}
    BY <1>6 DEF CreateFile, CreateFails, CloseFile, Flushed, NoFile
  <2>2. Attempted'
    BY <1>2, <2>1 DEF Attempted, InMemory
  <2>3. OneFile' /\ SpoolAttempts' /\ RowsBounded'
    BY <1>2, <1>3, <2>1 DEF OneFile, SpoolAttempts, RowsBounded
  <2>4. FilesAreThere'
    BY <1>2, <1>6, <2>1 DEF FilesAreThere, CreateFile, CreateFails, CloseFile, Flushed
  <2>5. Entered'
    <3>1. InSpool' = InSpool
      BY <2>1 DEF InSpool
    <3>2. dropped' \subseteq dropped \cup batch
      BY <1>6 DEF CreateFile, CreateFails, CloseFile
    <3> QED
      BY <1>2, <2>1, <3>1, <3>2, StillEntered DEF InMemory, Kept, InDatabase
  <2> QED
    BY <1>1, <2>2, <2>3, <2>4, <2>5
<1>7. ASSUME NEW c \in Clicks, WriteRecord(c) PROVE RowsInv'
  <2>1. /\ c \in batch /\ batch' = batch \ {c} /\ pc = "write" /\ pc' = pc
        /\ file \in spool /\ spool' = (spool \ {file}) \cup {file'}
        /\ UNCHANGED <<rows, attempt, dropped>>
    BY <1>7 DEF WriteRecord, FilesAreThere
  <2>2. file'.readable \subseteq file.readable \cup {c}
    BY <1>7 DEF WriteRecord, TypeOK, File
  <2>3. /\ rows[c] <= LastAttempt + starts /\ \A f \in spool : c \notin f.readable
    BY <1>4, <2>1 DEF Attempted, InMemory, LastAttempt
  <2>4. OneFile'
    BY <2>1, <2>2, <2>3 DEF OneFile
  <2>5. SpoolAttempts' /\ RowsBounded'
    BY <1>2, <1>3, <2>1, <2>2, <2>3 DEF SpoolAttempts, RowsBounded
  <2>6. Attempted'
    <3>1. c \notin InMemory' /\ InMemory' \subseteq InMemory
      BY <1>2, <2>1 DEF Attempted, InMemory
    <3>2. \A f \in spool' : f.readable \cap InMemory' = {}
      BY <2>1, <2>2, <3>1 DEF Attempted
    <3> QED
      BY <1>2, <2>1, <3>2 DEF Attempted
  <2>7. FilesAreThere'
    BY <1>2, <1>7, <2>1 DEF FilesAreThere, WriteRecord
  <2>8. Entered'
    <3>1. InSpool' \subseteq InSpool \cup {c}
      BY <2>1, <2>2 DEF InSpool
    <3> QED
      BY <1>2, <2>1, <3>1, StillEntered DEF InMemory, Kept, InDatabase
  <2> QED
    BY <1>1, <2>4, <2>5, <2>6, <2>7, <2>8
<1> QED
  BY <1>5, <1>6, <1>7 DEF FlushStep

\* A new start replays once more.
LEMMA RowsMain ==
  ASSUME RowsInv, MainStep
  PROVE  RowsInv'
<1> USE DEF RowsInv, writerVars
<1>1. TypeOK'
  BY TypeMain
<1>2. UNCHANGED <<rows, spool, dropped>> /\ Kept' = Kept
  BY DEF MainStep, BeginShutdown, CloseWriter, ShutdownTimeout, Return, ProcessEnds,
         StartProcess, Kept, InSpool, InDatabase
<1>3. CASE BeginShutdown \/ CloseWriter \/ ShutdownTimeout \/ Return
  <2>1. UNCHANGED <<starts, queue, batch, attempt, pc, todo, file, decoded, fate, lost>>
        /\ main' # "exited"
    BY <1>3 DEF BeginShutdown, CloseWriter, ShutdownTimeout, Return
  <2>2. RowParts'
    BY <1>2, <2>1, RowsFrame DEF Replayable
  <2> QED
    BY <1>1, <1>2, <2>1, <2>2 DEF RowParts, Entered, FilesAreThere, InMemory
<1>4. CASE ProcessEnds
  <2>1. /\ starts' = starts /\ queue' = {} /\ batch' = {} /\ attempt' = 0 /\ pc' = "down"
        /\ todo' = {} /\ lost' = lost \cup InMemory
    BY <1>4 DEF ProcessEnds, InMemory
  <2>2. \A f : ~Replayable(f)'
    BY <2>1 DEF Replayable
  <2>3. OneFile' /\ Attempted' /\ SpoolAttempts' /\ RowsBounded'
    BY <1>2, <2>1, <2>2 DEF OneFile, Attempted, SpoolAttempts, RowsBounded, InMemory
  <2>4. FilesAreThere'
    BY <2>1 DEF FilesAreThere
  <2>5. \A c \in Clicks : fate[c] \in {"accepted", "refused"} => fate'[c] = fate[c]
    BY <1>4 DEF ProcessEnds
  <2>6. Entered'
    BY <1>2, <2>1, <2>5, PlaceTypes DEF Entered, InMemory, TypeOK
  <2> QED
    BY <1>1, <2>3, <2>4, <2>6
<1>5. CASE StartProcess
  <2>1. /\ starts \in Nat /\ starts >= 1 /\ \A c \in Clicks : rows[c] \in Nat
        /\ \A f \in spool : f.readable \subseteq Clicks
    BY DEF TypeOK, File
  <2>2. /\ starts' = starts + 1 /\ pc = "down" /\ pc' = "start" /\ main' # "exited"
        /\ UNCHANGED <<fate, queue, batch, attempt, todo, lost>>
    BY <1>5 DEF StartProcess, FilesAreThere
  <2>3. OneFile' /\ SpoolAttempts' /\ RowsBounded'
    BY <1>2, <2>1, <2>2 DEF OneFile, SpoolAttempts, RowsBounded, LastAttempt
  <2>4. Attempted' /\ Entered' /\ FilesAreThere'
    BY <1>2, <2>2 DEF Attempted, Entered, FilesAreThere, InMemory
  <2> QED
    BY <1>1, <2>3, <2>4
<1> QED
  BY <1>3, <1>4, <1>5 DEF MainStep

\* Whatever COMMIT, the disk, crashes and restarts do, a click has at most one
\* row for each of the four attempts of the flush that took it, and one for
\* each later start (flush, replaySpool): neither a retry nor a replay runs
\* away, and no two files and no batch share a click.
THEOREM AttemptsBoundRows == Spec => []RowsBounded
<1>1. Init => RowsInv
  <2> SUFFICES ASSUME Init PROVE RowsInv
    OBVIOUS
  <2>1. PlaceInv
    BY PlaceInit
  <2>2. OneFile /\ Attempted /\ SpoolAttempts
    BY DEF Init, OneFile, Attempted, SpoolAttempts
  <2>3. RowsBounded
    BY DEF Init, RowsBounded, LastAttempt
  <2> QED
    BY <2>1, <2>2, <2>3 DEF RowsInv, PlaceInv
<1>2. RowsInv /\ [Next]_vars => RowsInv'
  <2> SUFFICES ASSUME RowsInv, [Next]_vars PROVE RowsInv'
    OBVIOUS
  <2>1. CASE UNCHANGED vars
    <3>1. TypeOK'
      BY <2>1, TypeNext DEF RowsInv
    <3>2. Entered' /\ FilesAreThere'
      BY <2>1 DEF RowsInv, vars, writerVars, mainVars, Entered, FilesAreThere, InMemory,
                  Kept, InSpool, InDatabase
    <3>3. RowParts'
      BY <2>1, RowsFrame DEF vars, writerVars, mainVars, Replayable
    <3> QED
      BY <3>1, <3>2, <3>3 DEF RowsInv, RowParts
  <2>2. CASE Next
    BY <2>2, RowsHandlers, RowsReplay, RowsLoop, RowsFlush, RowsMain DEF Next, WriterStep
  <2> QED
    BY <2>1, <2>2
<1>3. RowsInv => RowsBounded
  BY DEF RowsInv
<1> QED
  BY <1>1, <1>2, <1>3, PTL DEF Spec

-----------------------------------------------------------------------------
(* Graceful exits.  That nothing is lost when main returns in time rests   *)
(* on the order of its steps: the channel is closed before the last flush  *)
(* begins, so that what that flush leaves behind stays empty.              *)

ExitOrder ==
  /\ main \in {"closing", "returning"} => closed
  /\ cancelled => closed
  /\ pc = "drain" => cancelled
  /\ stopping => closed /\ queue = {}
  /\ pc = "done" => stopping /\ batch = {}
  /\ main = "returning" /\ ~expired => pc = "done"

\* A handler that comes after Close panics, and before Close nothing has ended.
LEMMA ExitHandlers ==
  ASSUME ExitOrder, NEW c \in Clicks, Arrive(c) \/ Enqueue(c)
  PROVE  ExitOrder'
<1>1. UNCHANGED <<batch, pc, stopping, main, closed, cancelled, expired>>
  BY DEF Arrive, Enqueue, writerVars, mainVars
<1>2. queue' = queue \/ ~closed
  BY DEF Arrive, Enqueue, Accepted, Refused, Panics
<1> QED
  BY <1>1, <1>2 DEF ExitOrder

\* The writer is done when its last flush is, and not before.
LEMMA ExitWriter ==
  ASSUME ExitOrder, WriterStep
  PROVE  ExitOrder'
<1>0. UNCHANGED <<main, closed, cancelled, expired>> /\ pc # "done"
  BY DEF WriterStep, ReplayStep, LoopStep, FlushStep, ListSpool, OpenFile, OpenFails,
         ReplayCommits, ReplayFails, RemoveFile, ReplayEnds, Receive, Tick, SeesCancel, LastFlush,
         InsertCommits, InsertFails, CreateFile, CreateFails, WriteRecord, CloseFile, mainVars
<1>1. CASE ReplayStep
  <2>1. UNCHANGED <<queue, stopping>> /\ pc' \notin {"drain", "done"}
    BY <1>1 DEF ReplayStep, ListSpool, OpenFile, OpenFails, ReplayCommits, ReplayFails,
                RemoveFile, ReplayEnds
  <2> QED
    BY <1>0, <2>1 DEF ExitOrder
<1>2. ASSUME NEW c \in Clicks, Receive(c) PROVE ExitOrder'
  <2>1. /\ UNCHANGED stopping /\ c \in queue
        /\ pc \in {"select", "drain"} /\ pc' \in {pc, "insert"}
    BY <1>2 DEF Receive
  <2> QED
    BY <1>0, <2>1 DEF ExitOrder
<1>3. CASE Tick \/ SeesCancel
  BY <1>0, <1>3 DEF Tick, SeesCancel, ExitOrder
<1>4. CASE LastFlush
  BY <1>0, <1>4 DEF LastFlush, ExitOrder
<1>5. CASE FlushStep
  <2>1. /\ UNCHANGED <<queue, stopping>> /\ pc' # "drain"
        /\ pc' = "done" => stopping /\ batch' = {}
    BY <1>5 DEF FlushStep, InsertCommits, InsertFails, CreateFile, CreateFails, WriteRecord,
                CloseFile, Flushed
  <2> QED
    BY <1>0, <2>1 DEF ExitOrder
<1> QED
  BY <1>1, <1>2, <1>3, <1>4, <1>5 DEF WriterStep, LoopStep

\* Close comes before the wait, the wait before clickCancel and the return.
LEMMA ExitMain ==
  ASSUME ExitOrder, MainStep
  PROVE  ExitOrder'
<1>1. CASE BeginShutdown \/ CloseWriter \/ ShutdownTimeout \/ Return
  <2>1. UNCHANGED <<queue, batch, pc, stopping>>
    BY <1>1 DEF BeginShutdown, CloseWriter, ShutdownTimeout, Return, writerVars
  <2> QED
    BY <1>1, <2>1 DEF BeginShutdown, CloseWriter, ShutdownTimeout, Return, ExitOrder
<1>2. CASE ProcessEnds
  BY <1>2 DEF ProcessEnds, ExitOrder
<1>3. CASE StartProcess
  BY <1>3 DEF StartProcess, ExitOrder
<1> QED
  BY <1>1, <1>2, <1>3 DEF MainStep

\* A shutdown that waited for Done without running into its timeout loses no
\* accepted click (Close, Run and Done of writer.go, main.go's wait), with any
\* faults of database and disk before.
THEOREM GracefulExitsLoseNothing == Spec => GracefulExitLosesNothing
<1>1. Init => ExitOrder
  BY DEF Init, ExitOrder
<1>2. ExitOrder /\ [Next]_vars => ExitOrder'
  <2> SUFFICES ASSUME ExitOrder, [Next]_vars PROVE ExitOrder'
    OBVIOUS
  <2>1. CASE UNCHANGED vars
    BY <2>1 DEF vars, writerVars, mainVars, ExitOrder
  <2> QED
    BY <2>1, ExitHandlers, ExitWriter, ExitMain DEF Next
<1>3. ExitOrder /\ [Next]_vars
        => [main = "returning" /\ ~expired /\ main' = "exited" => lost' = lost]_vars
  <2> SUFFICES ASSUME ExitOrder, Next, main = "returning", ~expired, main' = "exited"
               PROVE  lost' = lost
    OBVIOUS
  <2>1. ProcessEnds
    <3>1. ASSUME NEW c \in Clicks, Arrive(c) \/ Enqueue(c) PROVE main' = main
      BY <3>1 DEF Arrive, Enqueue, mainVars
    <3>2. CASE WriterStep
      BY <3>2 DEF WriterStep, ReplayStep, LoopStep, FlushStep, ListSpool, OpenFile,
                  OpenFails, ReplayCommits, ReplayFails, RemoveFile, ReplayEnds, Receive, Tick,
                  SeesCancel, LastFlush, InsertCommits, InsertFails, CreateFile,
                  CreateFails, WriteRecord, CloseFile, mainVars
    <3>3. CASE MainStep
      BY <3>3 DEF MainStep, BeginShutdown, CloseWriter, ShutdownTimeout, Return, StartProcess
    <3> QED
      BY <3>1, <3>2, <3>3 DEF Next
  <2>2. queue = {} /\ batch = {}
    BY DEF ExitOrder
  <2> QED
    BY <2>1, <2>2 DEF ProcessEnds
<1> QED
  BY <1>1, <1>2, <1>3, PTL DEF Spec, GracefulExitLosesNothing

=============================================================================
