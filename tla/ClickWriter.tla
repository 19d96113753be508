---------------------------- MODULE ClickWriter ----------------------------
(***************************************************************************)
(* The asynchronous click pipeline, internal/click/writer.go: redirect     *)
(* handlers put events on a buffered channel without ever blocking; one    *)
(* writer goroutine batches them into the database, retries, and spools a  *)
(* batch to disk when the database stays away; the next start of the       *)
(* process replays the spool.  The module also has the process around it   *)
(* (cmd/shortr/main.go): graceful shutdown with its timeout, crashes at    *)
(* any step, and restarts.                                                 *)
(*                                                                         *)
(* A click is an identity: what enrich computes about it is left out.  The *)
(* order of clicks in the channel and in a batch decides nothing here, so  *)
(* both are sets; the order in a spool file matters only through "a broken *)
(* record hides the records after it".  Each click is in at most one batch *)
(* that is spooled, so a spool file is named by the batch it was made for. *)
(***************************************************************************)
EXTENDS Integers, FiniteSets

CONSTANTS
  Clicks,          \* the redirects that record a click
  QueueSize,       \* capacity of the channel
  BatchSize,       \* events that make a full batch
  MaxStarts,       \* bound: starts of the process
  AmbiguousCommit, \* may COMMIT report an error after it took effect?
  DiskFaults       \* may operations on the spool directory fail?

ASSUME SizesAssumption ==
  /\ QueueSize \in Nat \ {0}
  /\ BatchSize \in Nat \ {0}
  /\ MaxStarts \in Nat \ {0}
  /\ IsFiniteSet(Clicks)

ASSUME FaultsAssumption == AmbiguousCommit \in BOOLEAN /\ DiskFaults \in BOOLEAN

\* flush makes one attempt for each of its backoffs: 0, 100ms, 500ms, 2s.
LastAttempt == 3

VARIABLES
  fate,      \* what happened to each click at its handler
  queue,     \* the buffered channel w.ch
  closed,    \* Close was called on it
  cancelled, \* clickCancel was called: the writer's ctx is done
  batch,     \* the writer's batch; while it is spooled, what is unwritten
  pc,        \* where the writer goroutine is
  attempt,   \* flush's attempt
  stopping,  \* the flush in progress is the last one, Run returns after it
  spool,     \* the files of the spool directory
  todo,      \* the files replaySpool has listed and not yet been through
  file,      \* the file being replayed or written
  decoded,   \* replayFile's batch: the records it has decoded
  rows,      \* how many rows of the clicks table stand for each click
  dropped,   \* clicks counted by IncClicksDropped
  lost,      \* ghost: accepted clicks that were in memory at a process end
  torn,      \* ghost: clicks of which no readable record was written
  unread,    \* ghost: clicks whose file was removed although their record had
             \* not been read
  main,      \* where main is
  expired,   \* the shutdown timeout has passed
  starts     \* starts of the process so far

writerVars == <<batch, pc, attempt, stopping, spool, todo, file, decoded, rows, torn,
                unread>>
mainVars   == <<main, closed, cancelled, expired, starts, lost>>
vars       == <<fate, queue, dropped, writerVars, mainVars>>

-----------------------------------------------------------------------------
File   == [for : SUBSET Clicks, readable : SUBSET Clicks, broken : BOOLEAN]
Fates == {"new", "active", "accepted", "refused", "panicked", "gone"}

WriterSteps == {"start", "replay", "replaying", "remove", "select", "drain",
                "insert", "spool", "write", "done", "down"}

NoFile == [for |-> {}, readable |-> {}, broken |-> FALSE]

TypeOK ==
  /\ fate \in [Clicks -> Fates]
  /\ queue \in SUBSET Clicks /\ Cardinality(queue) <= QueueSize
  /\ batch \in SUBSET Clicks
  /\ dropped \in SUBSET Clicks /\ lost \in SUBSET Clicks /\ torn \in SUBSET Clicks
  /\ pc \in WriterSteps
  /\ attempt \in 0..LastAttempt
  /\ spool \in SUBSET File /\ todo \in SUBSET File /\ file \in File
  /\ decoded \in SUBSET Clicks /\ unread \in SUBSET Clicks
  /\ rows \in [Clicks -> Nat]
  /\ main \in {"up", "draining", "closing", "returning", "exited"}
  /\ starts \in 1..MaxStarts
  /\ closed \in BOOLEAN /\ cancelled \in BOOLEAN
  /\ stopping \in BOOLEAN /\ expired \in BOOLEAN

Init ==
  /\ fate = [c \in Clicks |-> "new"]
  /\ queue = {} /\ batch = {} /\ dropped = {} /\ lost = {} /\ torn = {}
  /\ pc = "start" /\ attempt = 0 /\ stopping = FALSE
  /\ spool = {} /\ todo = {} /\ file = NoFile
  /\ decoded = {} /\ unread = {}
  /\ rows = [c \in Clicks |-> 0]
  /\ main = "up" /\ starts = 1
  /\ closed = FALSE /\ cancelled = FALSE /\ expired = FALSE

-----------------------------------------------------------------------------
(* The redirect handlers.                                                  *)

\* A GET is being handled; Shutdown lets no new request in.
Arrive(c) ==
  /\ main = "up"
  /\ fate[c] = "new"
  /\ fate' = [fate EXCEPT ![c] = "active"]
  /\ UNCHANGED <<queue, dropped, writerVars, mainVars>>

Becomes(c, f) == fate[c] = "active" /\ fate' = [fate EXCEPT ![c] = f]

\* Enqueue returns true.
Accepted(c) ==
  /\ ~closed
  /\ Cardinality(queue) < QueueSize
  /\ Becomes(c, "accepted")
  /\ queue' = queue \cup {c}
  /\ UNCHANGED dropped

\* The channel is full: Enqueue counts the drop and returns false.
Refused(c) ==
  /\ ~closed
  /\ Cardinality(queue) = QueueSize
  /\ Becomes(c, "refused")
  /\ dropped' = dropped \cup {c}
  /\ UNCHANGED queue

\* A send on the closed channel panics; the recovery middleware catches it.
Panics(c) ==
  /\ closed
  /\ Becomes(c, "panicked")
  /\ UNCHANGED <<queue, dropped>>

Enqueue(c) ==
  /\ Accepted(c) \/ Refused(c) \/ Panics(c)
  /\ UNCHANGED <<writerVars, mainVars>>

-----------------------------------------------------------------------------
(* The writer goroutine: first the replay of the spool ...                 *)

\* ReadDir lists the files once; if it fails nothing is replayed.
ListSpool ==
  /\ pc = "start"
  /\ \/ todo' = spool
     \/ DiskFaults /\ todo' = {}
  /\ pc' = "replay"
  /\ UNCHANGED <<fate, queue, dropped, mainVars, batch, attempt, stopping,
                 spool, file, rows, decoded, torn, unread>>

\* The next file is opened and decoded.  Any error of the decoder is taken for
\* the end of the file: a broken record, but also a read that fails, at any
\* point.  A file of which nothing was decoded needs no insert.
OpenFile(f) ==
  /\ pc = "replay"
  /\ f \in todo
  /\ file' = f
  /\ decoded' \in (IF DiskFaults THEN SUBSET f.readable ELSE {f.readable})
  /\ pc' = IF decoded' = {} THEN "remove" ELSE "replaying"
  /\ UNCHANGED <<fate, queue, dropped, mainVars, batch, attempt, stopping,
                 spool, todo, rows, torn, unread>>

\* os.Open fails: the file stays for the next start.
OpenFails(f) ==
  /\ pc = "replay"
  /\ DiskFaults
  /\ f \in todo
  /\ todo' = todo \ {f}
  /\ UNCHANGED <<fate, queue, dropped, mainVars, batch, pc, attempt, stopping,
                 spool, file, rows, decoded, torn, unread>>

Inserted(S) == [c \in Clicks |-> IF c \in S THEN rows[c] + 1 ELSE rows[c]]

\* The records that were decoded, in one transaction.
ReplayCommits ==
  /\ pc = "replaying"
  /\ rows' = Inserted(decoded)
  /\ pc' = "remove"
  /\ UNCHANGED <<fate, queue, dropped, mainVars, batch, attempt, stopping,
                 spool, todo, file, decoded, torn, unread>>

\* The insert failed and the file is removed all the same.
ReplayFails_Removes ==
  /\ pc = "replaying"
  /\ pc' = "remove"
  /\ UNCHANGED <<fate, queue, dropped, mainVars, batch, attempt, stopping,
                 spool, todo, file, rows, decoded, torn, unread>>

\* The insert fails: the file stays for the next start.
ReplayFails ==
  /\ pc = "replaying"
  /\ \/ UNCHANGED rows
     \/ AmbiguousCommit /\ rows' = Inserted(decoded)
  /\ todo' = todo \ {file}
  /\ file' = NoFile /\ decoded' = {}
  /\ pc' = "replay"
  /\ UNCHANGED <<fate, queue, dropped, mainVars, batch, attempt, stopping,
                 spool, torn, unread>>

\* os.Remove, whose error is ignored.
RemoveFile ==
  /\ pc = "remove"
  /\ \/ /\ spool' = spool \ {file}
        /\ unread' = unread \cup (file.readable \ decoded)
     \/ DiskFaults /\ UNCHANGED <<spool, unread>>
  /\ todo' = todo \ {file}
  /\ file' = NoFile /\ decoded' = {}
  /\ pc' = "replay"
  /\ UNCHANGED <<fate, queue, dropped, mainVars, batch, attempt, stopping,
                 rows, torn>>

ReplayEnds ==
  /\ pc = "replay"
  /\ todo = {}
  /\ pc' = "select"
  /\ UNCHANGED <<fate, queue, dropped, mainVars, batch, attempt, stopping,
                 spool, todo, file, rows, decoded, torn, unread>>

-----------------------------------------------------------------------------
(* ... then the loop of Run.                                               *)

\* safeEnrich: the event joins the batch, or its enrichment panics and it is
\* counted as dropped.
Enriched(c) ==
  \/ batch' = batch \cup {c} /\ UNCHANGED dropped
  \/ dropped' = dropped \cup {c} /\ UNCHANGED batch

\* A full batch is flushed at once, but not while draining.
Receive(c) ==
  /\ pc \in {"select", "drain"}
  /\ c \in queue
  /\ queue' = queue \ {c}
  /\ Enriched(c)
  /\ pc' = IF pc = "select" /\ Cardinality(batch') >= BatchSize
           THEN "insert" ELSE pc
  /\ UNCHANGED <<fate, mainVars, attempt, stopping, spool, todo, file, rows,
                 decoded, torn, unread>>

\* The ticker fires; with an empty batch nothing happens.
Tick ==
  /\ pc = "select"
  /\ batch # {}
  /\ pc' = "insert"
  /\ UNCHANGED <<fate, queue, dropped, mainVars, batch, attempt, stopping,
                 spool, todo, file, rows, decoded, torn, unread>>

SeesCancel ==
  /\ pc = "select"
  /\ cancelled
  /\ pc' = "drain"
  /\ UNCHANGED <<fate, queue, dropped, mainVars, batch, attempt, stopping,
                 spool, todo, file, rows, decoded, torn, unread>>

\* The channel is closed and empty: Run returns without a last flush.
LastFlush_Forgotten ==
  /\ queue = {}
  /\ \/ pc = "select" /\ closed
     \/ pc = "drain"
  /\ stopping' = TRUE
  /\ pc' = "done"
  /\ UNCHANGED <<fate, queue, dropped, mainVars, batch, attempt, spool, todo,
                 file, rows, decoded, torn, unread>>

\* A closed channel is not noticed outside the drain.
LastFlush_OnlyInDrain ==
  /\ queue = {}
  /\ pc = "drain"
  /\ stopping' = TRUE
  /\ pc' = IF batch = {} THEN "done" ELSE "insert"
  /\ UNCHANGED <<fate, queue, dropped, mainVars, batch, attempt, spool, todo,
                 file, rows, decoded, torn, unread>>

\* The channel is closed and empty, or the drain found it empty: a last flush,
\* then Run returns.
LastFlush ==
  /\ queue = {}
  /\ \/ pc = "select" /\ closed
     \/ pc = "drain"
  /\ stopping' = TRUE
  /\ pc' = IF batch = {} THEN "done" ELSE "insert"
  /\ UNCHANGED <<fate, queue, dropped, mainVars, batch, attempt, spool, todo,
                 file, rows, decoded, torn, unread>>

\* flush returns; Run goes on or returns.
Flushed ==
  /\ batch' = {}
  /\ attempt' = 0
  /\ file' = NoFile
  /\ pc' = IF stopping THEN "done" ELSE "select"

\* InsertClicksBatch commits, and the batch is flushed again.
InsertCommits_KeepsBatch ==
  /\ pc = "insert"
  /\ rows' = Inserted(batch)
  /\ attempt' = 0
  /\ pc' = IF stopping THEN "done" ELSE "select"
  /\ UNCHANGED <<fate, queue, dropped, mainVars, batch, file, stopping, spool,
                 todo, decoded, torn, unread>>

\* InsertClicksBatch commits.
InsertCommits ==
  /\ pc = "insert"
  /\ rows' = Inserted(batch)
  /\ Flushed
  /\ UNCHANGED <<fate, queue, dropped, mainVars, stopping, spool, todo,
                 decoded, torn, unread>>

\* flush retries until the database is back.
InsertFails_RetriesForever ==
  /\ pc = "insert"
  /\ attempt' = (attempt + 1) % (LastAttempt + 1)
  /\ UNCHANGED <<fate, queue, dropped, mainVars, batch, pc, stopping, spool,
                 todo, file, rows, decoded, torn, unread>>

\* The batch is counted as dropped, and spooled.
InsertFails_CountsDrop ==
  /\ pc = "insert"
  /\ IF attempt < LastAttempt
     THEN attempt' = attempt + 1 /\ UNCHANGED <<pc, dropped>>
     ELSE pc' = "spool" /\ dropped' = dropped \cup batch /\ UNCHANGED attempt
  /\ UNCHANGED <<fate, queue, mainVars, batch, stopping, spool, todo, file,
                 rows, decoded, torn, unread>>

\* One attempt more than there are backoffs.
InsertFails_OneMore ==
  /\ pc = "insert"
  /\ \/ UNCHANGED rows
     \/ AmbiguousCommit /\ rows' = Inserted(batch)
  /\ IF attempt <= LastAttempt
     THEN attempt' = attempt + 1 /\ UNCHANGED pc
     ELSE pc' = "spool" /\ UNCHANGED attempt
  /\ UNCHANGED <<fate, queue, dropped, mainVars, batch, stopping, spool, todo,
                 file, decoded, torn, unread>>

\* InsertClicksBatch fails: the next attempt, or the spool after the last.
InsertFails ==
  /\ pc = "insert"
  /\ \/ UNCHANGED rows
     \/ AmbiguousCommit /\ rows' = Inserted(batch)
  /\ IF attempt < LastAttempt
     THEN attempt' = attempt + 1 /\ UNCHANGED pc
     ELSE pc' = "spool" /\ UNCHANGED attempt
  /\ UNCHANGED <<fate, queue, dropped, mainVars, batch, stopping, spool, todo,
                 file, decoded, torn, unread>>

\* An empty file with a new name.
CreateFile ==
  /\ pc = "spool"
  /\ file' = [NoFile EXCEPT !.for = batch]
  /\ spool' = spool \cup {file'}
  /\ pc' = "write"
  /\ UNCHANGED <<fate, queue, dropped, mainVars, batch, attempt, stopping,
                 todo, rows, decoded, torn, unread>>

\* MkdirAll or OpenFile fails: the batch is counted as dropped.
CreateFails ==
  /\ pc = "spool"
  /\ DiskFaults
  /\ dropped' = dropped \cup batch
  /\ Flushed
  /\ UNCHANGED <<fate, queue, mainVars, stopping, spool, todo, rows, decoded,
                 torn, unread>>

\* One record is encoded.  A failed write leaves nothing or half a record; a
\* half record hides what is written after it.
WriteRecord(c) ==
  /\ pc = "write"
  /\ c \in batch
  /\ batch' = batch \ {c}
  /\ \/ file' = IF file.broken THEN file ELSE [file EXCEPT !.readable = @ \cup {c}]
     \/ DiskFaults /\ UNCHANGED file
     \/ DiskFaults /\ file' = [file EXCEPT !.broken = TRUE]
  /\ torn' = IF c \in file'.readable THEN torn ELSE torn \cup {c}
  /\ spool' = (spool \ {file}) \cup {file'}
  /\ UNCHANGED <<fate, queue, dropped, mainVars, pc, attempt, stopping, todo,
                 rows, decoded, unread>>

CloseFile ==
  /\ pc = "write"
  /\ batch = {}
  /\ Flushed
  /\ UNCHANGED <<fate, queue, dropped, mainVars, stopping, spool, todo, rows,
                 decoded, torn, unread>>

-----------------------------------------------------------------------------
(* main: shutdown, exit, crash and start.                                  *)

\* A signal: srv.Shutdown closes the listeners and waits for the handlers.
BeginShutdown ==
  /\ main = "up"
  /\ main' = "draining"
  /\ UNCHANGED <<fate, queue, dropped, writerVars, closed, cancelled, expired,
                 starts, lost>>

\* Close comes when the handlers have ended, or when the timeout has passed.
CloseWriter ==
  /\ main = "draining"
  /\ \/ \A c \in Clicks : fate[c] # "active"
     \/ expired
  /\ closed' = TRUE
  /\ main' = "closing"
  /\ UNCHANGED <<fate, queue, dropped, writerVars, cancelled, expired, starts,
                 lost>>

ShutdownTimeout ==
  /\ main \in {"draining", "closing"}
  /\ ~expired
  /\ expired' = TRUE
  /\ UNCHANGED <<fate, queue, dropped, writerVars, main, closed, cancelled,
                 starts, lost>>

\* The wait for Done ends, or the timeout ends it; then clickCancel.
Return ==
  /\ main = "closing"
  /\ pc = "done" \/ expired
  /\ cancelled' = TRUE
  /\ main' = "returning"
  /\ UNCHANGED <<fate, queue, dropped, writerVars, closed, expired, starts,
                 lost>>

\* The process ends by main's return or by a crash: memory is gone, and the
\* handlers with it.
ProcessEnds ==
  /\ main # "exited"
  /\ main' = "exited"
  /\ pc' = "down"
  /\ fate' = [c \in Clicks |-> IF fate[c] = "active" THEN "gone" ELSE fate[c]]
  /\ lost' = lost \cup queue \cup batch
  /\ queue' = {} /\ batch' = {} /\ todo' = {} /\ file' = NoFile
  /\ decoded' = {}
  /\ attempt' = 0 /\ stopping' = FALSE
  /\ closed' = FALSE /\ cancelled' = FALSE /\ expired' = FALSE
  /\ UNCHANGED <<dropped, spool, rows, torn, unread, starts>>

StartProcess ==
  /\ main = "exited"
  /\ starts < MaxStarts
  /\ starts' = starts + 1
  /\ main' = "up"
  /\ pc' = "start"
  /\ UNCHANGED <<fate, queue, dropped, batch, attempt, stopping, spool, todo,
                 file, decoded, rows, torn, unread, closed, cancelled, expired,
                 lost>>

-----------------------------------------------------------------------------
ReplayStep ==
  \/ ListSpool \/ ReplayCommits \/ ReplayFails \/ RemoveFile \/ ReplayEnds
  \/ \E f \in todo : OpenFile(f) \/ OpenFails(f)

LoopStep == Tick \/ SeesCancel \/ LastFlush \/ \E c \in Clicks : Receive(c)

FlushStep ==
  \/ InsertCommits \/ InsertFails
  \/ CreateFile \/ CreateFails \/ CloseFile
  \/ \E c \in Clicks : WriteRecord(c)

WriterStep == ReplayStep \/ LoopStep \/ FlushStep

MainStep ==
  BeginShutdown \/ CloseWriter \/ ShutdownTimeout \/ Return \/ ProcessEnds
    \/ StartProcess

Next ==
  \/ \E c \in Clicks : Arrive(c) \/ Enqueue(c)
  \/ WriterStep
  \/ MainStep

Spec == Init /\ [][Next]_vars

\* The writer is a goroutine that always runs on.  Nothing is assumed of the
\* clients, of the database's answers, of signals, timeouts and restarts.
FairSpec == Spec /\ WF_vars(WriterStep)

-----------------------------------------------------------------------------
(* Properties.                                                             *)

InMemory   == queue \cup batch
InSpool    == UNION {f.readable : f \in spool}
InDatabase == {c \in Clicks : rows[c] > 0}
Kept       == InSpool \cup InDatabase

\* No accepted click disappears without a trace: it is in memory, in the
\* spool or in the database, or it is counted as dropped, or it went with the
\* process, or the disk lost it, when its record was written or when it was to
\* be read: replayFile takes a read that fails for the end of the file, which
\* is then removed.  All else that a file holds is in the database before the
\* file is removed, and no error path of flush, spool and replayFile forgets
\* the batch it holds.
NoSilentLoss ==
  \A c \in Clicks : fate[c] = "accepted" =>
    c \in InMemory \cup Kept \cup dropped \cup lost \cup torn \cup unread

\* Duplicates have one cause: as long as COMMIT and the disk tell the truth, a
\* click has one row, plus one for each restart at which the process ended
\* between the replay's commit and the removal of the file (replaySpool).  The
\* first start has nothing to replay, and the second replays a click that
\* was never inserted.
CopiesBounded ==
  ~AmbiguousCommit /\ ~DiskFaults =>
    \A c \in Clicks : rows[c] <= IF starts <= 2 THEN 1 ELSE starts - 1

\* Whatever COMMIT and the disk do, a click has at most a row for each attempt
\* of the flush that took it, and one for each later start (flush, replaySpool).
RowsBounded == \A c \in Clicks : rows[c] <= LastAttempt + starts

\* What is counted as dropped is really gone, and what is kept is not still in
\* memory to be written once more: the counters of IncClicksDropped add up.
\* Without errors reported for a COMMIT that took effect.
OnePlace ==
  ~AmbiguousCommit =>
    /\ dropped \cap (InMemory \cup Kept) = {}
    /\ InMemory \cap Kept = {}

\* A shutdown that waited for Done without running into its timeout loses
\* nothing that was accepted (Writer.Done, main.go's wait).
GracefulExitLosesNothing ==
  [][main = "returning" /\ ~expired /\ main' = "exited" => lost' = lost]_vars

\* An accepted click does not stay in memory for ever: whatever the database
\* does, retries end and the batch is written, spooled or dropped.
MemoryDrains == \A c \in Clicks : c \in InMemory ~> c \notin InMemory

\* After Close the writer comes to its end, so that the wait for Done can end
\* before the timeout.
CloseIsAnswered == closed ~> pc \in {"done", "down"}

-----------------------------------------------------------------------------
(* The pipeline implements ClickLedger.                                    *)

Status(c) ==
  IF c \in Kept THEN "kept"
  ELSE IF c \in dropped THEN "dropped"
  ELSE IF c \in lost THEN "lost"
  ELSE IF c \in InMemory THEN "memory"
  ELSE "new"

Ledger == INSTANCE ClickLedger WITH status <- [c \in Clicks |-> Status(c)]

\* With a database and a disk that tell the truth, every behaviour of the
\* pipeline (writer.go, main.go) is one that ClickLedger allows; above all, a
\* click that was kept stays kept through replay, crashes and restarts.
ImplementsLedger == Ledger!Spec

=============================================================================
