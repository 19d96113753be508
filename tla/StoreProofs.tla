---------------------------- MODULE StoreProofs ----------------------------
(***************************************************************************)
(* Proofs about the components around the store: Startup, for any number   *)
(* of processes, releases, migrations, connections lost and statements     *)
(* that fail; Backups, for any number of snapshots to be kept, of manual   *)
(* snapshots in progress and of seconds; Pages, for any finite set of      *)
(* rows, any values of the sort column, and pages of any size.             *)
(***************************************************************************)
EXTENDS Startup, Backups, Pages, FiniteSetTheorems, TLAPS

-----------------------------------------------------------------------------
(* Startup: type correctness.                                              *)

LEMMA ExitTypes ==
  ASSUME StartupTypeOK, NEW p \in Processes, Exit(p)
  PROVE  /\ openAt' \in [Processes -> OpenSteps]
         /\ pending' \in [Processes -> SUBSET Migrations]
         /\ fileLock' \in Servers \cup {Nobody}
         /\ advisory' \in Processes \cup {Nobody}
BY DEF StartupTypeOK, Exit, GoTo, OpenSteps

LEMMA FaultTypes ==
  ASSUME StartupTypeOK, StartFault
  PROVE  startFaults' \in 0..MaxStartFaults
BY StartupAssumption DEF StartupTypeOK, StartFault

LEMMA RecordTypes ==
  ASSUME StartupTypeOK, NEW v \in Migrations, Record(v)
  PROVE  recorded' \in SUBSET Migrations /\ done' \in [Migrations -> Nat]
BY DEF StartupTypeOK, Record

LEMMA ReleaseRange ==
  ASSUME NEW p \in Processes
  PROVE  Release[p] \in Nat /\ 1..Release[p] \subseteq Migrations
BY StartupAssumption DEF Migrations

LEMMA TypesInit == StartupInit => StartupTypeOK
<1> SUFFICES ASSUME StartupInit PROVE StartupTypeOK
  OBVIOUS
<1>1. PICK n \in 0..MaxMigrations :
        /\ recorded = 1..n
        /\ done = [v \in Migrations |-> IF v <= n THEN 1 ELSE 0]
  BY DEF StartupInit
<1>2. recorded \in SUBSET Migrations
  BY <1>1, StartupAssumption DEF Migrations
<1>3. done \in [Migrations -> Nat]
  BY <1>1
<1> QED
  BY <1>2, <1>3, StartupAssumption DEF StartupInit, StartupTypeOK, OpenSteps

LEMMA TypesNext ==
  ASSUME StartupTypeOK, [StartupNext]_startupVars
  PROVE  StartupTypeOK'
<1>1. CASE UNCHANGED startupVars
  BY <1>1 DEF StartupTypeOK, startupVars, dbVars, lockVars
<1>2. ASSUME NEW p \in Processes, Open(p) PROVE StartupTypeOK'
  <2>1. fileLock' \in Servers \cup {Nobody}
    BY <1>2 DEF StartupTypeOK, Open
  <2> QED
    BY <1>2, <2>1 DEF StartupTypeOK, Open, GoTo, OpenSteps, dbVars
<1>3. ASSUME NEW p \in Processes, MakeTable(p) PROVE StartupTypeOK'
  BY <1>3 DEF StartupTypeOK, MakeTable, GoTo, OpenSteps, dbVars, lockVars
<1>4. ASSUME NEW p \in Processes, TakeLock(p) PROVE StartupTypeOK'
  BY <1>4 DEF StartupTypeOK, TakeLock, GoTo, OpenSteps, dbVars
<1>5. ASSUME NEW p \in Processes, WaitInVain(p) PROVE StartupTypeOK'
  BY <1>5, ExitTypes DEF StartupTypeOK, WaitInVain, dbVars
<1>6. ASSUME NEW p \in Processes, ReadMigrations(p) PROVE StartupTypeOK'
  <2>1. startFaults' \in 0..MaxStartFaults
    BY <1>6, FaultTypes DEF StartupTypeOK, ReadMigrations
  <2>2. pending' \in [Processes -> SUBSET Migrations]
    BY <1>6, ReleaseRange DEF StartupTypeOK, ReadMigrations
  <2> QED
    BY <1>6, <2>1, <2>2 DEF StartupTypeOK, ReadMigrations, GoTo, OpenSteps, dbVars, lockVars
<1>7. ASSUME NEW p \in Processes, ApplyMigration(p) PROVE StartupTypeOK'
  <2>1. PICK v \in pending[p] :
          \/ /\ Record(v)
             /\ pending' = [pending EXCEPT ![p] = @ \ {v}]
             /\ UNCHANGED <<openAt, lockVars, startFaults>>
          \/ /\ Exit(p)
             /\ UNCHANGED <<dbVars, startFaults>>
          \/ StartFault /\ Record(v) /\ Exit(p)
    BY <1>7 DEF ApplyMigration
  <2>2. v \in Migrations /\ driver' = driver
    BY <1>7 DEF StartupTypeOK, ApplyMigration
  <2>3. CASE /\ Record(v)
             /\ pending' = [pending EXCEPT ![p] = @ \ {v}]
             /\ UNCHANGED <<openAt, lockVars, startFaults>>
    <3>1. pending' \in [Processes -> SUBSET Migrations]
      BY <2>3 DEF StartupTypeOK
    <3> QED
      BY <2>2, <2>3, <3>1, RecordTypes DEF StartupTypeOK, lockVars
  <2>4. CASE Exit(p) /\ UNCHANGED <<dbVars, startFaults>>
    BY <2>2, <2>4, ExitTypes DEF StartupTypeOK, dbVars
  <2>5. CASE StartFault /\ Record(v) /\ Exit(p)
    BY <2>2, <2>5, ExitTypes, RecordTypes, FaultTypes DEF StartupTypeOK
  <2> QED
    BY <2>1, <2>3, <2>4, <2>5
<1>8. ASSUME NEW p \in Processes, Serve(p) PROVE StartupTypeOK'
  <2>1. startFaults' \in 0..MaxStartFaults
    BY <1>8, FaultTypes DEF StartupTypeOK, Serve
  <2>2. advisory' \in Processes \cup {Nobody}
    BY <1>8 DEF StartupTypeOK, Serve
  <2> QED
    BY <1>8, <2>1, <2>2 DEF StartupTypeOK, Serve, GoTo, OpenSteps, dbVars
<1>9. ASSUME NEW p \in Processes, Fail(p) PROVE StartupTypeOK'
  BY <1>9, ExitTypes, FaultTypes DEF StartupTypeOK, Fail, dbVars
<1>10. ASSUME NEW p \in Processes, LoseConnection(p) PROVE StartupTypeOK'
  BY <1>10, FaultTypes DEF StartupTypeOK, LoseConnection, dbVars
<1>11. ASSUME NEW p \in Processes, Recycle(p) PROVE StartupTypeOK'
  BY <1>11 DEF StartupTypeOK, Recycle, dbVars
<1> QED
  BY <1>1, <1>2, <1>3, <1>4, <1>5, <1>6, <1>7, <1>8, <1>9, <1>10, <1>11
  DEF StartupNext, Opening

\* All variables of Startup keep their types.
THEOREM StartupTypeCorrect == StartupSpec => []StartupTypeOK
<1>1. StartupInit => StartupTypeOK
  BY TypesInit
<1>2. StartupTypeOK /\ [StartupNext]_startupVars => StartupTypeOK'
  BY TypesNext
<1> QED
  BY <1>1, <1>2, PTL DEF StartupSpec

-----------------------------------------------------------------------------
(* What is recorded has been applied, once and in order; what a process is *)
(* not going to apply any more is recorded, whoever recorded it.           *)

RecordedOnce == \A v \in Migrations : done[v] = IF v \in recorded THEN 1 ELSE 0

InOrder == \A v \in recorded, w \in Migrations : w < v => w \in recorded

RestPending ==
  \A p \in Processes, v \in Migrations :
    v <= Release[p] =>
      /\ openAt[p] = "apply" /\ v \notin pending[p] => v \in recorded
      /\ openAt[p] = "up" => v \in recorded

PendingIsOwn ==
  \A p \in Processes : openAt[p] = "apply" => pending[p] \subseteq 1..Release[p]

SchemaInv == StartupTypeOK /\ RecordedOnce /\ InOrder /\ RestPending /\ PendingIsOwn

LEMMA SchemaInit == StartupInit => SchemaInv
<1> SUFFICES ASSUME StartupInit PROVE SchemaInv
  OBVIOUS
<1>1. StartupTypeOK
  BY TypesInit
<1>2. PICK n \in 0..MaxMigrations :
        /\ recorded = 1..n
        /\ done = [v \in Migrations |-> IF v <= n THEN 1 ELSE 0]
  BY DEF StartupInit
<1>3. RecordedOnce /\ InOrder
  BY <1>2, StartupAssumption DEF RecordedOnce, InOrder, Migrations
<1>4. RestPending /\ PendingIsOwn
  BY DEF StartupInit, RestPending, PendingIsOwn
<1> QED
  BY <1>1, <1>3, <1>4 DEF SchemaInv

\* A process that gives up leaves the invariant to the others.
LEMMA ExitKeeps ==
  ASSUME SchemaInv, NEW p \in Processes, Exit(p), recorded \subseteq recorded'
  PROVE  RestPending' /\ PendingIsOwn'
<1>1. \A q \in Processes :
        openAt'[q] \in {"apply", "up"} => openAt'[q] = openAt[q] /\ pending'[q] = pending[q]
  BY DEF SchemaInv, StartupTypeOK, Exit, GoTo
<1> QED
  BY <1>1 DEF SchemaInv, RestPending, PendingIsOwn

\* Steps that write nothing in the database, and after which no process is
\* further than it was.
LEMMA SchemaFrame ==
  ASSUME SchemaInv, UNCHANGED dbVars,
         \A q \in Processes : openAt'[q] \in {"apply", "up"}
           => openAt'[q] = openAt[q] /\ pending'[q] = pending[q]
  PROVE  RecordedOnce' /\ InOrder' /\ RestPending' /\ PendingIsOwn'
<1>1. recorded' = recorded /\ done' = done
  BY DEF dbVars
<1>2. RecordedOnce' /\ InOrder'
  BY <1>1 DEF SchemaInv, RecordedOnce, InOrder
<1>3. RestPending' /\ PendingIsOwn'
  BY <1>1 DEF SchemaInv, RestPending, PendingIsOwn
<1> QED
  BY <1>2, <1>3

\* A migration is applied when all that come before it have been.
LEMMA RecordKeeps ==
  ASSUME SchemaInv, NEW v \in Migrations, Fresh(v), Record(v),
         \A w \in Migrations : w < v => w \in recorded
  PROVE  RecordedOnce' /\ InOrder'
<1>1. recorded' = recorded \cup {v} /\ v \notin recorded
  BY DEF Record, Fresh
<1>2. RecordedOnce'
  <2> SUFFICES ASSUME NEW w \in Migrations
               PROVE  done'[w] = IF w \in recorded' THEN 1 ELSE 0
    BY DEF RecordedOnce
  <2>1. done[w] = IF w \in recorded THEN 1 ELSE 0
    BY DEF SchemaInv, RecordedOnce
  <2>2. done'[w] = IF w = v THEN done[w] + 1 ELSE done[w]
    BY DEF SchemaInv, StartupTypeOK, Record
  <2> QED
    BY <1>1, <2>1, <2>2
<1>3. InOrder'
  BY <1>1 DEF SchemaInv, InOrder
<1> QED
  BY <1>2, <1>3

LEMMA ApplyKeeps ==
  ASSUME SchemaInv, NEW p \in Processes, ApplyMigration(p)
  PROVE  RecordedOnce' /\ InOrder' /\ RestPending' /\ PendingIsOwn'
<1>1. PICK v \in pending[p] :
        /\ \A w \in pending[p] : v <= w
        /\ \/ /\ Fresh(v) /\ Record(v)
              /\ pending' = [pending EXCEPT ![p] = @ \ {v}]
              /\ openAt' = openAt
           \/ Exit(p) /\ UNCHANGED dbVars
           \/ Fresh(v) /\ Record(v) /\ Exit(p)
  BY DEF ApplyMigration
<1>2. openAt[p] = "apply" /\ v \in 1..Release[p] /\ v \in Migrations
  BY DEF ApplyMigration, SchemaInv, StartupTypeOK, PendingIsOwn
<1>3. \A w \in Migrations : w < v => w \in recorded
  <2> SUFFICES ASSUME NEW w \in Migrations, w < v PROVE w \in recorded
    OBVIOUS
  <2>1. w \in Nat /\ v \in Nat /\ Release[p] \in Nat
    BY <1>2, ReleaseRange DEF Migrations
  <2>2. w \notin pending[p] /\ w <= Release[p]
    BY <1>1, <1>2, <2>1
  <2> QED
    BY <1>2, <2>2 DEF SchemaInv, RestPending
<1>4. CASE /\ Fresh(v) /\ Record(v)
           /\ pending' = [pending EXCEPT ![p] = @ \ {v}]
           /\ openAt' = openAt
  <2>1. RecordedOnce' /\ InOrder'
    BY <1>2, <1>3, <1>4, RecordKeeps
  <2>2. recorded' = recorded \cup {v}
    BY <1>4 DEF Record
  <2>3. \A q \in Processes : pending'[q] = IF q = p THEN pending[q] \ {v} ELSE pending[q]
    BY <1>4 DEF SchemaInv, StartupTypeOK
  <2>4. RestPending'
    BY <1>4, <2>2, <2>3 DEF SchemaInv, RestPending
  <2>5. PendingIsOwn'
    BY <1>4, <2>3 DEF SchemaInv, PendingIsOwn
  <2> QED
    BY <2>1, <2>4, <2>5
<1>5. CASE Exit(p) /\ UNCHANGED dbVars
  <2>1. RestPending' /\ PendingIsOwn'
    BY <1>5, ExitKeeps DEF dbVars
  <2>2. RecordedOnce' /\ InOrder'
    BY <1>5 DEF dbVars, SchemaInv, RecordedOnce, InOrder
  <2> QED
    BY <2>1, <2>2
<1>6. CASE Fresh(v) /\ Record(v) /\ Exit(p)
  <2>1. RecordedOnce' /\ InOrder'
    BY <1>2, <1>3, <1>6, RecordKeeps
  <2>2. RestPending' /\ PendingIsOwn'
    BY <1>6, ExitKeeps DEF Record
  <2> QED
    BY <2>1, <2>2
<1> QED
  BY <1>1, <1>4, <1>5, <1>6

LEMMA ReadKeeps ==
  ASSUME SchemaInv, NEW p \in Processes, ReadMigrations(p)
  PROVE  RecordedOnce' /\ InOrder' /\ RestPending' /\ PendingIsOwn'
<1>1. PICK seen \in SUBSET recorded :
        pending' = [pending EXCEPT ![p] = 1..Release[p] \ seen]
  BY DEF ReadMigrations
<1>2. recorded' = recorded /\ done' = done /\ openAt' = [openAt EXCEPT ![p] = "apply"]
  BY DEF ReadMigrations, dbVars, GoTo
<1>3. \A q \in Processes :
        /\ openAt'[q] = IF q = p THEN "apply" ELSE openAt[q]
        /\ pending'[q] = IF q = p THEN 1..Release[p] \ seen ELSE pending[q]
  BY <1>1, <1>2 DEF SchemaInv, StartupTypeOK
<1>4. RecordedOnce' /\ InOrder'
  BY <1>2 DEF SchemaInv, RecordedOnce, InOrder
<1>5. RestPending'
  <2> SUFFICES ASSUME NEW q \in Processes, NEW v \in Migrations, v <= Release[q]
               PROVE  /\ openAt'[q] = "apply" /\ v \notin pending'[q] => v \in recorded'
                      /\ openAt'[q] = "up" => v \in recorded'
    BY DEF RestPending
  <2>1. CASE q = p
    <3>1. v \in 1..Release[p]
      BY <2>1, ReleaseRange DEF Migrations
    <3> QED
      BY <1>2, <1>3, <2>1, <3>1
  <2>2. CASE q # p
    BY <1>2, <1>3, <2>2 DEF SchemaInv, RestPending
  <2> QED
    BY <2>1, <2>2
<1>6. PendingIsOwn'
  BY <1>3 DEF SchemaInv, PendingIsOwn
<1> QED
  BY <1>4, <1>5, <1>6

LEMMA ServeKeeps ==
  ASSUME SchemaInv, NEW p \in Processes, Serve(p)
  PROVE  RecordedOnce' /\ InOrder' /\ RestPending' /\ PendingIsOwn'
<1>1. recorded' = recorded /\ done' = done /\ pending' = pending
  BY DEF Serve, dbVars
<1>2. openAt[p] = "apply" /\ pending[p] = {}
  BY DEF Serve
<1>3. \A q \in Processes : openAt'[q] = IF q = p THEN "up" ELSE openAt[q]
  BY DEF Serve, GoTo, SchemaInv, StartupTypeOK
<1>4. RecordedOnce' /\ InOrder'
  BY <1>1 DEF SchemaInv, RecordedOnce, InOrder
<1>5. RestPending'
  BY <1>1, <1>2, <1>3 DEF SchemaInv, RestPending
<1>6. PendingIsOwn'
  BY <1>1, <1>3 DEF SchemaInv, PendingIsOwn
<1> QED
  BY <1>4, <1>5, <1>6

LEMMA SchemaNext == SchemaInv /\ [StartupNext]_startupVars => SchemaInv'
<1> SUFFICES ASSUME SchemaInv, [StartupNext]_startupVars
             PROVE  RecordedOnce' /\ InOrder' /\ RestPending' /\ PendingIsOwn'
  BY TypesNext DEF SchemaInv
<1>1. CASE UNCHANGED startupVars
  BY <1>1, SchemaFrame DEF startupVars, dbVars
<1>2. ASSUME NEW p \in Processes, Open(p) \/ MakeTable(p) \/ TakeLock(p)
      PROVE  RecordedOnce' /\ InOrder' /\ RestPending' /\ PendingIsOwn'
  <2>1. UNCHANGED dbVars /\ pending' = pending
    BY <1>2 DEF Open, MakeTable, TakeLock
  <2>2. \E step \in {"table", "lock", "read"} : openAt' = [openAt EXCEPT ![p] = step]
    BY <1>2 DEF Open, MakeTable, TakeLock, GoTo
  <2>3. \A q \in Processes : openAt'[q] \in {"apply", "up"} => openAt'[q] = openAt[q]
    BY <2>2 DEF SchemaInv, StartupTypeOK
  <2> QED
    BY <2>1, <2>3, SchemaFrame
<1>3. ASSUME NEW p \in Processes, WaitInVain(p) \/ Fail(p)
      PROVE  RecordedOnce' /\ InOrder' /\ RestPending' /\ PendingIsOwn'
  <2>1. Exit(p) /\ recorded' = recorded /\ done' = done
    BY <1>3 DEF WaitInVain, Fail, dbVars
  <2>2. RestPending' /\ PendingIsOwn'
    BY <2>1, ExitKeeps
  <2>3. RecordedOnce' /\ InOrder'
    BY <2>1 DEF SchemaInv, RecordedOnce, InOrder
  <2> QED
    BY <2>2, <2>3
<1>4. ASSUME NEW p \in Processes, LoseConnection(p) \/ Recycle(p)
      PROVE  RecordedOnce' /\ InOrder' /\ RestPending' /\ PendingIsOwn'
  <2>1. UNCHANGED dbVars /\ openAt' = openAt /\ pending' = pending
    BY <1>4 DEF LoseConnection, Recycle
  <2> QED
    BY <2>1, SchemaFrame
<1>5. ASSUME NEW p \in Processes, ReadMigrations(p)
      PROVE  RecordedOnce' /\ InOrder' /\ RestPending' /\ PendingIsOwn'
  BY <1>5, ReadKeeps
<1>6. ASSUME NEW p \in Processes, ApplyMigration(p)
      PROVE  RecordedOnce' /\ InOrder' /\ RestPending' /\ PendingIsOwn'
  BY <1>6, ApplyKeeps
<1>7. ASSUME NEW p \in Processes, Serve(p)
      PROVE  RecordedOnce' /\ InOrder' /\ RestPending' /\ PendingIsOwn'
  BY <1>7, ServeKeeps
<1> QED
  BY <1>1, <1>2, <1>3, <1>4, <1>5, <1>6, <1>7 DEF StartupNext, Opening

LEMMA SchemaImplies == SchemaInv => ServesItsSchema
<1> SUFFICES ASSUME SchemaInv PROVE ServesItsSchema
  OBVIOUS
<1>1. \A v \in Migrations : done[v] <= 1 /\ (done[v] = 1 <=> v \in recorded)
  BY DEF SchemaInv, RecordedOnce
<1>2. \A v, w \in Migrations : w < v /\ done[v] = 1 => done[w] = 1
  BY <1>1 DEF SchemaInv, InOrder
<1>3. \A p \in Processes, v \in Migrations :
        openAt[p] = "up" /\ v <= Release[p] => done[v] = 1
  BY <1>1 DEF SchemaInv, RestPending
<1> QED
  BY <1>1, <1>2, <1>3 DEF ServesItsSchema

\* Each migration is applied once and in order, and whoever serves has all of
\* its release, however many processes of however many releases open the
\* database, also without the advisory lock.
THEOREM SchemaIsServed == StartupSpec => []ServesItsSchema
<1>1. StartupInit => SchemaInv
  BY SchemaInit
<1>2. SchemaInv /\ [StartupNext]_startupVars => SchemaInv'
  BY SchemaNext
<1>3. SchemaInv => ServesItsSchema
  BY SchemaImplies
<1> QED
  BY <1>1, <1>2, <1>3, PTL DEF StartupSpec

-----------------------------------------------------------------------------
(* Backups: type correctness, with what is known of a file while it is written.*)

WritingInv ==
  backupAt = "write" => /\ backupFile \in Name /\ backupFile.by = "shortr"
                        /\ backupFile \in attempts /\ backupFile \in files
                        /\ backupFile \notin whole

ManualInv ==
  \A a \in Askers : manual[a] # NoFile =>
    /\ manual[a].by = "manual" /\ manual[a] \notin whole
    /\ \A b \in Askers : manual[b] = manual[a] => b = a

FilesInv == BackupsTypeOK /\ WritingInv /\ ManualInv

LEMMA NamedType ==
  ASSUME BackupsTypeOK, NEW by \in {"manual", "shortr"}
  PROVE  Named(by) \in Name /\ Named(by).by = by
BY DEF BackupsTypeOK, Named, Name

LEMMA FilesInit == BackupsInit => FilesInv
BY BackupsAssumption
   DEF BackupsInit, FilesInv, BackupsTypeOK, WritingInv, ManualInv, Name

LEMMA FilesBegin ==
  ASSUME FilesInv, BeginBackup
  PROVE  FilesInv'
<1> DEFINE f == Named("shortr")
<1>1. f \in Name /\ f.by = "shortr"
  BY NamedType DEF FilesInv
<1>2. /\ f \notin whole /\ files' = files \cup {f} /\ backupFile' = f
      /\ attempts' = attempts \cup {f} /\ backupAt' = "write"
      /\ UNCHANGED <<whole, second, doomed, manual, kept>>
  BY DEF BeginBackup, Writable
<1> HIDE DEF f
<1>3. BackupsTypeOK'
  BY <1>1, <1>2 DEF FilesInv, BackupsTypeOK
<1>4. WritingInv' /\ ManualInv'
  BY <1>1, <1>2 DEF FilesInv, WritingInv, ManualInv
<1> QED
  BY <1>3, <1>4 DEF FilesInv

LEMMA FilesEnd ==
  ASSUME FilesInv, EndBackup
  PROVE  FilesInv'
<1>1. BackupsTypeOK'
  BY DEF EndBackup, FilesInv, BackupsTypeOK, WritingInv
<1>2. ManualInv'
  BY DEF EndBackup, FilesInv, WritingInv, ManualInv
<1> QED
  BY <1>1, <1>2 DEF EndBackup, FilesInv, WritingInv

LEMMA FilesRemove ==
  ASSUME FilesInv, RemoveBackup
  PROVE  FilesInv'
<1>1. /\ doomed' \in SUBSET doomed
      /\ files' \in SUBSET files /\ whole' \in SUBSET files' /\ whole' \in SUBSET whole
      /\ backupAt = "remove"
      /\ UNCHANGED <<second, backupAt, backupFile, manual, attempts, kept>>
  BY DEF RemoveBackup, FilesInv, BackupsTypeOK
<1>2. BackupsTypeOK'
  BY <1>1 DEF FilesInv, BackupsTypeOK
<1> QED
  BY <1>1, <1>2 DEF FilesInv, WritingInv, ManualInv

LEMMA FilesBreak ==
  ASSUME FilesInv, BreakBackup
  PROVE  FilesInv'
<1>1. /\ files' \in SUBSET files /\ whole' \in SUBSET files' /\ whole' = whole
      /\ backupAt' = "idle" /\ backupFile' = NoFile /\ doomed' = {}
      /\ UNCHANGED <<second, manual, attempts, kept>>
  BY DEF BreakBackup, BackupEnds, FilesInv, BackupsTypeOK, WritingInv
<1>2. BackupsTypeOK'
  BY <1>1 DEF FilesInv, BackupsTypeOK
<1> QED
  BY <1>1, <1>2 DEF FilesInv, WritingInv, ManualInv

LEMMA FilesBeginManual ==
  ASSUME FilesInv, NEW a \in Askers, BeginManual(a)
  PROVE  FilesInv'
<1> DEFINE f == Named("manual")
<1>1. f \in Name /\ f.by = "manual"
  BY NamedType DEF FilesInv
<1>2. /\ f \notin whole /\ \A b \in Askers : manual[b] # f
      /\ files' = files \cup {f} /\ manual' = [manual EXCEPT ![a] = f]
      /\ UNCHANGED <<whole, second, backupAt, backupFile, doomed, attempts, kept>>
  BY DEF BeginManual, Writable, backupJobVars
<1> HIDE DEF f
<1>3. BackupsTypeOK'
  BY <1>1, <1>2 DEF FilesInv, BackupsTypeOK
<1>4. \A b \in Askers : manual'[b] = IF b = a THEN f ELSE manual[b]
  BY <1>2 DEF FilesInv, BackupsTypeOK
<1>5. ManualInv'
  BY <1>1, <1>2, <1>4 DEF FilesInv, ManualInv
<1> QED
  BY <1>2, <1>3, <1>5 DEF FilesInv, WritingInv

LEMMA FilesEndManual ==
  ASSUME FilesInv, NEW a \in Askers, EndManual(a)
  PROVE  FilesInv'
<1>1. /\ whole' = whole \cup ({manual[a]} \cap files)
      /\ manual' = [manual EXCEPT ![a] = NoFile] /\ manual[a] # NoFile
      /\ UNCHANGED <<files, second, backupAt, backupFile, doomed, attempts, kept>>
  BY DEF EndManual, backupJobVars
<1>2. BackupsTypeOK'
  BY <1>1 DEF FilesInv, BackupsTypeOK
<1>3. \A b \in Askers : manual'[b] = IF b = a THEN NoFile ELSE manual[b]
  BY <1>1 DEF FilesInv, BackupsTypeOK
<1>4. ManualInv'
  BY <1>1, <1>3 DEF FilesInv, ManualInv
<1>5. WritingInv'
  BY <1>1 DEF FilesInv, WritingInv, ManualInv
<1> QED
  BY <1>2, <1>4, <1>5 DEF FilesInv

LEMMA FilesBreakManual ==
  ASSUME FilesInv, NEW a \in Askers, BreakManual(a)
  PROVE  FilesInv'
<1>1. /\ files' \in {files, files \ {manual[a]}}
      /\ manual' = [manual EXCEPT ![a] = NoFile] /\ manual[a] # NoFile
      /\ UNCHANGED <<whole, second, backupAt, backupFile, doomed, attempts, kept>>
  BY DEF BreakManual, backupJobVars
<1>2. manual[a].by = "manual" /\ manual[a] \notin whole
  BY <1>1 DEF FilesInv, ManualInv
<1>3. files' \in SUBSET files /\ whole \in SUBSET files'
  BY <1>1, <1>2 DEF FilesInv, BackupsTypeOK
<1>4. BackupsTypeOK'
  BY <1>1, <1>3 DEF FilesInv, BackupsTypeOK
<1>5. \A b \in Askers : manual'[b] = IF b = a THEN NoFile ELSE manual[b]
  BY <1>1 DEF FilesInv, BackupsTypeOK
<1>6. ManualInv'
  BY <1>1, <1>5 DEF FilesInv, ManualInv
<1>7. WritingInv'
  BY <1>1, <1>2 DEF FilesInv, WritingInv
<1> QED
  BY <1>4, <1>6, <1>7 DEF FilesInv

LEMMA FilesNext == FilesInv /\ [BackupsNext]_backupsVars => FilesInv'
<1> SUFFICES ASSUME FilesInv, [BackupsNext]_backupsVars PROVE FilesInv'
  OBVIOUS
<1>1. CASE UNCHANGED backupsVars
  BY <1>1 DEF FilesInv, BackupsTypeOK, WritingInv, ManualInv, backupsVars, backupJobVars
<1>2. CASE ListBackups
  <2>1. BackupsTypeOK'
    BY <1>2 DEF ListBackups, Surplus, FilesInv, BackupsTypeOK
  <2> QED
    BY <1>2, <2>1 DEF ListBackups, FilesInv, WritingInv, ManualInv
<1>3. CASE EndPrune
  <2>1. BackupsTypeOK'
    BY <1>3 DEF EndPrune, BackupEnds, FilesInv, BackupsTypeOK
  <2> QED
    BY <1>3, <2>1 DEF EndPrune, BackupEnds, FilesInv, WritingInv, ManualInv
<1>4. ASSUME NEW t \in 0..MaxSecond, SetClock(t) PROVE FilesInv'
  <2>1. BackupsTypeOK'
    BY <1>4 DEF SetClock, backupJobVars, FilesInv, BackupsTypeOK
  <2> QED
    BY <1>4, <2>1 DEF SetClock, backupJobVars, FilesInv, WritingInv, ManualInv
<1> QED
  BY <1>1, <1>2, <1>3, <1>4, FilesBegin, FilesEnd, FilesRemove, FilesBreak,
     FilesBeginManual, FilesEndManual, FilesBreakManual
  DEF BackupsNext

\* All variables of Backups keep their types; a complete snapshot is a file.
THEOREM BackupsTypeCorrect == BackupsSpec => []BackupsTypeOK
<1>1. BackupsInit => FilesInv
  BY FilesInit
<1>2. FilesInv /\ [BackupsNext]_backupsVars => FilesInv'
  BY FilesNext
<1>3. FilesInv => BackupsTypeOK
  BY DEF FilesInv
<1> QED
  BY <1>1, <1>2, <1>3, PTL DEF BackupsSpec

-----------------------------------------------------------------------------
(* Scheduled snapshots that are gone, or going to be, have later ones.     *)

Later(f) == {g \in attempts : g.at > f.at}

Outdated(f) == Cardinality(Later(f)) >= BackupKeep

ScheduledInv ==
  /\ IsFiniteSet(attempts)
  /\ \A f \in attempts : f.by = "shortr"
  /\ \A f \in files : f.by = "shortr" => f \in attempts

DoomedInv == \A f \in doomed : f.by = "shortr" => Outdated(f)

KeptInv == FilesInv /\ ScheduledInv /\ DoomedInv /\ NewestSnapshotsStay

LEMMA KeptInit == BackupsInit => KeptInv
<1> SUFFICES ASSUME BackupsInit PROVE KeptInv
  OBVIOUS
<1>1. FilesInv
  BY FilesInit
<1>2. ScheduledInv
  BY FS_EmptySet DEF BackupsInit, ScheduledInv
<1> QED
  BY <1>1, <1>2 DEF BackupsInit, KeptInv, DoomedInv, NewestSnapshotsStay

\* The end of the sorted list has scheduled snapshots only, if one of them
\* is not in it.
LEMMA SurplusIsOutdated ==
  ASSUME KeptInv, NEW f \in Surplus, f.by = "shortr"
  PROVE  Outdated(f)
<1> DEFINE Behind == {g \in files : Sorts(f, g)}
<1>1. Cardinality(Behind) >= BackupKeep
  BY DEF Surplus
<1>2. Behind \subseteq Later(f)
  <2> SUFFICES ASSUME NEW g \in files, Sorts(f, g) PROVE g \in Later(f)
    OBVIOUS
  <2>1. g.by = "shortr" /\ f.at < g.at
    BY DEF Sorts
  <2>2. g \in attempts
    BY <2>1 DEF KeptInv, ScheduledInv
  <2>3. g \in Name /\ f \in Name
    BY DEF KeptInv, FilesInv, BackupsTypeOK, Surplus
  <2>4. g.at > f.at
    BY <2>1, <2>3, BackupsAssumption DEF Name
  <2> QED
    BY <2>2, <2>4 DEF Later
<1>3. IsFiniteSet(Later(f))
  BY FS_Subset DEF KeptInv, ScheduledInv, Later
<1>4. /\ Cardinality(Behind) \in Nat /\ Cardinality(Later(f)) \in Nat
      /\ Cardinality(Behind) <= Cardinality(Later(f))
  BY <1>2, <1>3, FS_Subset, FS_CardinalityType
<1> QED
  BY <1>1, <1>4, BackupsAssumption DEF Outdated

\* The more attempts, the more are later.
LEMMA StaysOutdated ==
  ASSUME IsFiniteSet(attempts'), attempts \subseteq attempts', NEW f, Outdated(f)
  PROVE  Outdated(f)'
<1>1. Later(f) \subseteq Later(f)'
  BY DEF Later
<1>2. IsFiniteSet(Later(f)')
  BY FS_Subset DEF Later
<1>3. /\ Cardinality(Later(f)) \in Nat /\ Cardinality(Later(f)') \in Nat
      /\ Cardinality(Later(f)) <= Cardinality(Later(f)')
  BY <1>1, <1>2, FS_Subset, FS_CardinalityType
<1> QED
  BY <1>3, BackupsAssumption DEF Outdated

\* Steps that begin no scheduled snapshot, complete none, and take none out.
LEMMA KeptFrame ==
  ASSUME KeptInv, UNCHANGED <<attempts, kept>>,
         doomed' \subseteq doomed,
         \A f \in files' : f.by = "shortr" => f \in files,
         \A f \in whole : f.by = "shortr" => f \in whole'
  PROVE  ScheduledInv' /\ DoomedInv' /\ NewestSnapshotsStay'
<1>1. ScheduledInv'
  BY DEF KeptInv, ScheduledInv
<1>2. \A f : Outdated(f)' <=> Outdated(f)
  BY DEF Outdated, Later
<1>3. DoomedInv'
  BY <1>2 DEF KeptInv, DoomedInv
<1>4. \A f \in kept : f.by = "shortr"
  BY DEF KeptInv, ScheduledInv, FilesInv, BackupsTypeOK
<1>5. NewestSnapshotsStay'
  BY <1>2, <1>4 DEF KeptInv, NewestSnapshotsStay, Outdated, Later
<1> QED
  BY <1>1, <1>3, <1>5

LEMMA KeptBegin ==
  ASSUME KeptInv, BeginBackup
  PROVE  ScheduledInv' /\ DoomedInv' /\ NewestSnapshotsStay'
<1> DEFINE f == Named("shortr")
<1>1. f.by = "shortr"
  BY NamedType DEF KeptInv, FilesInv
<1>2. /\ files' = files \cup {f} /\ attempts' = attempts \cup {f}
      /\ UNCHANGED <<whole, doomed, kept>>
  BY DEF BeginBackup
<1> HIDE DEF f
<1>3. IsFiniteSet(attempts')
  BY <1>2, FS_AddElement DEF KeptInv, ScheduledInv
<1>4. ScheduledInv'
  BY <1>1, <1>2, <1>3 DEF KeptInv, ScheduledInv
<1>5. \A g : Outdated(g) => Outdated(g)'
  BY <1>2, <1>3, StaysOutdated
<1>6. DoomedInv'
  BY <1>2, <1>5 DEF KeptInv, DoomedInv
<1>7. NewestSnapshotsStay'
  BY <1>2, <1>5 DEF KeptInv, NewestSnapshotsStay, Outdated, Later
<1> QED
  BY <1>4, <1>6, <1>7

LEMMA KeptEnd ==
  ASSUME KeptInv, EndBackup
  PROVE  ScheduledInv' /\ DoomedInv' /\ NewestSnapshotsStay'
<1>1. /\ whole' = whole \cup {backupFile} /\ kept' = kept \cup {backupFile}
      /\ UNCHANGED <<files, doomed, attempts>>
  BY DEF EndBackup
<1>2. ScheduledInv'
  BY <1>1 DEF KeptInv, ScheduledInv
<1>3. DoomedInv'
  BY <1>1 DEF KeptInv, DoomedInv, Outdated, Later
<1>4. NewestSnapshotsStay'
  BY <1>1 DEF KeptInv, NewestSnapshotsStay
<1> QED
  BY <1>2, <1>3, <1>4

LEMMA KeptList ==
  ASSUME KeptInv, ListBackups
  PROVE  ScheduledInv' /\ DoomedInv' /\ NewestSnapshotsStay'
<1>1. doomed' = Surplus /\ UNCHANGED <<files, whole, attempts, kept>>
  BY DEF ListBackups
<1>2. ScheduledInv' /\ NewestSnapshotsStay'
  BY <1>1 DEF KeptInv, ScheduledInv, NewestSnapshotsStay
<1>3. \A f : Outdated(f)' <=> Outdated(f)
  BY <1>1 DEF Outdated, Later
<1>4. DoomedInv'
  BY <1>1, <1>3, SurplusIsOutdated DEF DoomedInv
<1> QED
  BY <1>2, <1>4

\* What is removed was outdated.
LEMMA KeptRemove ==
  ASSUME KeptInv, RemoveBackup
  PROVE  ScheduledInv' /\ DoomedInv' /\ NewestSnapshotsStay'
<1>1. PICK f \in doomed :
        /\ doomed' = doomed \ {f}
        /\ \/ files' = files \ {f} /\ whole' = whole \ {f}
           \/ UNCHANGED <<files, whole>>
  BY DEF RemoveBackup
<1>2. UNCHANGED <<attempts, kept>>
  BY DEF RemoveBackup
<1>3. \A g : Outdated(g)' <=> Outdated(g)
  BY <1>2 DEF Outdated, Later
<1>4. ScheduledInv' /\ DoomedInv'
  BY <1>1, <1>2, <1>3 DEF KeptInv, ScheduledInv, DoomedInv
<1>5. \A g \in kept : g.by = "shortr" /\ (g \in whole \/ Outdated(g))
  BY DEF KeptInv, ScheduledInv, FilesInv, BackupsTypeOK, NewestSnapshotsStay, Outdated, Later
<1>6. \A g \in kept : g \in whole' \/ Outdated(g)'
  <2> SUFFICES ASSUME NEW g \in kept PROVE g \in whole' \/ Outdated(g)'
    OBVIOUS
  <2>1. CASE g = f
    BY <1>1, <1>3, <1>5, <2>1 DEF KeptInv, DoomedInv
  <2>2. CASE g # f
    BY <1>1, <1>3, <1>5, <2>2
  <2> QED
    BY <2>1, <2>2
<1>7. NewestSnapshotsStay'
  BY <1>2, <1>6 DEF NewestSnapshotsStay, Outdated, Later
<1> QED
  BY <1>4, <1>7

LEMMA KeptBreak ==
  ASSUME KeptInv, BreakBackup \/ EndPrune
  PROVE  ScheduledInv' /\ DoomedInv' /\ NewestSnapshotsStay'
<1>1. /\ UNCHANGED <<attempts, kept, whole>>
      /\ doomed' \subseteq doomed /\ files' \subseteq files
  BY DEF BreakBackup, EndPrune, BackupEnds
<1> QED
  BY <1>1, KeptFrame

LEMMA KeptManual ==
  ASSUME KeptInv, NEW a \in Askers, BeginManual(a) \/ EndManual(a) \/ BreakManual(a)
  PROVE  ScheduledInv' /\ DoomedInv' /\ NewestSnapshotsStay'
<1>1. UNCHANGED <<attempts, kept, doomed>>
  BY DEF BeginManual, EndManual, BreakManual, backupJobVars
<1>2. whole \subseteq whole'
  BY DEF BeginManual, EndManual, BreakManual
<1>3. Named("manual").by = "manual"
  BY NamedType DEF KeptInv, FilesInv
<1>4. \A f \in files' : f.by = "shortr" => f \in files
  BY <1>3 DEF BeginManual, EndManual, BreakManual
<1> QED
  BY <1>1, <1>2, <1>4, KeptFrame

LEMMA KeptNext == KeptInv /\ [BackupsNext]_backupsVars => KeptInv'
<1> SUFFICES ASSUME KeptInv, [BackupsNext]_backupsVars
             PROVE  ScheduledInv' /\ DoomedInv' /\ NewestSnapshotsStay'
  BY FilesNext DEF KeptInv
<1>1. CASE UNCHANGED backupsVars
  BY <1>1, KeptFrame DEF backupsVars, backupJobVars
<1>2. ASSUME NEW t \in 0..MaxSecond, SetClock(t)
      PROVE  ScheduledInv' /\ DoomedInv' /\ NewestSnapshotsStay'
  BY <1>2, KeptFrame DEF SetClock, backupJobVars
<1> QED
  BY <1>1, <1>2, KeptBegin, KeptEnd, KeptList, KeptRemove, KeptBreak, KeptManual
  DEF BackupsNext

\* A scheduled snapshot is there until as many later ones have been begun as
\* are to be kept, whatever manual snapshots, failures and the clock do.
THEOREM SnapshotsStay == BackupsSpec => []NewestSnapshotsStay
<1>1. BackupsInit => KeptInv
  BY KeptInit
<1>2. KeptInv /\ [BackupsNext]_backupsVars => KeptInv'
  BY KeptNext
<1>3. KeptInv => NewestSnapshotsStay
  BY DEF KeptInv
<1> QED
  BY <1>1, <1>2, <1>3, PTL DEF BackupsSpec

-----------------------------------------------------------------------------
(* Pages: the order of a query.                                            *)

LEMMA ValueRange ==
  ASSUME PagesTypeOK, NEW r \in Rows
  PROVE  value[r] \in Int /\ r \in Int
BY PagesAssumption DEF PagesTypeOK

\* Comes is a strict total order of pairs of a value and an id.
LEMMA ComesIsStrict ==
  ASSUME NEW v \in Int, NEW r \in Int, NEW w \in Int, NEW q \in Int,
         Comes(v, r, w, q)
  PROVE  ~Comes(w, q, v, r)
BY DEF Comes, Less

LEMMA ComesIsTransitive ==
  ASSUME NEW u \in Int, NEW p \in Int, NEW v \in Int, NEW r \in Int,
         NEW w \in Int, NEW q \in Int,
         Comes(u, p, v, r), Comes(v, r, w, q)
  PROVE  Comes(u, p, w, q)
BY DEF Comes, Less

LEMMA ComesIsTotal ==
  ASSUME NEW v \in Int, NEW r \in Int, NEW w \in Int, NEW q \in Int, r # q
  PROVE  Comes(v, r, w, q) \/ Comes(w, q, v, r)
BY DEF Comes, Less

\* A page has, with a row, everything of the rest that comes before it.
LEMMA PageIsPrefix ==
  ASSUME PagesTypeOK, NEW last \in Page, NEW r \in Rest, Precedes(r, last)
  PROVE  r \in Page
<1> DEFINE Before(x) == {q \in Rest : Precedes(q, x)}
<1>1. Rest \subseteq Rows /\ last \in Rest
  BY DEF Rest, Page, PagesTypeOK
<1>2. \A x \in Rows : value[x] \in Int /\ x \in Int
  BY ValueRange
<1>3. Before(r) \subseteq Before(last)
  <2> SUFFICES ASSUME NEW q \in Rest, Precedes(q, r) PROVE Precedes(q, last)
    OBVIOUS
  <2> QED
    BY <1>1, <1>2, ComesIsTransitive DEF Precedes
<1>4. IsFiniteSet(Before(last))
  <2>1. Before(last) \subseteq Rows
    BY <1>1
  <2> QED
    BY <2>1, PagesAssumption, FS_Subset
<1>5. /\ Cardinality(Before(r)) \in Nat
      /\ Cardinality(Before(last)) \in Nat
      /\ Cardinality(Before(r)) <= Cardinality(Before(last))
  BY <1>3, <1>4, FS_Subset, FS_CardinalityType
<1>6. Cardinality(Before(last)) < PageSize
  BY DEF Page
<1>7. Cardinality(Before(r)) < PageSize
  BY <1>5, <1>6, PagesAssumption
<1> QED
  BY <1>7 DEF Page

-----------------------------------------------------------------------------
(* Type correctness.                                                       *)

LEMMA PagesTypesInit == PagesInit => PagesTypeOK
BY DEF PagesInit, PagesTypeOK, Cursor, Start

LEMMA PageTypes ==
  ASSUME PagesTypeOK
  PROVE  Page \subseteq Rest /\ Rest \subseteq Rows
BY DEF PagesTypeOK, Page, Rest

LEMMA PagesTypesNext ==
  ASSUME PagesTypeOK, [PagesNext]_pagesVars
  PROVE  PagesTypeOK'
<1>1. CASE UNCHANGED pagesVars
  BY <1>1 DEF PagesTypeOK, pagesVars, readerVars
<1>2. CASE BeginReading
  BY <1>2 DEF PagesTypeOK, BeginReading, Cursor
<1>3. CASE ReadPage
  <2>1. PICK last \in Page : pageCursor' = After(value[last], last)
    BY <1>3 DEF ReadPage
  <2>2. pageCursor' \in Cursor
    BY <2>1, PageTypes DEF PagesTypeOK, After, Cursor
  <2> QED
    BY <1>3, <2>2, PageTypes DEF PagesTypeOK, ReadPage, Receive
<1>4. CASE ReadLastPage
  BY <1>4, PageTypes DEF PagesTypeOK, ReadLastPage, Receive
<1>5. ASSUME NEW r \in Rows, Enter(r) PROVE PagesTypeOK'
  BY <1>5 DEF PagesTypeOK, Enter, readerVars
<1>6. ASSUME NEW r \in Rows, Leave(r) PROVE PagesTypeOK'
  BY <1>6 DEF PagesTypeOK, Leave, readerVars
<1>7. ASSUME NEW r \in Rows, NEW v \in Sortable, Change(r, v) PROVE PagesTypeOK'
  BY <1>7 DEF PagesTypeOK, Change, readerVars
<1> QED
  BY <1>1, <1>2, <1>3, <1>4, <1>5, <1>6, <1>7 DEF PagesNext

\* All variables of Pages keep their types.
THEOREM PagesTypeCorrect == PagesSpec => []PagesTypeOK
<1>1. PagesInit => PagesTypeOK
  BY PagesTypesInit
<1>2. PagesTypeOK /\ [PagesNext]_pagesVars => PagesTypeOK'
  BY PagesTypesNext
<1> QED
  BY <1>1, <1>2, PTL DEF PagesSpec

-----------------------------------------------------------------------------
(* The cursor divides the rows that have not moved: those before it, or at *)
(* it, are the ones that were returned; the steady ones behind it are still *)
(* to come.                                                                *)

StillToCome ==
  reading => \A r \in steady \ moved : r \notin returned => r \in Rest

NotAgain == reading => \A r \in returned \ moved : ~BehindCursor(r)

PagesInv == PagesTypeOK /\ StillToCome /\ NotAgain /\ EveryRowOnce

\* The cursor a page ends with.
LEMMA PageKeeps ==
  ASSUME PagesInv, ReadPage
  PROVE  StillToCome' /\ NotAgain' /\ EveryRowOnce'
<1> PICK last \in Page :
      /\ \A r \in Page : r = last \/ Precedes(r, last)
      /\ pageCursor' = After(value[last], last)
  BY DEF ReadPage
<1>1. /\ returned' = returned \cup Page
      /\ repeated' = repeated \cup (returned \cap Page)
      /\ UNCHANGED <<listed, value, order, steady, moved, reading>> /\ reading
  BY DEF ReadPage, Receive
<1>2. PagesTypeOK /\ Page \subseteq Rest /\ Rest \subseteq Rows /\ last \in Rows
  BY PageTypes DEF PagesInv
<1>3. \A r \in Rows : value[r] \in Int /\ r \in Int
  BY <1>2, ValueRange
<1>4. \A r : BehindCursor(r)' <=> Precedes(last, r)
  BY <1>1 DEF BehindCursor, After, Precedes, Comes
<1>5. StillToCome'
  <2> SUFFICES ASSUME NEW r \in steady \ moved, r \notin returned, r \notin Page
               PROVE  r \in listed /\ BehindCursor(r)'
    BY <1>1 DEF StillToCome, Rest
  <2>1. r \in Rest
    BY <1>1 DEF PagesInv, StillToCome
  <2>2. ~Precedes(r, last) /\ r # last
    BY <1>2, <2>1, PageIsPrefix
  <2>3. Precedes(last, r)
    BY <1>2, <1>3, <2>1, <2>2, ComesIsTotal DEF Precedes
  <2> QED
    BY <1>4, <2>1, <2>3 DEF Rest
<1>6. NotAgain'
  <2> SUFFICES ASSUME NEW r \in (returned \cup Page) \ moved
               PROVE  ~Precedes(last, r)
    BY <1>1, <1>4 DEF NotAgain
  <2>1. r \in Rows
    BY <1>2 DEF PagesTypeOK
  <2>2. CASE r \in Page
    BY <1>2, <1>3, <2>1, <2>2, ComesIsStrict DEF Precedes
  <2>3. CASE r \in returned
    <3> SUFFICES ASSUME Precedes(last, r) PROVE FALSE
      OBVIOUS
    <3>1. ~BehindCursor(r) /\ BehindCursor(last)
      BY <1>1, <1>2, <2>3 DEF PagesInv, NotAgain, Rest
    <3>2. /\ pageCursor.at = "row"
          /\ Comes(pageCursor.value, pageCursor.id, value[last], last)
      BY <3>1 DEF BehindCursor
    <3>3. pageCursor.value \in Int /\ pageCursor.id \in Int
      <4>1. pageCursor \in Cursor /\ pageCursor # Start
        BY <1>2, <3>2 DEF PagesTypeOK, Start
      <4>2. pageCursor \in [at : {"row"}, value : Sortable, id : Rows]
        BY <4>1 DEF Cursor
      <4>3. pageCursor.value \in Sortable /\ pageCursor.id \in Rows
        BY <4>2
      <4> QED
        BY <4>3, PagesAssumption
    <3>4. Comes(pageCursor.value, pageCursor.id, value[r], r)
      BY <1>2, <1>3, <2>1, <3>2, <3>3, ComesIsTransitive DEF Precedes
    <3> QED
      BY <3>1, <3>2, <3>4 DEF BehindCursor
  <2> QED
    BY <2>2, <2>3
<1>7. EveryRowOnce'
  BY <1>1, <1>2 DEF PagesInv, EveryRowOnce, NotAgain, Rest
<1> QED
  BY <1>5, <1>6, <1>7

LEMMA LastPageKeeps ==
  ASSUME PagesInv, ReadLastPage
  PROVE  StillToCome' /\ NotAgain' /\ EveryRowOnce'
<1>1. /\ returned' = returned \cup Rest
      /\ repeated' = repeated \cup (returned \cap Rest)
      /\ UNCHANGED <<steady, moved>> /\ reading /\ ~reading'
  BY DEF ReadLastPage, Receive, PagesInv, PagesTypeOK
<1>2. steady' \ moved' \subseteq returned'
  BY <1>1 DEF PagesInv, StillToCome
<1>3. repeated' \subseteq moved'
  BY <1>1 DEF PagesInv, EveryRowOnce, NotAgain, Rest
<1> QED
  BY <1>1, <1>2, <1>3 DEF StillToCome, NotAgain, EveryRowOnce

LEMMA BeginKeeps ==
  ASSUME PagesInv, BeginReading
  PROVE  StillToCome' /\ NotAgain' /\ EveryRowOnce'
<1>1. \A r : BehindCursor(r)'
  BY DEF BeginReading, BehindCursor, Start
<1> QED
  BY <1>1 DEF BeginReading, StillToCome, NotAgain, EveryRowOnce, Rest

\* A row that has not moved is where it was, on its side of the cursor.
LEMMA SameSide ==
  ASSUME UNCHANGED <<pageCursor, order>>, NEW r, value'[r] = value[r]
  PROVE  BehindCursor(r)' <=> BehindCursor(r)
BY DEF BehindCursor, Comes

LEMMA PagesInvNext == PagesInv /\ [PagesNext]_pagesVars => PagesInv'
<1> SUFFICES ASSUME PagesInv, [PagesNext]_pagesVars
             PROVE  StillToCome' /\ NotAgain' /\ EveryRowOnce'
  BY PagesTypesNext DEF PagesInv
<1>1. CASE UNCHANGED pagesVars
  <2>1. UNCHANGED <<listed, value, order, reading, pageCursor, returned, repeated, steady, moved>>
    BY <1>1 DEF pagesVars, readerVars
  <2>2. \A r : BehindCursor(r)' <=> BehindCursor(r)
    BY <2>1, SameSide
  <2> QED
    BY <2>1, <2>2 DEF PagesInv, StillToCome, NotAgain, EveryRowOnce, Rest
<1>2. CASE BeginReading
  BY <1>2, BeginKeeps
<1>3. CASE ReadPage
  BY <1>3, PageKeeps
<1>4. CASE ReadLastPage
  BY <1>4, LastPageKeeps
<1>5. ASSUME NEW r \in Rows, Enter(r)
      PROVE  StillToCome' /\ NotAgain' /\ EveryRowOnce'
  <2>1. /\ UNCHANGED <<value, order, reading, pageCursor, returned, repeated, steady, moved>>
        /\ listed \subseteq listed'
    BY <1>5 DEF Enter, readerVars
  <2>2. \A q : BehindCursor(q)' <=> BehindCursor(q)
    BY <2>1, SameSide
  <2> QED
    BY <2>1, <2>2 DEF PagesInv, StillToCome, NotAgain, EveryRowOnce, Rest
<1>6. ASSUME NEW r \in Rows, Leave(r)
      PROVE  StillToCome' /\ NotAgain' /\ EveryRowOnce'
  <2>1. /\ UNCHANGED <<value, order, reading, pageCursor, returned, repeated, moved>>
        /\ listed' = listed \ {r}
        /\ steady' = IF r \in returned THEN steady ELSE steady \ {r}
    BY <1>6 DEF Leave, readerVars
  <2>2. \A q : BehindCursor(q)' <=> BehindCursor(q)
    BY <2>1, SameSide
  <2>3. steady' \subseteq steady /\ \A q \in steady' : q \notin returned => q # r
    BY <2>1
  <2>4. StillToCome'
    BY <2>1, <2>2, <2>3 DEF PagesInv, StillToCome, Rest
  <2>5. NotAgain' /\ EveryRowOnce'
    BY <2>1, <2>2, <2>3 DEF PagesInv, NotAgain, EveryRowOnce
  <2> QED
    BY <2>4, <2>5
<1>7. ASSUME NEW r \in Rows, NEW v \in Sortable, Change(r, v)
      PROVE  StillToCome' /\ NotAgain' /\ EveryRowOnce'
  <2>1. /\ UNCHANGED <<listed, order, reading, pageCursor, returned, repeated, steady>>
        /\ moved' = moved \cup {r}
        /\ value' = [value EXCEPT ![r] = v]
    BY <1>7 DEF Change, readerVars
  <2>2. \A q \in Rows \ {r} : value'[q] = value[q]
    BY <2>1 DEF PagesInv, PagesTypeOK
  <2>3. \A q \in Rows \ {r} : BehindCursor(q)' <=> BehindCursor(q)
    BY <2>1, <2>2, SameSide
  <2>4. steady \subseteq Rows /\ returned \subseteq Rows
    BY DEF PagesInv, PagesTypeOK
  <2> QED
    BY <2>1, <2>3, <2>4 DEF PagesInv, StillToCome, NotAgain, EveryRowOnce, Rest
<1> QED
  BY <1>1, <1>2, <1>3, <1>4, <1>5, <1>6, <1>7 DEF PagesNext

LEMMA PagesInvInit == PagesInit => PagesInv
BY PagesTypesInit DEF PagesInit, PagesInv, StillToCome, NotAgain, EveryRowOnce

\* A reader who has come to the end was given every row that stayed in the
\* list unchanged, and none twice that had not moved.
THEOREM RowsAreReturnedOnce == PagesSpec => []EveryRowOnce
<1>1. PagesInit => PagesInv
  BY PagesInvInit
<1>2. PagesInv /\ [PagesNext]_pagesVars => PagesInv'
  BY PagesInvNext
<1>3. PagesInv => EveryRowOnce
  BY DEF PagesInv
<1> QED
  BY <1>1, <1>2, <1>3, PTL DEF PagesSpec

=============================================================================
