------------------------------ MODULE Startup -------------------------------
(***************************************************************************)
(* Processes that open one database: servers and "shortr migrate" with     *)
(* Open, administrative commands with OpenShared, several replicas of      *)
(* several releases on PostgreSQL (internal/store/store.go, lock_unix.go,  *)
(* cmd/shortr).  Each brings the schema up to its own release and serves.  *)
(*                                                                         *)
(* On SQLite a server holds a file lock for its lifetime; commands do      *)
(* without.  On PostgreSQL an advisory lock is taken on a connection of    *)
(* the pool, and belongs to that connection: if it breaks, the lock is     *)
(* gone and the process goes on with another connection.  Opening has ten  *)
(* seconds altogether; a process that fails closes its pool and exits,     *)
(* and is started again.                                                   *)
(***************************************************************************)
EXTENDS Integers

CONSTANTS
  Processes,     \* processes on one database
  Servers,       \* those that use Open
  Release,       \* the newest migration each of them has
  MaxMigrations, \* bound: migrations there are
  MaxStartFaults, \* bound: connections lost, timeouts, errors and exits
  Nobody

ASSUME StartupAssumption ==
  /\ MaxMigrations \in Nat /\ MaxStartFaults \in Nat
  /\ Servers \subseteq Processes
  /\ Release \in [Processes -> 1..MaxMigrations]
  /\ Nobody \notin Processes

VARIABLES
  driver,    \* sqlite or postgres
  recorded,  \* schema_migrations
  done,      \* how often the statements of each migration took effect
  openAt,    \* where each process is
  pending,   \* migrations it still has to apply
  fileLock,  \* the server that holds shortr.lock
  advisory,  \* the process with the connection that holds the advisory lock
  startFaults

dbVars      == <<recorded, done>>
lockVars    == <<fileLock, advisory>>
startupVars == <<driver, dbVars, openAt, pending, lockVars, startFaults>>

-----------------------------------------------------------------------------
Migrations == 1..MaxMigrations
OpenSteps  == {"off", "table", "lock", "read", "apply", "up"}

StartupTypeOK ==
  /\ driver \in {"sqlite", "postgres"}
  /\ recorded \in SUBSET Migrations
  /\ done \in [Migrations -> Nat]
  /\ openAt \in [Processes -> OpenSteps]
  /\ pending \in [Processes -> SUBSET Migrations]
  /\ fileLock \in Servers \cup {Nobody}
  /\ advisory \in Processes \cup {Nobody}
  /\ startFaults \in 0..MaxStartFaults

\* A database at the end of some earlier release, or an empty one.
StartupInit ==
  /\ driver \in {"sqlite", "postgres"}
  /\ \E n \in 0..MaxMigrations :
       /\ recorded = 1..n
       /\ done = [v \in Migrations |-> IF v <= n THEN 1 ELSE 0]
  /\ openAt = [p \in Processes |-> "off"]
  /\ pending = [p \in Processes |-> {}]
  /\ fileLock = Nobody /\ advisory = Nobody
  /\ startFaults = 0

-----------------------------------------------------------------------------
GoTo(p, step) == openAt' = [openAt EXCEPT ![p] = step]

StartFault == startFaults < MaxStartFaults /\ startFaults' = startFaults + 1

\* A mutant: the existence of the file is the lock.
Exit_KeepsFile(p) ==
  /\ GoTo(p, "off")
  /\ pending' = [pending EXCEPT ![p] = {}]
  /\ advisory' = IF advisory = p THEN Nobody ELSE advisory
  /\ UNCHANGED fileLock

\* Close, or the end of the process: the kernel drops the file lock, and the
\* database the locks of its connections.
Exit(p) ==
  /\ GoTo(p, "off")
  /\ pending' = [pending EXCEPT ![p] = {}]
  /\ fileLock' = IF fileLock = p THEN Nobody ELSE fileLock
  /\ advisory' = IF advisory = p THEN Nobody ELSE advisory

\* open: a server that finds the file locked exits at once.
Open(p) ==
  /\ openAt[p] = "off"
  /\ IF driver = "sqlite" /\ p \in Servers
       THEN fileLock = Nobody /\ fileLock' = p
       ELSE UNCHANGED fileLock
  /\ GoTo(p, "table")
  /\ UNCHANGED <<driver, dbVars, pending, advisory, startFaults>>

\* CREATE TABLE IF NOT EXISTS.
MakeTable(p) ==
  /\ openAt[p] = "table"
  /\ GoTo(p, IF driver = "postgres" THEN "lock" ELSE "read")
  /\ UNCHANGED <<driver, dbVars, pending, lockVars, startFaults>>

\* pg_advisory_lock waits for whoever has the lock ...
TakeLock(p) ==
  /\ openAt[p] = "lock"
  /\ advisory \in {Nobody, p}
  /\ advisory' = p
  /\ GoTo(p, "read")
  /\ UNCHANGED <<driver, dbVars, pending, fileLock, startFaults>>

\* ... until the ten seconds are over.
WaitInVain(p) ==
  /\ openAt[p] = "lock"
  /\ advisory \notin {Nobody, p}
  /\ Exit(p)
  /\ UNCHANGED <<driver, dbVars, startFaults>>

\* What is recorded, or only the rows that came before an error nobody looks
\* at (rows.Err).
ReadMigrations(p) ==
  /\ openAt[p] = "read"
  /\ \E seen \in SUBSET recorded :
       /\ IF seen = recorded THEN UNCHANGED startFaults ELSE StartFault
       /\ pending' = [pending EXCEPT ![p] = 1..Release[p] \ seen]
  /\ GoTo(p, "apply")
  /\ UNCHANGED <<driver, dbVars, lockVars>>

\* A mutant: schema_migrations without a primary key.
Fresh_Always(v) == TRUE

\* A migration and its record are one transaction, which the primary key of
\* schema_migrations refuses if the record is there already.
Fresh(v) == v \notin recorded

Record(v) ==
  /\ recorded' = recorded \cup {v}
  /\ done' = [done EXCEPT ![v] = @ + 1]

\* applyMigration, for the lowest version that is pending; whoever is refused
\* gives up.
ApplyMigration(p) ==
  /\ openAt[p] = "apply"
  /\ \E v \in pending[p] :
       /\ \A w \in pending[p] : v <= w
       /\ \/ /\ Fresh(v)
             /\ Record(v)
             /\ pending' = [pending EXCEPT ![p] = @ \ {v}]
             /\ UNCHANGED <<openAt, lockVars, startFaults>>
          \/ /\ ~Fresh(v)
             /\ Exit(p)
             /\ UNCHANGED <<dbVars, startFaults>>
          \/ /\ Fresh(v)          \* the COMMIT reports an error, but was done
             /\ StartFault
             /\ Record(v)
             /\ Exit(p)
  /\ UNCHANGED driver

\* The deferred unlock, whose error is ignored: if the ten seconds are over it
\* is not sent, and if the connection was lost there is nothing to unlock.
Serve(p) ==
  /\ openAt[p] = "apply" /\ pending[p] = {}
  /\ GoTo(p, "up")
  /\ \/ /\ advisory' = IF advisory = p THEN Nobody ELSE advisory
        /\ UNCHANGED startFaults
     \/ /\ StartFault
        /\ UNCHANGED advisory
  /\ UNCHANGED <<driver, dbVars, pending, fileLock>>

\* Any statement may fail, time run out, or the process be stopped.
Fail(p) ==
  /\ openAt[p] # "off"
  /\ StartFault
  /\ Exit(p)
  /\ UNCHANGED <<driver, dbVars>>

\* The connection with the lock breaks; the pool opens another.
LoseConnection(p) ==
  /\ advisory = p
  /\ StartFault
  /\ advisory' = Nobody
  /\ UNCHANGED <<driver, dbVars, openAt, pending, fileLock>>

\* A pool closes each connection after some time (SetConnMaxLifetime).
Recycle(p) ==
  /\ advisory = p /\ openAt[p] = "up"
  /\ advisory' = Nobody
  /\ UNCHANGED <<driver, dbVars, openAt, pending, fileLock, startFaults>>

Opening(p) ==
  \/ Open(p) \/ MakeTable(p) \/ TakeLock(p) \/ WaitInVain(p)
  \/ ReadMigrations(p) \/ ApplyMigration(p) \/ Serve(p)

StartupNext ==
  \E p \in Processes : Opening(p) \/ Fail(p) \/ LoseConnection(p) \/ Recycle(p)

StartupSpec == StartupInit /\ [][StartupNext]_startupVars

\* A process that has ended is started again, its statements return, and pools
\* recycle their connections.
FairStartupSpec ==
  /\ StartupSpec
  /\ \A p \in Processes :
       /\ WF_startupVars(Opening(p))
       /\ WF_startupVars(Recycle(p))

-----------------------------------------------------------------------------
\* Whoever serves does so on a schema to which each migration of its release
\* has been applied, and no migration is ever applied twice or before the
\* one it builds on: also when the advisory lock is lost half way, when
\* commands and servers open SQLite together, and when a COMMIT was done
\* although it failed (migrate, applyMigration).
ServesItsSchema ==
  /\ \A v \in Migrations :
       /\ done[v] <= 1
       /\ \A w \in Migrations : w < v /\ done[v] = 1 => done[w] = 1
  /\ \A p \in Processes, v \in Migrations :
       openAt[p] = "up" /\ v <= Release[p] => done[v] = 1

\* As long as they are started again, all replicas on PostgreSQL serve in the
\* end, whoever had the lock when it failed, lost its connection or could not
\* unlock; on SQLite one of the servers does, and every command gets through.
StartsInTheEnd ==
  /\ driver = "postgres" => \A p \in Processes : <>[](openAt[p] = "up")
  /\ driver = "sqlite"   => /\ \A p \in Processes \ Servers :
                                 <>[](openAt[p] = "up")
                            /\ Servers # {} => <>[](\E p \in Servers : openAt[p] = "up")

=============================================================================
