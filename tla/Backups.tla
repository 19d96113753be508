------------------------------ MODULE Backups -------------------------------
(***************************************************************************)
(* The directory of SQLite snapshots: the scheduled job that writes one    *)
(* and removes the oldest (internal/jobs/backup.go), beside snapshots that *)
(* an administrator asks for over the API (internal/server/api_admin.go)   *)
(* or on the command line (cmd/shortr/cli.go).                             *)
(*                                                                         *)
(* A snapshot is known by its name alone: who made it and at which second. *)
(* VACUUM INTO refuses to write over one that is there, and leaves part of *)
(* a file behind when it fails or the process ends.  The job lists the     *)
(* directory after it has written its own snapshot and removes names from  *)
(* that list one by one, whatever was added to the directory since.        *)
(***************************************************************************)
EXTENDS Integers, FiniteSets

CONSTANTS
  Askers,     \* manual snapshots in progress: API requests and commands
  BackupKeep, \* SHORTR_BACKUP_KEEP
  MaxSecond,  \* bound: the clock
  NoFile

ASSUME BackupsAssumption == BackupKeep \in Nat \ {0} /\ MaxSecond \in Nat

VARIABLES
  files,      \* names in the directory
  whole,      \* those of snapshots that are complete
  second,     \* the wall clock, which names the files
  backupAt,   \* where the scheduled job is
  backupFile, \* the snapshot it writes
  doomed,     \* names it is going to remove
  manual,     \* the snapshot each asker writes
  attempts,   \* ghost: scheduled snapshots that were begun
  kept        \* ghost: scheduled snapshots that were completed

backupJobVars     == <<backupAt, backupFile, doomed>>
backupsVars == <<files, whole, second, backupJobVars, manual, attempts, kept>>

-----------------------------------------------------------------------------
Name == [by : {"manual", "shortr"}, at : 0..MaxSecond]

\* A mutant: scheduled snapshots sort first.
Sorts_ScheduledFirst(f, g) ==
  \/ f.by = "shortr" /\ g.by = "manual"
  \/ f.by = g.by /\ f.at < g.at

\* The order of sort.Strings.
Sorts(f, g) ==
  \/ f.by = "manual" /\ g.by = "shortr"
  \/ f.by = g.by /\ f.at < g.at

Named(by) == [by |-> by, at |-> second]

BackupsTypeOK ==
  /\ files \in SUBSET Name /\ whole \in SUBSET files
  /\ second \in 0..MaxSecond
  /\ backupAt \in {"idle", "write", "list", "remove"}
  /\ backupFile \in Name \cup {NoFile}
  /\ doomed \in SUBSET Name
  /\ manual \in [Askers -> Name \cup {NoFile}]
  /\ attempts \in SUBSET Name /\ kept \in SUBSET attempts

BackupsInit ==
  /\ files = {} /\ whole = {}
  /\ second = 0
  /\ backupAt = "idle" /\ backupFile = NoFile /\ doomed = {}
  /\ manual = [a \in Askers |-> NoFile]
  /\ attempts = {} /\ kept = {}

-----------------------------------------------------------------------------
\* VACUUM INTO: refused if the name is taken.  What an earlier one left behind
\* may be an empty file, which it writes over.
Writable(f) == f \notin whole /\ \A a \in Askers : manual[a] # f

\* doBackup: on a schedule, and whenever the server starts.
BeginBackup ==
  /\ backupAt = "idle"
  /\ LET f == Named("shortr") IN
       /\ Writable(f)
       /\ files' = files \cup {f}
       /\ backupFile' = f
       /\ attempts' = attempts \cup {f}
  /\ backupAt' = "write"
  /\ UNCHANGED <<whole, second, doomed, manual, kept>>

EndBackup ==
  /\ backupAt = "write"
  /\ whole' = whole \cup {backupFile}
  /\ kept' = kept \cup {backupFile}
  /\ backupAt' = "list"
  /\ UNCHANGED <<files, second, backupFile, doomed, manual, attempts>>

\* pruneBackups: all but the last of the sorted names.
Surplus ==
  {f \in files : Cardinality({g \in files : Sorts(f, g)}) >= BackupKeep}

ListBackups ==
  /\ backupAt = "list"
  /\ doomed' = Surplus
  /\ backupAt' = "remove"
  /\ UNCHANGED <<files, whole, second, backupFile, manual, attempts, kept>>

\* An error of os.Remove is ignored.
RemoveBackup ==
  /\ backupAt = "remove"
  /\ \E f \in doomed :
       /\ \A g \in doomed : ~Sorts(g, f)
       /\ doomed' = doomed \ {f}
       /\ \/ files' = files \ {f} /\ whole' = whole \ {f}
          \/ UNCHANGED <<files, whole>>
  /\ UNCHANGED <<second, backupAt, backupFile, manual, attempts, kept>>

BackupEnds ==
  /\ backupAt' = "idle" /\ backupFile' = NoFile /\ doomed' = {}
  /\ UNCHANGED <<second, manual, attempts, kept>>

EndPrune ==
  /\ backupAt = "remove" /\ doomed = {}
  /\ BackupEnds
  /\ UNCHANGED <<files, whole>>

\* The snapshot fails or runs into its five minutes, the directory cannot be
\* read, or the process ends: part of a file may be left.
BreakBackup ==
  /\ backupAt # "idle"
  /\ BackupEnds
  /\ \/ UNCHANGED files
     \/ backupAt = "write" /\ files' = files \ {backupFile}
  /\ UNCHANGED whole

\* handleAdminBackup and cmdBackup.
BeginManual(a) ==
  /\ manual[a] = NoFile
  /\ LET f == Named("manual") IN
       /\ Writable(f)
       /\ files' = files \cup {f}
       /\ manual' = [manual EXCEPT ![a] = f]
  /\ UNCHANGED <<whole, second, backupJobVars, attempts, kept>>

\* The file it has written to may have been removed from the directory.
EndManual(a) ==
  /\ manual[a] # NoFile
  /\ whole' = whole \cup ({manual[a]} \cap files)
  /\ manual' = [manual EXCEPT ![a] = NoFile]
  /\ UNCHANGED <<files, second, backupJobVars, attempts, kept>>

BreakManual(a) ==
  /\ manual[a] # NoFile
  /\ files' \in {files, files \ {manual[a]}}
  /\ manual' = [manual EXCEPT ![a] = NoFile]
  /\ UNCHANGED <<whole, second, backupJobVars, attempts, kept>>

\* The clock goes on, and may be set back.
SetClock(t) ==
  /\ t \in 0..MaxSecond \ {second}
  /\ second' = t
  /\ UNCHANGED <<files, whole, backupJobVars, manual, attempts, kept>>

BackupsNext ==
  \/ BeginBackup \/ EndBackup \/ ListBackups \/ RemoveBackup
  \/ EndPrune \/ BreakBackup
  \/ \E a \in Askers : BeginManual(a) \/ EndManual(a) \/ BreakManual(a)
  \/ \E t \in 0..MaxSecond : SetClock(t)

BackupsSpec == BackupsInit /\ [][BackupsNext]_backupsVars

-----------------------------------------------------------------------------
\* A scheduled snapshot that was completed stays in the directory until the
\* job has begun BackupKeep with a later name, however many manual snapshots
\* are made beside it, whichever attempts fail and leave part of a file, and
\* wherever the process ends (doBackup, pruneBackups).
NewestSnapshotsStay ==
  \A f \in kept :
    \/ f \in whole
    \/ Cardinality({g \in attempts : g.at > f.at}) >= BackupKeep

=============================================================================
