------------------------------ MODULE Settings ------------------------------
(***************************************************************************)
(* The settings an administrator can change while the server runs: the     *)
(* settings table (internal/store/settings.go), the handler that saves     *)
(* them (internal/server/api_admin.go) and the three copies the running    *)
(* server works with (internal/server/live_settings.go): the snapshot the  *)
(* request handlers load, the policy of link creation and the flag of the  *)
(* click writer.                                                           *)
(*                                                                         *)
(* A save reads the whole table, lays the values it was given over it,     *)
(* validates the result, writes its keys one statement at a time, in the   *)
(* order of a Go map, and then puts the result of its first reading into   *)
(* the three copies, one after the other.  Saves overlap, writes fail, and *)
(* the process may end at any point.                                       *)
(*                                                                         *)
(* Only the parsed settings are here.  Site name, the switch of the MCP    *)
(* endpoint and the address service are read from the table whenever they  *)
(* are needed (the last of them in Enrichment).  A row that is missing,    *)
(* empty or null is NoValue: the default of the environment is in force.   *)
(***************************************************************************)
EXTENDS FiniteSets

CONSTANTS
  Saves,     \* requests that save settings at the same time
  Keys,      \* the settings that are parsed into the snapshot
  Values,    \* values that pass validation
  NoValue,   \* nothing stored, or null
  BadValue,  \* a value that does not pass, stored by an older version
  Env        \* the default the environment gives each of them

ASSUME SettingsAssumption ==
  /\ NoValue \notin Values /\ BadValue \notin Values
  /\ NoValue # BadValue

VARIABLES
  settings,  \* the settings table
  copies,    \* what the running server works with
  serving,   \* is the process running?
  saveAt,    \* where each save is
  unwritten, \* the keys it has still to write, with their values
  merged,    \* the snapshot it is going to put into the copies
  alone,     \* ghost: no other save was in progress since it began
  drift      \* ghost: something was written that no save alone has applied

requestVars  == <<saveAt, unwritten, merged>>
settingsVars == <<settings, copies, serving, requestVars, alone, drift>>

-----------------------------------------------------------------------------
Stored   == Values \cup {NoValue, BadValue}
Holders  == {"live", "links", "writer"}
Snapshot == [Keys -> Values \cup {Env[k] : k \in Keys}]

\* A request names some keys: the others are not in its domain.
Request == UNION {[K -> Stored] : K \in SUBSET Keys}

\* parseLiveSettings: a stored value that is valid overrides the default.
Effective(stored) ==
  [k \in Keys |-> IF stored[k] \in Values THEN stored[k] ELSE Env[k]]

\* The errors it reports, which refuse a save.
Valid(stored) == \A k \in Keys : stored[k] # BadValue

\* A mutant: the result of the request alone.
Overlay_RequestOnly(stored, request) ==
  [k \in Keys |-> IF k \in DOMAIN request THEN request[k] ELSE NoValue]

Overlay(stored, request) ==
  [k \in Keys |-> IF k \in DOMAIN request THEN request[k] ELSE stored[k]]

Active == {s \in Saves : saveAt[s] # "idle"}

SettingsTypeOK ==
  /\ settings \in [Keys -> Stored]
  /\ copies \in [Holders -> Snapshot]
  /\ serving \in BOOLEAN
  /\ saveAt \in [Saves -> {"idle", "write", "links", "writer"}]
  /\ unwritten \in [Saves -> Request]
  /\ merged \in [Saves -> Snapshot]
  /\ alone \in [Saves -> BOOLEAN]
  /\ drift \in BOOLEAN

Nothing   == [k \in {} |-> NoValue]
Defaults  == [k \in Keys |-> Env[k]]

\* The table is what earlier versions left in it; the process is not started.
SettingsInit ==
  /\ settings \in [Keys -> Stored]
  /\ copies = [h \in Holders |-> Defaults]
  /\ serving = FALSE
  /\ saveAt = [s \in Saves |-> "idle"]
  /\ unwritten = [s \in Saves |-> Nothing]
  /\ merged = [s \in Saves |-> Defaults]
  /\ alone = [s \in Saves |-> FALSE]
  /\ drift = FALSE

\* The handler of s returns: what it knew is gone.
Returns(s) ==
  /\ saveAt' = [saveAt EXCEPT ![s] = "idle"]
  /\ unwritten' = [unwritten EXCEPT ![s] = Nothing]
  /\ merged' = [merged EXCEPT ![s] = Defaults]
  /\ alone' = [alone EXCEPT ![s] = FALSE]

-----------------------------------------------------------------------------
\* reloadSettings when the server is made: a table that cannot be read leaves
\* the copies as the environment has them.
Reload(readable) ==
  /\ ~serving
  /\ serving' = TRUE
  /\ copies' = [h \in Holders |-> IF readable THEN Effective(settings)
                                         ELSE Defaults]
  /\ drift' = ~readable
  /\ UNCHANGED <<settings, requestVars, alone>>

\* The process ends, and with it the requests it handles.
Halt ==
  /\ serving
  /\ serving' = FALSE
  /\ saveAt' = [s \in Saves |-> "idle"]
  /\ unwritten' = [s \in Saves |-> Nothing]
  /\ merged' = [s \in Saves |-> Defaults]
  /\ alone' = [s \in Saves |-> FALSE]
  /\ UNCHANGED <<settings, copies, drift>>

\* A save reads the table and validates what would be in it.  One that is
\* refused, or cannot read, changes nothing.
BeginSave(s, request) ==
  /\ serving
  /\ saveAt[s] = "idle"
  /\ Valid(Overlay(settings, request))
  /\ saveAt' = [saveAt EXCEPT ![s] = "write"]
  /\ unwritten' = [unwritten EXCEPT ![s] = request]
  /\ merged' = [merged EXCEPT ![s] = Effective(Overlay(settings, request))]
  /\ alone' = [t \in Saves |-> t = s /\ Active = {}]
  /\ UNCHANGED <<settings, copies, serving, drift>>

\* SetSetting, one key after the other.
SaveKey(s, k) ==
  /\ saveAt[s] = "write"
  /\ k \in DOMAIN unwritten[s]
  /\ settings' = [settings EXCEPT ![k] = unwritten[s][k]]
  /\ unwritten' = [unwritten EXCEPT ![s] =
                     [j \in DOMAIN unwritten[s] \ {k} |-> unwritten[s][j]]]
  /\ drift' = TRUE
  /\ UNCHANGED <<copies, serving, saveAt, merged, alone>>

\* SetSetting returns an error, which may hide that it was done: the handler
\* returns, with some keys written and the copies as they were.
SaveFails(s, k) ==
  /\ saveAt[s] = "write"
  /\ k \in DOMAIN unwritten[s]
  /\ \/ UNCHANGED <<settings, drift>>
     \/ /\ settings' = [settings EXCEPT ![k] = unwritten[s][k]]
        /\ drift' = TRUE
  /\ Returns(s)
  /\ UNCHANGED <<copies, serving>>

\* applySettings: the snapshot, the policy and the flag are stored in turn.
ApplyLive(s) ==
  /\ saveAt[s] = "write"
  /\ DOMAIN unwritten[s] = {}
  /\ copies' = [copies EXCEPT !["live"] = merged[s]]
  /\ saveAt' = [saveAt EXCEPT ![s] = "links"]
  /\ UNCHANGED <<settings, serving, unwritten, merged, alone, drift>>

ApplyLinks(s) ==
  /\ saveAt[s] = "links"
  /\ copies' = [copies EXCEPT !["links"] = merged[s]]
  /\ saveAt' = [saveAt EXCEPT ![s] = "writer"]
  /\ UNCHANGED <<settings, serving, unwritten, merged, alone, drift>>

\* With the last of the three the save is over.
ApplyWriter(s) ==
  /\ saveAt[s] = "writer"
  /\ copies' = [copies EXCEPT !["writer"] = merged[s]]
  /\ Returns(s)
  /\ drift' = ~alone[s]
  /\ UNCHANGED <<settings, serving>>

SettingsNext ==
  \/ \E readable \in BOOLEAN : Reload(readable)
  \/ Halt
  \/ \E s \in Saves :
       \/ \E request \in Request : BeginSave(s, request)
       \/ \E k \in Keys : SaveKey(s, k) \/ SaveFails(s, k)
       \/ ApplyLive(s) \/ ApplyLinks(s) \/ ApplyWriter(s)

SettingsSpec == SettingsInit /\ [][SettingsNext]_settingsVars

-----------------------------------------------------------------------------
\* While no save is in progress the three copies the running server works
\* with agree with each other and with the table, unless a save failed half
\* way, saves overlapped, or the table could not be read at the start; the
\* next save that is alone, or the next start, sets that right
\* (handleAdminPutSettings, applySettings, reloadSettings).
CopiesMatchTable ==
  serving /\ Active = {} /\ ~drift
    => \A h \in Holders : copies[h] = Effective(settings)

=============================================================================
