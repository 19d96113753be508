\* Two saves of two settings; three clicks; four clients and three buckets;
\* three processes of two releases; three seconds of snapshots; three rows;
\* two requests and a key of one account.
SPECIFICATION Spec
CONSTANTS
  Saves = {s1, s2}
  Keys = {k1, k2}
  Values = {v1}
  NoValue = NoValue
  BadValue = BadValue
  Default = d
  Env <- MCEnv
  Addresses = {here, nowhere}
  Locatable = {here}
  BatchSize = 1
  CacheSize = 1
  AnswerTTL = 2
  FailTTL = 1
  DownTTL = 1
  SettingsTTL = 1
  MaxClicks = 2
  Clients = {c1, c2, c3, c4}
  Cost = 2
  Full = 3
  MaxKeys = 3
  Sample = 2
  IdleFor = 2
  Forever = 3
  Processes = {p1, p2, p3}
  Servers = {p1, p2}
  OldServer = p1
  Release <- MCRelease
  MaxMigrations = 2
  MaxFaults = 2
  MaxStartFaults = 2
  Nobody = Nobody
  Askers = {a1}
  BackupKeep = 2
  MaxSecond = 2
  NoFile = NoFile
  Owners = {o1}
  ApiKeys = {a}
  Callers = {x1, x2}
  Session = Session
  NoOwner = NoOwner
  Rows = {1, 2, 3}
  Sortable = {1, 2}
  PageSize = 2
INVARIANTS
  CopiesMatchTable
  SwitchIsHonoured
  ServesItsSchema
  NewestSnapshotsStay
  EveryRowOnce
  AuthorityIsCurrent
PROPERTIES
  ImplementsTokenBuckets
  BackfillFinishes
  ProcessesStart
CHECK_DEADLOCK FALSE
