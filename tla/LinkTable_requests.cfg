\* Two requests at a time, three in all, and the purge job.
SPECIFICATION Spec
CONSTANTS
  Ids = {l1, l2, l3}
  Codes = {c1, c2, c3}
  Users = {u1, u2}
  Keys = {k1}
  Handlers = {h1, h2}
  None = None
  Limit = 1
  MaxOps = 3
SYMMETRY TableSymmetry
INVARIANTS
  LimitExceededOnlyByOverlap
  KeyMakesOneLink
  EditsSurvive
  VersionReplacedOnce
  OnlyTrashIsPurged
CHECK_DEADLOCK FALSE
