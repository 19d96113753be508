\* Three requests, two at a time, against limits one and two, with bots that
\* count, an edit, a run of PruneHits, a restart with a replay of the spool,
\* clicks that never reach the row and clicks that reach it twice.
SPECIFICATION Spec
CONSTANTS
  Visitors = {v1, v2}
  Editors = {e1}
  Limits = {1, 2}
  CountBots = TRUE
  LoseClicks = TRUE
  MaxVisits = 3
  MaxEdits = 1
  MaxPrunes = 1
  MaxRecounts = 1
  MaxRestarts = 1
CHECK_DEADLOCK FALSE
SYMMETRY VisitorSymmetry
INVARIANTS
  LimitHoldsUnlessRaced
PROPERTY
  NoEarlyGone
