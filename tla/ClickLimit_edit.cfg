\* One edit, nothing else that could go wrong.
SPECIFICATION Spec
CONSTANTS
  Visitors = {v1, v2}
  Editors = {e1}
  Limits = {1}
  CountBots = FALSE
  LoseClicks = FALSE
  MaxVisits = 3
  MaxEdits = 1
  MaxPrunes = 0
  MaxRecounts = 0
  MaxRestarts = 0
CHECK_DEADLOCK FALSE
INVARIANT
  LimitHolds
