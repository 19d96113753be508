\* Two sign-ins and two enrolment handlers at a time, over three steps of the
\* clock, two secrets and two sets of recovery codes.
SPECIFICATION Spec
CONSTANTS
  Attempts = {a1, a2}
  Handlers = {h1, h2}
  Slots = {1}
  Burst = 1
  Drift = {0, 1}
  MaxNow = 3
  MaxSecrets = 2
  MaxBatches = 2
SYMMETRY FactorSymmetry
INVARIANTS
  RecoveryCodeOnce
  TotpOnceUnlessRaced
  OnlyConfirmedSecrets
  LockoutHolds
