\* Two accounts, three requests in every order and overlap.
SPECIFICATION Spec
CONSTANTS
  Users = {u1, u2}
  Subjects = {p1}
  Handlers = {h1, h2, h3}
  Sessions = {s1, s2}
  Nobody = Nobody
  MaxPw = 3
  MaxOps = 3
SYMMETRY AccountsSymmetry
INVARIANTS
  SetupOnce
  PasswordChangeSignsOut
  DisableSignsOut
  CanSignIn
  AdminEditWins
PROPERTY AdminRemains
CHECK_DEADLOCK FALSE
