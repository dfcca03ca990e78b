SPECIFICATION Spec
CONSTANTS
  None = None
  u1 = u1
  u2 = u2
  b1 = b1
  b2 = b2
  e1 = e1
  e2 = e2
  w1 = w1
  w2 = w2
  x1 = x1
  x2 = x2
  c1 = c1
  c2 = c2
  Workers = {w1, w2}
  Users = {u1, u2}
  Branches = {b1, b2}
  Emails = {e1, e2}
  Passwords = {x1, x2}
  Codes = {c1, c2}
  MaxFiles = 3
  Scenarios <- AllScenarios
CHECK_DEADLOCK FALSE
SYMMETRY Symmetry
INVARIANTS
  AvatarIsStored
  PasswordHolds
  AccountsIntegrity
PROPERTIES
  BranchLeftEmpty
