SPECIFICATION HandsetSpec
CONSTANTS
  Null = Null
  u1 = u1
  u2 = u2
  Users = {u1, u2}
  MaxPairs = 2
  MaxFaults = 1
CONSTRAINT Followed
SYMMETRY Symmetry
CHECK_DEADLOCK FALSE
INVARIANTS
  HandsetIntegrity
  SignOutIsFinal
  SilentAfterSignOut
PROPERTIES
  RefreshKeepsSession
