SPECIFICATION Spec
CONSTANTS
  Requests = {r1, r2, r3}
  Tokens = {k1, k2, k3, k4}
  NoToken = NoToken
  r1 = r1
  r2 = r2
  r3 = r3
  k1 = k1
  k2 = k2
  k3 = k3
  k4 = k4
  MaxFaults = 1
SYMMETRY Symmetry
CHECK_DEADLOCK FALSE
INVARIANTS
  TypeOK
  SingleUse
  OneLiveToken
  NoLockout
PROPERTIES
  LogoutEndsSession
  RefinesSessions
