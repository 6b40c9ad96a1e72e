CONSTANTS
  r1 = r1
  r2 = r2
  b1 = b1
  a1 = a1
  Requests = {r1, r2}
  Browsers = {b1}
  Addresses = {a1}
  Address <- MCAddress
  TicksPerSecond = 2
  AuthRPS = 0
  AuthBurst = 4
  defaultAuthRPS = 1
  defaultAuthBurst = 2
  SweepEvery = 3
  AccessTTL = 2
  RefreshTTL = 3
  Stall = 1
  MaxTime = 5
  MaxSessions = 2
SYMMETRY Symmetry
SPECIFICATION Spec
CHECK_DEADLOCK FALSE
INVARIANTS
  TypeOK
  NeverOverLimit
  WaitIsEnough
  LogoutBites
  CookieIsGood
