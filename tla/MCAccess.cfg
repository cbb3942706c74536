SPECIFICATION AccessSpec
CONSTANTS
  ann = ann
  q1 = q1
  q2 = q2
  q3 = q3
  q4 = q4
  q5 = q5
  write = write
  all = all
  User = {ann}
  Request = {q1, q2, q3, q4}
  NoFamily = NoFamily
  Impl = "rust"
  Faults = FALSE
  Serial = TRUE
  Permission = {write, all}
  Wildcard = all
  Customer = {}
  Grant = {{}, {all}}
  AccessTTL = 1
  RefreshTTL = 2
  Leeway = 0
  Patience = 1
  MaxClock = 3
CHECK_DEADLOCK FALSE
SYMMETRY Symmetric
INVARIANTS
  WithdrawnInTime
  SessionsEndInTime
  OneLiveToken
  ReuseEndsSession
  LogoutEndsSession
PROPERTIES
  ImplementsSessionBook
