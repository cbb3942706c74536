SPECIFICATION FairSpec
CONSTANTS
  ann = ann
  bob = bob
  q1 = q1
  q2 = q2
  q3 = q3
  q4 = q4
  q5 = q5
  User = {ann}
  Request = {q1, q2, q3, q4}
  NoFamily = NoFamily
  Impl = "rust"
  Faults = TRUE
  Serial = FALSE
CHECK_DEADLOCK FALSE
INVARIANTS
  FamiliesAreRooted
  RegisteredOnce
  KnownTokensRevoked
PROPERTIES
  AccountComesWithSession
  EveryRequestAnswered
