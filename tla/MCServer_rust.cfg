SPECIFICATION FairSpec
CONSTANTS
  q1 = q1
  q2 = q2
  q3 = q3
  Request = {q1, q2, q3}
  PoolSize = 2
  MaxLeases = 3
  Impl = "rust"
CHECK_DEADLOCK FALSE
INVARIANTS
  ConnectionsAccounted
PROPERTIES
  ImplementsService
  EveryRequestAnswered
  ShutdownCompletes
