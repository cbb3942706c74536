SPECIFICATION Spec
CONSTANTS
  ann = ann
  bob = bob
  q1 = q1
  q2 = q2
  q3 = q3
  q4 = q4
  q5 = q5
  User = {ann}
  Request = {q1, q2, q3}
  NoFamily = NoFamily
  Impl = "go"
  Faults = FALSE
  Serial = FALSE
CHECK_DEADLOCK FALSE
INVARIANTS
  RotatedOnce
