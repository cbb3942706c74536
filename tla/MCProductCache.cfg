SPECIFICATION FairSpec
CONSTANTS
  g1 = g1
  g2 = g2
  w1 = w1
  w2 = w2
  Reader = {g1, g2}
  Writer = {w1, w2}
  Prices = {1, 2}
  Levels = {0, 1}
  Absent = Absent
  Faults = TRUE
CHECK_DEADLOCK FALSE
INVARIANTS
  OutdatedHasACause
PROPERTIES
  EventuallyCurrent
