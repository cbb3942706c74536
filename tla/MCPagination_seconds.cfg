SPECIFICATION Spec
CONSTANTS
  Ids = {1, 2, 3}
  MaxClock = 2
  PerSecond = 2
  Asked <- MCAsked
  Default = 2
  Max = 2
  Server = "go"
  Start = Start
  End = End
INVARIANTS
  NothingSkipped
