CONSTANTS
  Producer = {p1, p2}
  QueueChannelSize = 1
  MaxGen = 2
  MaxItems = 3
  None = none
SPECIFICATION Spec
INVARIANT ResetNeverPanics
CHECK_DEADLOCK FALSE
