CONSTANTS
  Producer = {p1, p2}
  QueueChannelSize = 1
  MaxGen = 3
  MaxItems = 3
  None = none
SPECIFICATION FairSpec
INVARIANTS
  ResetExclusive
  InOrder
PROPERTIES
  NoStaleItem
  CloseEndsAll
  ResetReturns
CHECK_DEADLOCK FALSE
