CONSTANTS
  NumLevels = 2
  Size = 2
  MaxPosition = 2
  TrendFilter = FALSE
  MaxOrders = 3
  MaxLost = 0
  MaxQueue = 2
SPECIFICATION Spec
INVARIANT DormantIsEmpty
CHECK_DEADLOCK FALSE
