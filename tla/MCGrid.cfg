CONSTANTS
  NumLevels = 2
  Size = 2
  MaxPosition = 2
  TrendFilter = TRUE
  MaxOrders = 3
  MaxLost = 1
  MaxQueue = 2
SPECIFICATION MCSpec
INVARIANTS
  TypeOK
  InventoryExact
  RestingIsTracked
  WorstCaseCapped
PROPERTIES
  PausedIsQuiet
  DeadOrderNoticed
CHECK_DEADLOCK FALSE
