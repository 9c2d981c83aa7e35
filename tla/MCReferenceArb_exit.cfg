CONSTANTS
  Size = 2
  MaxPosition = 3
  EntryThreshold = 2
  ExitThreshold = 1
  StopLoss = 3
  Persistence = 2
  MaxHold = 2
  MaxOrders = 2
  MaxLost = 0
  Spreads <- MCSpreads
SPECIFICATION FairSpec
PROPERTY ExitResolves
CHECK_DEADLOCK FALSE
