CONSTANTS
  Size = 2
  MaxPosition = 3
  EntryThreshold = 2
  ExitThreshold = 1
  StopLoss = 3
  Persistence = 2
  MaxHold = 2
  MaxOrders = 3
  MaxLost = 1
  Spreads <- MCSpreads
SPECIFICATION FairSpec
INVARIANTS
  TypeOK
  InventoryExact
  FlatUnlessOvertaken
  OneLiveOrder
PROPERTIES
  ExitNeverGrows
  HoldBounded
  EntryResolves
CHECK_DEADLOCK FALSE
