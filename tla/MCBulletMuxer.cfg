CONSTANTS
  MaxFrames = 5
  MaxBooks = 2
  MaxDrops = 3
  MaxWire = 2
  IsFill = {2, 3, 4, 5}
  OrderOf <- MCOrderOf
  Window = 2
  Cap = 3
  BookCapacity = 1

SPECIFICATION MCSpec
INVARIANTS
  TypeOK
  OneTradePerFill
  EveryFillCounted
  EndIsFlagged
PROPERTY TransitionsReachBus
CHECK_DEADLOCK FALSE
