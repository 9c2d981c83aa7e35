CONSTANTS
  MaxFrames = 1
  MaxBooks = 0
  MaxDrops = 1
  MaxWire = 2
  IsFill = {1}
  OrderOf <- MCOrderOf
  Window = 1
  Cap = 3
  BookCapacity = 1

SPECIFICATION ResyncSpec
INVARIANT GapResynced
CHECK_DEADLOCK FALSE
