CONSTANTS
  MaxFills = 2
  MaxDrops = 1
  MaxWire = 2
  Window = 1

SPECIFICATION Spec
INVARIANT OneTradePerExecution
CHECK_DEADLOCK FALSE
