CONSTANTS
  Size = 2
  MaxDelta = 1
  EntryThreshold = 2
  ExitThreshold = 1
  MaxRate = 6
  Rates = {0, 4, 9}
  MaxEntries = 2
  Window = 1
  MaxGaps = 1
  MaxForeign = 1
  Prices = {1, 2}
  FillSizes <- MCFillSizes
  Unit = 151200
SPECIFICATION MCSpec
INVARIANTS
  TypeOK
  TrackerExact
  PhaseTellsPosition
  InventoryAddsUp
PROPERTIES
  PhaseEnds
CHECK_DEADLOCK FALSE
