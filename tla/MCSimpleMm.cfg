CONSTANTS
  Quotes <- MCQuotes
  Ids = {1, 2}
  Size = 2
  MaxPosition = 2
  Inherited <- MCInherited
  MaxEvents = 2
SPECIFICATION MCSpec
INVARIANTS
  TypeOK
  RestingIsTracked
  WorstCaseCapped
CHECK_DEADLOCK FALSE
