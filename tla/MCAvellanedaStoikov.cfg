CONSTANTS
  Quotes <- MCQuotes
  Ids = {1, 2}
  Size = 2
  MaxPosition = 3
  MaxLoose = 1
  MaxEvents = 1
  MaxBought = 4
SPECIFICATION MCSpec
INVARIANTS
  TypeOK
  RestingIsTracked
PROPERTIES
  OrphansFound
CHECK_DEADLOCK FALSE
