SPECIFICATION FairSpec
CONSTANTS
  MaxRequest = 3
  MaxMessage = 1
  MaxRoster = 1
  MaxChange = 1
  Permits = 2
  Capacity = 1
  MayPanic = {"getBacklog"}
  MayDelete = TRUE
CHECK_DEADLOCK FALSE
INVARIANTS TypeOK 
PROPERTIES EveryRequestAnswered
