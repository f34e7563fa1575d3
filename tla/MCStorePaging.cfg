SPECIFICATION Spec
CONSTANTS
  MaxRow = 4
  MaxTs = 3
  Limit = 2
  Until = 3
  Keep = 3
CHECK_DEADLOCK FALSE
INVARIANTS TypeOK NothingTwice NoSecondSkipped
PROPERTIES ReadsToTheEnd
