SPECIFICATION FairSpec
CONSTANTS
  MaxId = 2
  Blank <- NoBlank
  First = 1
  Page = 1
  Keep = 1
  Reader = {r1}
  MayDelete = TRUE
  MayPrune = TRUE
  MayRemove = TRUE
CHECK_DEADLOCK FALSE
PROPERTIES ScrollReachesStart
