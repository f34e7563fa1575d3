SPECIFICATION Spec
CONSTANTS
  MaxId = 4
  Blank <- ThirdBlank
  First = 1
  Page = 2
  Keep = 2
  Reader = {r1, r2}
  MayDelete = FALSE
  MayPrune = FALSE
  MayRemove = FALSE
CHECK_DEADLOCK FALSE
SYMMETRY Readers
INVARIANTS TypeOK PlaceIsHeld  
