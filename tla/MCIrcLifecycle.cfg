SPECIFICATION FairSpec
CONSTANTS
  Req = {r1}
  Loop = {l1}
  Attempt = {a1, a2}
  None = None
  MaxGen = 2
  MayRemove = TRUE
CHECK_DEADLOCK FALSE
INVARIANTS TypeOK WantedHasLoop 
PROPERTY WantedGetsConnected
