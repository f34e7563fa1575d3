SPECIFICATION FairSpec
CONSTANTS
  Check = {c1}
  Send = {s1, s2}
  MaxEpoch = 3
  MaxWord = 3
  MayHurry = FALSE
  MayMiss = FALSE
  MayCross = FALSE
CHECK_DEADLOCK FALSE
INVARIANTS TypeOK FirstWordIsElsewhere 
PROPERTY CheckingEnds
