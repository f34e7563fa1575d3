SPECIFICATION FairSpec
CONSTANTS
    Buffer = {b1, b2}
    Group = {g}
    Own = Own
    None = None
    Pruner = {p1, p2}
    Known = TRUE
    MayRefile = FALSE
    MayHurry = FALSE
    MayReturn = FALSE
    MayOvertake = FALSE
    MayFail = FALSE
    MaxChange = 1
    MaxDrop = 1
    MaxStart = 1
INVARIANTS LayoutTypeOK 
PROPERTIES  RestoredAreJudged 
CHECK_DEADLOCK FALSE
