SPECIFICATION FairSpec
CONSTANTS
    Transfer = {t1, t2}
    Task = {k1, k2}
    f1 = f1
    f2 = f2
    File = {f1}
    Size <- Three
    None = None
    MaxName = 2
    Incoming = {"direct", "passive"}
    MaxTransfers = 2
    MaxPending = 1
    MaxAsk = 1
    Rude = {}
    MayRace = FALSE
    MaxRequest = 1
    MaxCancel = 1
    MaxDown = 1
    MaxTwice = 1
INVARIANTS TypeOK RunningHasTask 
PROPERTIES  AllComesToRest
CHECK_DEADLOCK FALSE
