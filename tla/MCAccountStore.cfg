SPECIFICATION FairSpec
CONSTANTS
  irc = irc
  discord = discord
  steam = steam
  Early = {irc, discord}
  Late = {steam}
  Rank <- LockOrder
  Probe <- LookOrder
  Op = {k1, k2, k3}
  None = None
  MaxCall = 3
  MayTrustMemory = FALSE
CHECK_DEADLOCK FALSE
INVARIANTS TypeOK AnsweredIsKept NothingForgotten
PROPERTIES ImplementsMap CallsReturn
