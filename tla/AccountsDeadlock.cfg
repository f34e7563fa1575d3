SPECIFICATION Spec
CONSTANTS
  irc = irc
  discord = discord
  steam = steam
  Early = {irc, discord}
  Late = {steam}
  Rank <- LockOrder
  Probe <- LookOrder
  Op = {k1, k2}
  None = None
  MaxCall = 2
  MayTrustMemory = FALSE
CHECK_DEADLOCK FALSE
INVARIANT NobodyWaitsInACircle
