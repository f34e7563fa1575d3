SPECIFICATION FairSpec
CONSTANTS
  Session = {s1, s2, s3}
  NoSession = NoSession
  MaxLen = 1
  Guilds <- NoGuild
  PerHour = 1
  MayFailToWrite = FALSE
  MayRemove = TRUE
  MayPanic = TRUE
CHECK_DEADLOCK FALSE
PROPERTIES ComesBack
