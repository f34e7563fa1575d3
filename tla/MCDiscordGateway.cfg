SPECIFICATION Spec
CONSTANTS
  Session = {s1, s2, s3}
  NoSession = NoSession
  MaxLen = 3
  Guilds <- OneGuild
  PerHour = 1
  MayFailToWrite = FALSE
  MayRemove = FALSE
  MayPanic = FALSE
SYMMETRY Ids
CHECK_DEADLOCK FALSE
INVARIANTS TypeOK NothingPassedOver 
PROPERTY LoginsAreCounted
