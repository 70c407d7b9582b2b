\* One workspace, two sessions in turn or at once, two connections of the tool
SPECIFICATION Spec
CONSTANTS
  MaxSid = 2
  MaxPost = 3
  MaxCaller = 2
  ChanCap = 1
  SpawnLimit = 1
INVARIANTS
  AnswersOwnCall
  WaiterRegistered
  HandshakeFirst
CHECK_DEADLOCK FALSE
