SPECIFICATION Spec
CONSTANTS
  Latest = 2
  Fates = {"works", "crashes"}
  MaxUpdates = 2
  Operators = {o1, o2}
  None = None
  ROLLBACK_THRESHOLD = 2
  MaxPid = 2
  MaxAsked = 3
  MaxFaults = 1
CHECK_DEADLOCK FALSE
INVARIANTS LinkedIntact OneDaemon
PROPERTY BadUpdateUndone
