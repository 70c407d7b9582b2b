SPECIFICATION Spec
CONSTANTS
  Sessions = {s}
  DAY = 2
  STATS_WINDOW = 0
  MONTH = 1
  Months = {1}
  Earlier = {2}
  None = None
  MaxNow = 2
  MaxRows = 2
  MaxRequests = 1
  MaxFaults = 1
INVARIANTS LiveRowsExplained AutoCleanupAsSet
PROPERTY ChartKept
CHECK_DEADLOCK FALSE
