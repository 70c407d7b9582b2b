\* Two workspaces on two agents, two batches of files, three keys, two faults
SPECIFICATION Spec
CONSTANTS
  Workspaces <- Pairs
  Batch <- TwoBatches
  None = None
  MaxKeys = 3
  MaxFaults = 2
INVARIANTS ListCurrent OrderShown WebFieldsKept SessionAgreed DropsAnswered
PROPERTY SessionResumed
CHECK_DEADLOCK FALSE
