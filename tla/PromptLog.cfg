SPECIFICATION LogSpec
CONSTANTS
  Files = {f}
  Log <- Conversation
  Ptys = {s}
  SEND_QUEUE = 2
  MaxLinks = 2
  MaxLosses = 1
INVARIANTS OffsetsAccounted CopiesExplained
PROPERTY EventuallyLogged
CHECK_DEADLOCK FALSE
