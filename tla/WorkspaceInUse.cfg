\* One client deletes the workspace another one opens.
CONSTANTS
  Clients = {c1, c2}
  Workspaces = {w1}
  None = None
  MaxReq = 2
  MaxLink = 1
SPECIFICATION Spec
PROPERTY DeleteSparesSession
CHECK_DEADLOCK FALSE
