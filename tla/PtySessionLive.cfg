\* Liveness: two clients contend for one workspace of an agent whose link may
\* be lost.
CONSTANTS
  Clients = {c1, c2}
  Agents = {a1}
  Workspaces = {w1}
  MaxSid = 2
  MaxConn = 1
  QueueCap = 6
  MaxBacklog = 0
  NoConn = NoConn
  NoWorkspace = NoWorkspace
SPECIFICATION FairSpec
PROPERTIES OpenResolves AgentLossEndsSession CloseOrderEndsSession
