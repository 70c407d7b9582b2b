\* Two clients of one account over one workspace, an agent that may lose its
\* link once and come back, two sessions.
CONSTANTS
  Clients = {c1, c2}
  Agents = {a1}
  Workspaces = {w1}
  MaxSid = 2
  MaxConn = 2
  QueueCap = 6
  MaxBacklog = 1
  NoConn = NoConn
  NoWorkspace = NoWorkspace
SPECIFICATION Spec
SYMMETRY ClientSymmetry
INVARIANTS RouteOwned NoDeafSession CloseOnlyStale
PROPERTY ImplementsLease
