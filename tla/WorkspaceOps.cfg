\* Two clients and an agent over one workspace, three requests or opens, an
\* agent that may lose its link or restart once.
CONSTANTS
  Clients = {c1, c2}
  Workspaces = {w1}
  None = None
  MaxReq = 3
  MaxLink = 2
SPECIFICATION Spec
SYMMETRY ClientSymmetry
INVARIANTS CatalogAgrees LiveToolReachable
PROPERTY ImplementsRequest
CHECK_DEADLOCK FALSE
