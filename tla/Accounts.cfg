SPECIFICATION Spec
CONSTANTS
  Names = {a, b}
  Agents = {g}
  Invites = {i}
  Acceptors = {p, q}
  None = None
  MaxId = 3
  MaxMishaps = 2
  MaxRequests = 3
  Choices = {"strict"}
SYMMETRY Symmetry
INVARIANTS CounterMatchesAudit LimitUnlessOverlapped FailureLeavesNothing RevocationStands
CHECK_DEADLOCK FALSE
