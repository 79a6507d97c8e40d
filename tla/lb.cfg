SPECIFICATION FairSpec
CONSTANTS
  b1 = b1
  b2 = b2
  e1 = e1
  Backends = {b1, b2, e1}
  Groups <- MCGroups
  priority <- MCPriority
  Algos = {"random", "iwrr"}
  None = None
  Spin = Spin
  Dynamic = TRUE
  MaxKills = 3
  MaxAdmin = 1
INVARIANT CountersSettled
INVARIANT Proportional
PROPERTY DeadBackendReturns
CHECK_DEADLOCK FALSE
