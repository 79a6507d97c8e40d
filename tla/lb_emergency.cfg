SPECIFICATION Spec
CONSTANTS
  b1 = b1
  b2 = b2
  e1 = e1
  Backends = {b1, b2, e1}
  Groups <- MCGroups
  priority <- MCPriority
  Algos = {"iwrr"}
  None = None
  Spin = Spin
  Dynamic = TRUE
  MaxKills = 3
  MaxAdmin = 2
INVARIANT NextGroupTried
CHECK_DEADLOCK FALSE
