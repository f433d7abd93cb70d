SPECIFICATION Spec
CONSTANTS
  W = 4
  MaxRoutes = 3
  None = None
  StableSort = TRUE
  g1 = g1
  g2 = g2
  eth0 = eth0
  eth1 = eth1
  lo = lo
  Interfaces <- MCInterfaces
  ToUse <- MCToUse
  KernelRoutes <- Mixed
INVARIANT InsideList
CHECK_DEADLOCK FALSE
