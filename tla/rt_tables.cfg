SPECIFICATION Spec
CONSTANTS
  W = 4
  MaxRoutes = 5
  None = None
  StableSort = FALSE
  g1 = g1
  g2 = g2
  eth0 = eth0
  eth1 = eth1
  lo = lo
  Interfaces <- MCInterfaces
  ToUse <- MCToUse
  KernelRoutes <- Mixed
INVARIANTS TypeOK RoutedAsKernel NoRouteInvented IndicesDense LookupsAgree
CHECK_DEADLOCK FALSE
