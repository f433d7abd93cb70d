SPECIFICATION Spec
CONSTANTS
  NumInterfaces = 2
  NumWorkers = 2
  NumSlots = 2
  Extra = 2
  RING_SIZE = 1
  MANAGER_BULK_SIZE = 1
  WORKER_BULK_SIZE = 1
  None = None
  Bufs <- MCBufs
  Addrs <- MCAddrs
  ntohl <- Swap
  IPs <- FaultIPs
  lpm <- FaultRoutes
  nextHopIface <- NoGateway
  Arrivals <- Faults
  InitSlots <- MCSlots
  InitFree <- MCFree
CHECK_DEADLOCK FALSE
INVARIANTS BufferExclusive OnNicRing
PROPERTY ImplementsPool
VIEW BufView
