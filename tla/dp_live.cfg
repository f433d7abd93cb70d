SPECIFICATION FairSpec
CONSTANTS
  NumInterfaces = 1
  NumWorkers = 1
  NumSlots = 2
  Extra = 2
  RING_SIZE = 2
  MANAGER_BULK_SIZE = 1
  WORKER_BULK_SIZE = 1
  None = None
  Bufs <- MCBufs
  Addrs <- MCAddrs
  ntohl <- Swap
  IPs <- MCIPs
  lpm <- DefaultRoute
  nextHopIface <- Gateway
  Arrivals <- OneHost
  InitSlots <- MCSlots
  InitFree <- MCFree
PROPERTIES ManagerReturns QueuesMove RxMoves
