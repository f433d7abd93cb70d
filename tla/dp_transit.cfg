SPECIFICATION Spec
CONSTANTS
  NumInterfaces = 2
  NumWorkers = 1
  NumSlots = 3
  Extra = 2
  RING_SIZE = 2
  MANAGER_BULK_SIZE = 2
  WORKER_BULK_SIZE = 2
  None = None
  Bufs <- MCBufs
  Addrs <- MCAddrs
  ntohl <- Swap
  IPs <- MCIPs
  lpm <- DefaultRoute
  nextHopIface <- Gateway
  Arrivals <- TwoLinks
  InitSlots <- MCSlots
  InitFree <- MCFree
INVARIANTS TypeOK SentToNextHop NoBufferLost BatchFits NoMacIsIp StaysUp
PROPERTY PendingUntouched
VIEW BufView
