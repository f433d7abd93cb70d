SPECIFICATION FairSpec
CONSTANTS
  NumWorkers = 1
  RING_SIZE = 2
  WORKER_BULK_SIZE = 2
  MANAGER_BULK_SIZE = 1
  Many = 2
  Versions <- MCVersions
INVARIANTS TypeOK DivisorNonZero
PROPERTIES StopEndsRun StopJoins CountersSettle
