SPECIFICATION FairSpec
CONSTANTS
  Headers <- MCHeaders
  Lengths <- MCLengths
CHECK_DEADLOCK FALSE
INVARIANTS ChecksumCorrect RefusedOnlyFor
PROPERTY LoopEnds
