SPECIFICATION Spec
CONSTANTS
  MaxChanges = 2
  NumExtra = 2
  None = None
  Links <- MCLinks
  InitLinks <- MCInitLinks
  Options <- MCOptions
  atoi <- MCAtoi
  Argvs <- MCArgvs
INVARIANTS TypeOK DumpFaithful CrashOnlyFor NumbersMatch BuffersOnce
CHECK_DEADLOCK FALSE
