SPECIFICATION FairSpec
CONSTANTS
  t1 = t1
  t2 = t2
  o1 = o1
  o2 = o2
  NULL = NULL
  Threads <- TwoThreads
  Objects <- TwoObjects
  Rules <- AllRules
  RefLimit = 65536
  LockLimit = 256
  MaxSpare = 2
  MaxNesting = 2
INVARIANTS
  NoUseAfterFree
  CountersBalance
PROPERTIES
  SpinTerminates
CHECK_DEADLOCK FALSE
