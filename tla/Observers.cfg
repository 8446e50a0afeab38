SPECIFICATION FairSpec
CONSTANTS
  t1 = t1
  t2 = t2
  t3 = t3
  upper = upper
  lower = lower
  w1 = w1
  w2 = w2
  w3 = w3
  NoThread = NoThread
  NULL = NULL
  Threads <- MCThreads
  Subjects <- MCSubjects
  Watchers <- MCWatchers
  Forward <- MCForward
  Level <- MCLevel
  Rules <- AllRules
  MaxLen = 2
INVARIANT RegisteredOnce
INVARIANT EveryWatcherTold
INVARIANT NeverReachesDeleted
PROPERTY NotificationsEnd
