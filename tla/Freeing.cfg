SPECIFICATION FairSpec
CONSTANTS
  Objects = {o1, o2, o3}
  Slots = {s1, s2, s3}
  Local = Local
  NULL = NULL
  Rules <- AllRules
  MaxDepth = 4
INVARIANT NoUseOfFreed
INVARIANT NothingLeaks
PROPERTY ReplacesOld
PROPERTY ToldBeforeFreed
CHECK_DEADLOCK FALSE
PROPERTY CallsReturn
