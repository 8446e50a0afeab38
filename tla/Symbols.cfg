SPECIFICATION FairSpec
CONSTANTS
  t1 = t1
  t2 = t2
  empty = empty
  foo = foo
  bar = bar
  NoThread = NoThread
  Threads <- MCThreads
  Strings <- MCStrings
  EmptyString = empty
  ByContent = TRUE
  MaxSymbols = 9
INVARIANTS
  TypeOK
  Interning
PROPERTIES
  MutexReleased
  ImplementsInterning
