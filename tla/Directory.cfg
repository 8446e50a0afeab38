SPECIFICATION Spec
CONSTANTS
  o1 = o1
  o2 = o2
  Words <- MCWords
  Observers <- MCObservers
  Numerals <- MCNumerals
  Requests <- SmallRequests
  Keys <- SmallKeys
  NewNames <- SmallNames
  NewInstances <- SmallInstances
  Places <- MCPlaces
  Patterns <- MCPatterns
  Rules <- AllRules
  MaxNodes = 4
  MaxNesting = 1
INVARIANTS
  DirectoryFollowsTree
  NothingLost
  NoFreedNode
  CreatedIsInTree
  FindsWhatIsTold
  AnnouncedOnce
SYMMETRY Symmetric
