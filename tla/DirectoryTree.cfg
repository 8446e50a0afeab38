SPECIFICATION FairSpec
CONSTANTS
  o1 = o1
  o2 = o2
  Words <- MCWords
  Observers <- OneObserver
  Numerals <- MCNumerals
  Requests <- TreeRequests
  Keys <- TreeKeys
  NewNames <- SmallNames
  NewInstances <- SmallInstances
  Places <- MCPlaces
  Patterns <- MCPatterns
  Rules <- AllRules
  AddressLevels <- MCAddressLevels
  Properties <- MCProperties
  MaxLevels = 3
  MaxNodes = 4
  MaxNesting = 1
INVARIANTS
  ComparesPaths
  SplitsAndMerges
  LookupSelectsEqual
  SearchFindsBelow
PROPERTIES
  ImplementsTree
  CallsEnd
