SPECIFICATION FairSpec
CONSTANTS
  Observers = {o1, o2}
  Keys <- MCKeys
  Addresses <- MCAddresses
  Matching <- MCMatching
  MaxLists = 3
  Rules <- AllRules
  MaxDepth = 2
INVARIANT KeysHaveObservers
INVARIANT NothingWild
INVARIANT EveryObserverTold
PROPERTY CallsReturn
