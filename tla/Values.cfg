SPECIFICATION Spec
CONSTANTS
  v1 = v1
  v2 = v2
  a = a
  b = b
  Strings = {s1, s2, s3, s4}
  Wild = Wild
  Free = Free
  Absent = Absent
  Shared = Shared
  Values <- MCValues
  Words <- MCWords
  Texts <- MCTexts
  Rules <- AllRules
  MaxSize = 2
INVARIANT StringsOwned
PROPERTY ImplementsSemantics
SYMMETRY Symmetric
