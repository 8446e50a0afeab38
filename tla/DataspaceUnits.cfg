SPECIFICATION Spec
CONSTANTS
  Units = {"cm", "centimeters", "inches", "meters"}
  ClassOf <- MCClassOf
  NeutralUnit = "meters"
  Loaded <- MCLoaded
  EmptySymbol = ""
  NULL = NULL
INVARIANT ConvertsWithUnits
