SPECIFICATION Spec
CONSTANTS
  Self = Self
  Memory = {a1, a2, a3, a4}
  Free = Free
  Names = {"gain", "pan"}
  AttrTypes = {"int8", "uint8"}
  Addresses = {m1, m2}
  Inputs <- MCInputs
  Settings <- MCSettings
  Rules <- AllRules
INVARIANT TablesOwn
PROPERTY WritesStayInRange
SYMMETRY Symmetric
