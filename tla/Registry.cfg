SPECIFICATION FairSpec
CONSTANTS
  Threads = {t1, t2, t3}
  Names = {"Node", "NodeDirectory", "Osc", "Filter", "Plain"}
  Tags = {"node", "tree", "sound", "plain"}
  Absent = Absent
  Internal <- MCInternal
  External <- MCExternal
  Rules <- AllRules
  MaxFound = 3
INVARIANT UsesWhatExists
INVARIANT SearchFindsClasses
PROPERTY RegistrationsStay
PROPERTY StartCompletes
