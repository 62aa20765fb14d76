SPECIFICATION Spec
CONSTANTS
  Domain = {d1, d2}
  User = {u1, u2}
  None = None
  MaxAliases = 2
  MaxCalls = 2
  MaxTurns = 6
SYMMETRY Symmetry
INVARIANTS
  TypeOK
  ActsOnOpen
  
CHECK_DEADLOCK FALSE
