SPECIFICATION Spec
CONSTANTS
  Name = {a, b}
  First = {a}
  Key = {k}
  None = None
  MaxCalls = 2
  MaxTurns = 4
INVARIANTS
  TypeOK
  
  RenewedIsTrue
CHECK_DEADLOCK FALSE
