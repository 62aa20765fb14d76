SPECIFICATION FairSpec
CONSTANTS
  Name = {a}
  First = {a}
  Key = {k}
  None = None
  MaxCalls = 1
  MaxTurns = 2
PROPERTY AutoRenewed
CHECK_DEADLOCK FALSE
