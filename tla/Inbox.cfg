SPECIFICATION Spec
CONSTANTS
  Label = {"inbox", "sent"}
  Limit = 1
  Stored = 1
  MaxMsgs = 2
  MaxPages = 2
  MaxCalls = 2
  MaxTurns = 5
INVARIANTS
  TypeOK
  
  ActsOnShown
  FlagsSettle
CHECK_DEADLOCK FALSE
