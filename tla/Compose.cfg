SPECIFICATION Spec
CONSTANTS
  Addr = {a}
  File = {f}
  Existing = 0
  MaxDrafts = 2
  MaxEdits = 2
  MaxPages = 2
  MaxCalls = 2
  MaxTurns = 2
INVARIANTS
  TypeOK
  MailedAsClicked
  
  DraftsEarned
CHECK_DEADLOCK FALSE
