SPECIFICATION Spec
CONSTANTS
  MaxMessages = 2
  Box = {inbox, work}
  Actor = {a1, a2}
  Batch = 2
  MaxCommands = 3
  Disruptions = {"webmail", "db", "crash"}
  MaxDisruptions = 1
  None = None
SYMMETRY Symmetry
INVARIANTS
  TypeOK
  UidsNeverReused
  OneUid
  RightTarget
  SeenAgrees
  ExpungesMarked
PROPERTIES
  ExpungeComplete
CHECK_DEADLOCK FALSE
