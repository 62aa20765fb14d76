SPECIFICATION HookSpec
CONSTANTS
  e1 = e1
  e2 = e2
  e3 = e3
  k1 = k1
  Event = {e1, e2, e3}
  MsgId = {k1}
  NoId = NoId
  MessageID <- OneShared
  Request = {r1, r2}
  Disturbances = {"reject", "redis", "hangup", "crash"}
  MaxDisturbances = 3
  MaxExpiries = 1
  MaxTries = 4
  NoEvent = NoEvent
INVARIANTS
  HookTypeOK
  DuplicatesEarned
  AckedAccounted
CHECK_DEADLOCK FALSE
