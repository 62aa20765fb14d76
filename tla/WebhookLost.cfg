SPECIFICATION HookSpec
CONSTANTS
  e1 = e1
  e2 = e2
  e3 = e3
  k1 = k1
  Event = {e1}
  MsgId = {k1}
  NoId = NoId
  MessageID <- OneEvent
  Request = {r1, r2}
  Disturbances = {"redis"}
  MaxDisturbances = 1
  MaxExpiries = 0
  MaxTries = 2
  NoEvent = NoEvent
INVARIANTS
  AckedMeansQueued
CHECK_DEADLOCK FALSE
