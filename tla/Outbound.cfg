SPECIFICATION Spec
CONSTANTS
  Draft = {d1}
  Browser = {b1, b2}
  Worker = {w1, w2}
  Reports = {"delivery", "bounce"}
  MaxAttempts = 3
  MaxClicks = 2
  MaxReports = 2
  Disruptions = {"db", "redis", "postmark", "crash"}
  MaxDisruptions = 2
  None = None
SYMMETRY Symmetry
INVARIANTS
  TypeOK
  MailedMarked
  MailsEarned
  BouncesAccounted
CHECK_DEADLOCK FALSE
