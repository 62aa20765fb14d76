SPECIFICATION Spec
CONSTANTS
  m1 = m1
  m2 = m2
  m3 = m3
  u1 = u1
  u2 = u2
  sales = sales
  ann = ann
  other = other
  hello = hello
  long = long
  Mail = {m1, m2, m3}
  User = {u1, u2}
  Address = {sales, ann, other}
  To <- MCTo
  Owner <- MCOwner
  Subject <- MCSubject
  TooLong = {long}
  Whitelist = {m2}
  Blacklist = {m2, m3}
  FirstAlias <- MCAlias
  FirstCatchall = u2
  Worker = {w1, w2}
  MaxAttempts = 2
  MaxRoutings = 1
  Disruptions = {"db", "redis", "crash"}
  MaxDisruptions = 2
  None = None
SYMMETRY Symmetry
INVARIANTS
  TypeOK
  OneGoodCopy
  Complete
  LookupsDecide
  ThreadsHold
CHECK_DEADLOCK FALSE
