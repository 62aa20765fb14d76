SPECIFICATION FairSpec
CONSTANTS
  w1 = w1
  w2 = w2
  p1 = p1
  p2 = p2
  Job = {j1}
  Registered = {j1}
  Worker = {w1, w2}
  Pool = {p1, p2}
  PoolOf <- TwoPools
  Skew <- NoSkew
  Ahead = 0
  MaxAttempts = 3
  Backoff = 1
  Disruptions = {"crash", "redis", "stop"}
  MaxDisruptions = 1
  None = None
PROPERTIES
  JobsFinish
  StopReturns

