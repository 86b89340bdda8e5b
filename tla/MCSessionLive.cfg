\* Liveness, thin mode.
CONSTANTS
  Collector = {c1}
  Priority = {c1}
  Shot = {s1}
  PoolId = {p1, p2}
  NoPool = NoPool
  PoolMax = 1
  Queries = 1
  Threshold = 2
  Modes = {"thin"}
  Task <- MCTask
SPECIFICATION FairSpec
PROPERTIES
  Recovers
  CloseReturns
CHECK_DEADLOCK FALSE
