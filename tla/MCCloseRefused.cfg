CONSTANTS
  Collector = {c1}
  Priority = {c1}
  Shot = {s1}
  PoolId = {p1, p2, p3}
  NoPool = NoPool
  PoolMax = 2
  Queries = 1
  Threshold = 2
  Modes = {"thin"}
  Task <- MCTask
SPECIFICATION Spec
INVARIANT CloseClosesPool
CHECK_DEADLOCK FALSE
