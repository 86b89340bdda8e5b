\* One collector primed first and one after it, one one-shot or panel worker,
\* passes of two queries; two connections, so that a third query waits.  Four
\* pool identities for thick mode: the one in use, one held by threads of the
\* pool before it, a new one and one made by an abandoned thread.
CONSTANTS
  Collector = {c1, c2}
  Priority = {c1}
  Shot = {s1}
  PoolId = {p1, p2, p3, p4}
  NoPool = NoPool
  PoolMax = 2
  Queries = 2
  Threshold = 2
  Modes = {"thin", "thick", "demo"}
  Task <- MCTask
SPECIFICATION Spec
SYMMETRY Symmetry
INVARIANTS
  LifecycleSerialised
  NoLeakedPool
  QueriesOnLivePool
  HealthyMeansUsable
  ClosedMeansQuiet
PROPERTIES
  PoolLossIsEarned
  NoPassAfterClose
  KeepsPromise
CHECK_DEADLOCK FALSE
