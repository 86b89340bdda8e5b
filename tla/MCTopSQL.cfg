\* As MCPanels.
CONSTANTS
  Row <- MCRow
  Hit <- MCHit
  Local = 1
  TaskMax = 1
  None = None
  Sql = {"A", "B"}
  Phv = {"p", "q"}
  Plans <- MCPlans
  Current <- MCCurrent
  CacheMax = 1
  Nil = Nil
SPECIFICATION MCSpec
PROPERTY ShowsAllStatements
CHECK_DEADLOCK FALSE
