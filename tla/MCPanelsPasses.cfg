\* Three rows at most in a table and one command on its way; two statements with
\* two plans, and a cache of plans that is emptied.
\* All collectors, one at a time, with two overlapping passes.
CONSTANTS
  Row <- MCRow
  Hit <- MCHit
  Local = 1
  TaskMax = 1
  None = None
  Sql = {"A", "B"}
  Phv = {"p", "q"}
  Plans <- MCPlans
  Current <- MCCurrent
  CacheMax = 1
  Nil = Nil
  Who = {"Health", "Waits", "Sessions", "SQL", "RAC", "SQLMonitor", "DataGuard",
         "ASM", "RMAN", "IOActivity", "PDB", "Jobs", "Exadata", "Advisor",
         "MemoryAdvisor", "AWR", "Objects", "AlertLog", "PlanHist"}
  Err = Err
  Unknown = Unknown
  MaxVersion = 1
  MaxOutage = 1
SPECIFICATION BothSpec
INVARIANTS
  TypesOK
  TargetIsOnLine
  TableIsOfSelection
  TreeIsOfSelection
  LatchIsEarned
PROPERTIES
  KilledWasConfirmed
  TwinsAgree
  AloneGoesForward
CHECK_DEADLOCK FALSE
