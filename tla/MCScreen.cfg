\* The collectors without a latch that fail in different ways: "keep", "set",
\* rows of several queries, "gate" and "branch"; and one with a latch.
\* Two keys, lists of two rows, and three messages on their way.
CONSTANTS
  Who = {"Health", "Sessions", "Waits", "Jobs", "DataGuard", "Advisor",
         "RAC"}
  Err = Err
  Unknown = Unknown
  MaxVersion = 0
  MaxOutage = 1
  Key = {a, b}
  NoKey = NoKey
  RowMax = 2
  EventMax = 3
SPECIFICATION MCSpec
INVARIANT DetailIsOfSelection
PROPERTIES
  Refills
  SettlesOnCursor
CHECK_DEADLOCK FALSE
