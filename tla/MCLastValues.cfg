\* Two of the collectors behind the first panels.
CONSTANTS
  Who = {"Sessions", "SQL"}
  Err = Err
  Unknown = Unknown
  MaxVersion = 1
  MaxOutage = 1
SPECIFICATION FairSpec
PROPERTY LastValuesStay
CHECK_DEADLOCK FALSE
