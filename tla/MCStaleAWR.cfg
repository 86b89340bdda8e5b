\* The AWR panel.
CONSTANTS
  Panels = {"awr"}
  RefreshInterval = 5
SPECIFICATION AgeSpec
PROPERTY StaleMeansStalled
CHECK_DEADLOCK FALSE
