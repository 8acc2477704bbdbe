SPECIFICATION MCSpec
CONSTANTS
  Devices = {"d1", "d2"}
  Default = "default"
  None = None
  Budget <- FullBudget

  
PROPERTIES
  Recovers
  StopEnds
CHECK_DEADLOCK FALSE
