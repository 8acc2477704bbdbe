SPECIFICATION Spec
CONSTANTS
  Chunks = {c1, c2}
  Providers = {"voxtype", "whisper"}
  None = None
  Budget <- MCBudget
INVARIANTS
  
  OutputRight
PROPERTIES
  AttemptEnds
CHECK_DEADLOCK FALSE
