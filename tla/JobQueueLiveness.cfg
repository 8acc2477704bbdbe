SPECIFICATION FairSpec
CONSTANTS
  Chunks = {c1, c2}
  MaxRun = 1
  Permits = {p1}
  Budget <- CrashBudget
PROPERTIES
  EveryChunkTranscribed
CHECK_DEADLOCK FALSE
