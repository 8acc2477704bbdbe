SPECIFICATION Spec
CONSTANTS
  Chunks = {c1}
  MaxRun = 1
  Permits = {p1, p2}
  Budget <- FaultyBudget
SYMMETRY Symmetry
INVARIANTS
  TypeOK
  AudioUntilTranscribed
  OneCanonicalEvent
  
  NoStrandedRow
  
  StatusHasReason
PROPERTIES
  ImplementsTranscriptStore
  
  
CHECK_DEADLOCK FALSE
