SPECIFICATION Spec
CONSTANTS
  Silence = 3
  PreRoll = 2
  PostRoll = 1
  MaxTurn = 5
  MinSpeech = 2
  Sounds <- MCSounds
  MaxFrames = 4
  Capacity = 2
  Budget <- FaultyBudget
INVARIANTS
  UtterancesWhole
  OnceInOrder
  
CHECK_DEADLOCK FALSE
