SPECIFICATION Spec
CONSTANTS
  Sessions = {s1, s2}
  Clients = {a, b}
  Sources = {mic, system}
  None = None
  Budget <- FullBudget
SYMMETRY Symmetry
INVARIANTS
  
  OneCapture
  
PROPERTIES
  StopAnsweredAfterEnd
CHECK_DEADLOCK FALSE
