SPECIFICATION FairSpec
CONSTANTS
  Sessions = {s1, s2}
  Clients = {a, b}
  Sources = {mic}
  None = None
  Budget <- LiveBudget
PROPERTIES
  EveryRequestAnswered
  LowSpaceEndsCapture
  ShutdownCompletes
CHECK_DEADLOCK FALSE
