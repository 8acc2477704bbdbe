SPECIFICATION FairSpec
CONSTANTS
  Updates = {1, 2}
  Values = {v1, v2}
  Default = v1
  None = None
  Empty = Empty
  Torn = Torn
  Budget <- EditBudget
INVARIANTS
  
  LastEditWins
PROPERTIES
  PanelConverges
CHECK_DEADLOCK FALSE
