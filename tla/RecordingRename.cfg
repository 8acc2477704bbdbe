SPECIFICATION Spec
CONSTANTS
  Sessions = {s1}
  Clients = {a}
  Sources = {mic}
  None = None
  Budget <- RenameBudget
INVARIANTS
  RefusedOnlyWhileRecording
CHECK_DEADLOCK FALSE
