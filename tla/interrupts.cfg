SPECIFICATION Spec
CONSTANTS
  MaxDepth = 6
  MaxInterrupts = 3
  MaxNmis = 1
CHECK_DEADLOCK FALSE
INVARIANTS
  ClosureUndisturbed
  FlagRestored
PROPERTIES
  WorkGetsDone
