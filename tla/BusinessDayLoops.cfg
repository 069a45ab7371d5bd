SPECIFICATION Spec
CONSTANTS
  LastDay = 4
  MaxBound = 4
INVARIANT LoopsReturn
CHECK_DEADLOCK FALSE
