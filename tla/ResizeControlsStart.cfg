SPECIFICATION Spec
CONSTANTS
  a1 = a1
  a2 = a2
  a3 = a3
  w1 = w1
  w2 = w2
  None = None
  Adders <- TwoAdders
  Workers <- OneWorker
  InitSize = 2
  MaxSize = 4
  UIntMax = 15
  MaxCalls = 3
  StartWhileResizing = TRUE
INVARIANTS
  ResizeExclusive
CHECK_DEADLOCK FALSE
