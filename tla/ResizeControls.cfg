SPECIFICATION FairSpec
CONSTANTS
  a1 = a1
  a2 = a2
  a3 = a3
  w1 = w1
  w2 = w2
  None = None
  Adders <- ThreeAdders
  Workers <- TwoWorkers
  InitSize = 1
  MaxSize = 3
  UIntMax = 15
  MaxCalls = 1
  StartWhileResizing = FALSE
INVARIANTS
  TypeOK
  ResizeExclusive
PROPERTIES
  NoInterveningResize
  EveryAddReturns
CHECK_DEADLOCK FALSE
