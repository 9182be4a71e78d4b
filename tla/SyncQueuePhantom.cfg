SPECIFICATION Spec
CONSTANTS
  r1 = r1
  r2 = r2
  r3 = r3
  Readers <- TwoReaders
  Leavers = {}
  InitSize = 3
  MaxSize = 3
  UIntMax = 15
  NULL = NULL
INVARIANTS
  HandedOnce
