SPECIFICATION Spec
CONSTANTS
  r1 = r1
  r2 = r2
  r3 = r3
  Readers <- ThreeReaders
  Leavers <- ThreeReaders
  InitSize = 2
  MaxSize = 4
  UIntMax = 15
  NULL = NULL
INVARIANTS
  TypeOK
  ListIntact
  InRingOrder
  
  SafeUnlessMisread
PROPERTIES
  KeptUnlessMisread
CONSTRAINT EarlyLeaveBound
SYMMETRY ThreeReaderSymmetry
VIEW LiveView
