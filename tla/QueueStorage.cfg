SPECIFICATION Spec
CONSTANTS
  InitSize = 2
  MaxSize = 5
  UIntMax = 7
  MaxAdds = 8
INVARIANTS TypeOK SlotsHoldQueue HeldIntact NoLeak
CHECK_DEADLOCK FALSE
