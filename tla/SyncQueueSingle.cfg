SPECIFICATION FairSpec
CONSTANTS
  r1 = r1
  r2 = r2
  r3 = r3
  Readers <- OneReader
  Leavers <- OneReader
  InitSize = 2
  MaxSize = 8
  UIntMax = 15
  NULL = NULL
INVARIANTS
  HandedOnce
  WriterDisjoint
  NoneSkipped
PROPERTIES
  NoneLost
  EveryEntryTaken
  SpaceIsFreed
