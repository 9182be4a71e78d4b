SPECIFICATION FairSpec
CONSTANTS
  w1 = w1
  w2 = w2
  a = a
  b = b
  alien = alien
  Writers <- WritersMC
  Entries <- EntriesMC
  Compatible <- CompatibleMC
  SyncWriter = TRUE
  InitSize = 2
  MaxSize = 5
  UIntMax = 6
  None = None
  Torn = Torn
  Unwritten = Unwritten
INVARIANTS
  TypeOK
  NoOverlap
PROPERTIES
  ImplementsFifo
  HeadIsTaken
