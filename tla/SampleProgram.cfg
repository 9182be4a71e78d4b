SPECIFICATION FairSpec
CONSTANTS
  a1 = a1
  Owners <- OneAdder
  Main = main
  None = None
  N = 2
  K = 1
  count1 = 1
  count2 = 1
  count3 = 2
  UIntMax = 15
INVARIANTS TypeOK NoLostWakeup
PROPERTIES ProgramEnds ResultsUnlessLate StatsUnlessTorn CountsUnlessShared
