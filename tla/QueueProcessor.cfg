SPECIFICATION FairSpec
CONSTANTS
  c1 = c1
  c2 = c2
  None = None
  Clients <- TwoClients
  N = 2
  MaxCalls = 3
  MaxAdds = 1
  MaxFailures = 1
  Careful = TRUE
INVARIANTS
  TypeOK
  PausedIsIdle
  PausesUndone
  StopDrains
  NoThreadLeft
PROPERTIES
  
  WorkGetsDone
CHECK_DEADLOCK FALSE
