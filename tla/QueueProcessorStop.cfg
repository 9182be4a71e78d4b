SPECIFICATION FairSpec
CONSTANTS
  c1 = c1
  c2 = c2
  None = None
  Clients <- TwoClients
  N = 1
  MaxCalls = 3
  MaxAdds = 0
  MaxFailures = 0
  Careful = FALSE
PROPERTIES
  ResumeReturns
CHECK_DEADLOCK FALSE
