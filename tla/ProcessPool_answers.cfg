SPECIFICATION FairSpec
CONSTANTS
  c1 = c1
  c2 = c2
  c3 = c3
  None = None
  Calls <- Calls2
  Ops <- AllOps
  MinSize = 2
  MaxProcesses = 3
  ExecTimeout = TRUE
  MaxSpawns = 5
  MaxFailures = 1
PROPERTIES
  Answered
CHECK_DEADLOCK FALSE
