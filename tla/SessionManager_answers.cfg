SPECIFICATION FairSpec
CONSTANTS
  r1 = r1
  r2 = r2
  r3 = r3
  r4 = r4
  s1 = s1
  s2 = s2
  None = None
  Requests <- Requests3
  SessionIds <- OneId
  Ops <- CommandsAndMaps
  InitMayFail = TRUE
  ShellMayDie = TRUE
  CommandTimeout = TRUE
  MaxCommands = 1
PROPERTIES
  Answered
CHECK_DEADLOCK FALSE
