SPECIFICATION FairSpec
CONSTANTS
  r1 = r1
  r2 = r2
  r3 = r3
  r4 = r4
  s1 = s1
  s2 = s2
  None = None
  Requests <- Requests3
  SessionIds <- OneId
  Ops <- LockedOps
  InitMayFail = FALSE
  ShellMayDie = TRUE
  CommandTimeout = FALSE
  MaxCommands = 2
INVARIANTS
  OneShellPerId
PROPERTIES
  TurnsFairSpec
CHECK_DEADLOCK FALSE
