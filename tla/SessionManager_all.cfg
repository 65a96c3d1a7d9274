SPECIFICATION Spec
CONSTANTS
  r1 = r1
  r2 = r2
  r3 = r3
  r4 = r4
  s1 = s1
  s2 = s2
  None = None
  Requests <- Requests4
  SessionIds <- TwoIds
  Ops <- AllOps
  InitMayFail = TRUE
  ShellMayDie = TRUE
  CommandTimeout = TRUE
  MaxCommands = 2
SYMMETRY Symmetric
INVARIANTS
  TypeOK
  NoMutexLeak
  FreshCreations
  NoGhostSession
CHECK_DEADLOCK FALSE
