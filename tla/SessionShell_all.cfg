SPECIFICATION FairSpec
CONSTANTS
  Execs = {e1}
  Streams = {s1}
  None = None
  MaxLines = 2
  Timeout = TRUE
  MayDestroy = TRUE
  MayKill = TRUE
  MayExit = TRUE
INVARIANTS TypeOK ExecOutput Killable
PROPERTIES Settles
CHECK_DEADLOCK FALSE
