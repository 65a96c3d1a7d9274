SPECIFICATION FairSpec
CONSTANTS
  Procs = {p1}
  Calls = {c1, c2}
  Ops = {"get", "kill", "killAll", "stream"}
  None = None
  Absent = Absent
  Partial = Partial
  MaxOutput = 2
  SessionsFail = TRUE
  WritesFail = TRUE
  ClientsCancel = TRUE
INVARIANTS TypeOK Findable OutputCaptured
PROPERTIES Persisted Answered
CHECK_DEADLOCK FALSE
