SPECIFICATION FairWaitsSpec
CONSTANTS
  p1 = p1
  c1 = c1
  c2 = c2
  NoProc = NoProc
  Procs = {p1}
  Waiters = {c1, c2}
  Asks = {"waitLog", "waitExit", "waitPort", "exec", "start", "opencode"}
  Text <- SomeText
  MaxLines = 1
  MayBreak = TRUE
  SessionsFail = TRUE
  ViaHttp = TRUE
CHECK_DEADLOCK FALSE
INVARIANTS WaitsTypeOK AnswersTrue
PROPERTIES Settles PollingStops
