SPECIFICATION Spec
CONSTANTS
  c1 = c1
  c2 = c2
  c3 = c3
  None = None
  Calls <- Calls3
  Ops <- AllOps
  MinSize = 1
  MaxProcesses = 2
  ExecTimeout = TRUE
  MaxSpawns = 3
  MaxFailures = 1
INVARIANTS
  TypeOK
  PoolAccounts
  AnswersInTurn
PROPERTIES
  LeasesSpec
SYMMETRY Symmetric
CHECK_DEADLOCK FALSE
