SPECIFICATION FairSpec
CONSTANTS
  f1 = f1
  f2 = f2
  st1 = st1
  None = None
  Calls <- Calls3
  Streams <- Streams1
  MaxChunks = 2
  MaxDisconnects = 1
INVARIANTS
  TypeOK
  OneConnection
PROPERTIES
  OnceSpec
  Answered
CHECK_DEADLOCK FALSE
