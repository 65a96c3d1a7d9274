SPECIFICATION Spec
CONSTANTS
  c1 = c1
  c2 = c2
  c3 = c3
  p8080 = p8080
  p9000 = p9000
  t1 = t1
  t2 = t2
  None = None
  Calls <- Calls3
  Ports <- TwoPorts
  Tokens <- TwoTokens
  Paths <- OnePath
  Name <- MyBox
  Words <- BoxWords
  lower <- BoxLower
  Ops <- AllOps
  RequestsFail = TRUE
  MaxStops = 1
  MaxRestarts = 1
INVARIANTS
  TokensUnique
  VisitsIssued
  NoOrphanReservation
SYMMETRY Symmetric
CHECK_DEADLOCK FALSE
