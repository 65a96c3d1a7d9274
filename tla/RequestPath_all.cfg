SPECIFICATION Spec
CONSTANTS
  c1 = c1
  c2 = c2
  k1 = k1
  k2 = k2
  None = None
  Calls = {c1, c2}
  Together <- MCTogether
  Ids = {"p", "start", "list", "kill-all"}
  Keys = {k1, k2}
  EnvObject <- MCEnvObject
  Durations = {13}
  MaxStops = 1
  MaxEvicts = 1
  MaxClock = 60
INVARIANTS TypeOK EnvKept AsAsked Told
SYMMETRY CallSymmetry
CHECK_DEADLOCK FALSE
