SPECIFICATION Spec
CONSTANTS
  Calls = {c1, c2}
  Paths = {p1, p2}
  Sessions = {s0, s1}
  text = text
  data = data
  Contents = {text, data}
  None = None
  Default = s0
  Blocks <- MCBlocks
  Binary = {data}
  Ops = {"read", "write", "delete", "move", "mkdir", "exists", "list", "stream", "clone"}
  Background <- MCBackground
  MaxBackground = 1
SYMMETRY MCSymmetry
INVARIANTS TypeOK ReadConsistent AnswersTrue StreamWhole
CHECK_DEADLOCK FALSE
