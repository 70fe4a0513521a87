SPECIFICATION Spec
CONSTANTS
  w1 = w1  c1 = c1  c2 = c2  p1 = p1  NoWorkspace = NoWorkspace
  Workspace = {w1}  Client = {c1, c2}  Operator = {p1}
  MaxRuns = 1  MaxDepth = 2  MaxBatch = 2  MaxFree = 1
SYMMETRY MCSymmetry
INVARIANTS  BatchIsAUnit
CHECK_DEADLOCK FALSE
