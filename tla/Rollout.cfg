SPECIFICATION Spec
CONSTANTS
  v1 = v1  v2 = v2  c1 = c1  c2 = c2  r1 = r1  r2 = r2
  NoVersion = NoVersion  NoPolicy = NoPolicy
  Version = {v1, v2}  Env = {"prod"}  Kind = {"evals"}  Run = {r1}  Client = {c1, c2}
  Legacy <- MCLegacy  MaxFlips = 2  MaxEdits = 2
INVARIANTS InUseStaysActive NoUnvettedVersion RollbackUndoesLastChange
CHECK_DEADLOCK FALSE
