CONSTANTS
  w1 = w1  w2 = w2  o1 = o1  o2 = o2  k1 = k1  k2 = k2
  NoOrg = NoOrg  NoBudget = NoBudget
  r1 = r1  r2 = r2  a1 = a1  a2 = a2  refund = refund  lookup = lookup
  Run = {r1, r2}  Responding = {r2}  Api = {a1, a2}  Tool = {refund, lookup}
  Declared <- MCDeclared  Answers <- MCAnswers
  MaxSteps = 2  Tries = 2  Limit = 1  MaxDeaths = 1  MaxFaults = 1  MaxOps = 2
SPECIFICATION Spec
 
PROPERTIES VerdictCatchesUp LoopEnds KilledToolsStayKilled
CHECK_DEADLOCK FALSE
