SPECIFICATION FairSpec
CONSTANTS
  s1 = s1  s2 = s2  w1 = w1  w2 = w2  w3 = w3
  NoSup = NoSup  Sup = {s1, s2}  Worker = {w1, w2}
  Group = {1, 2}  Wide = FALSE  Substrate = TRUE
  Unattributed = {}  Retired = {}  Prewarm = {}
  MaxReplicas = 1  Backlog = 2  MaxWorkers = 1  MaxWork = 2  MaxFaults = 1
INVARIANTS  FleetWithinQuota
 
CHECK_DEADLOCK FALSE
