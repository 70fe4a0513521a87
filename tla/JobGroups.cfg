SPECIFICATION FairSpec
CONSTANTS
  j1 = j1  j2 = j2  j3 = j3  g1 = g1  w1 = w1  w2 = w2  w3 = w3  p1 = p1
  NoJob = NoJob  Job = {j1, j2}  Group = {g1}  Worker = {w1, w2, w3}  Operator = {p1}
  GroupOf <- MCGroupOf  MaxAttempts = 2  MaxFaults = 1  MaxCommands = 1
INVARIANTS FiresOnceAllSucceeded JobRunsAlone
PROPERTY CompleteGroupFires
CHECK_DEADLOCK FALSE
