\* Nothing dies; two gates in a row.
SPECIFICATION FairSpecUp
CONSTANTS
  a1 = a1  a2 = a2  t1 = t1  r1 = r1  r2 = r2  w1 = w1  w2 = w2  c1 = c1
  NoWorker = NoWorker  NoApproval = NoApproval  NoJob = NoJob
  Job = {t1, r1, r2}  Turn = t1  Worker = {w1}  Client = {c1}  Approval = {a1, a2}
  N = 4  Gates = {2, 3}
  MaxAttempts <- MCMaxAttempts
PROPERTIES RunComesToRest DecisionIsCarriedOut
CHECK_DEADLOCK FALSE
