SPECIFICATION FairSpec
CONSTANTS
  t1 = t1  p1 = p1  p2 = p2  r1 = r1  c1 = c1  inline = inline
  NoWorker = NoWorker  Turn = t1  Job = {t1}  Worker = {inline}  MaxAttempts <- MCMaxAttempts
  Proc = {p1, p2}  Resolver = {r1}  Id <- MCId  Client = {c1}  MaxFaults = 1
INVARIANTS TailSeesEveryFrame RunFrameIsLast
PROPERTY StreamEnds
CHECK_DEADLOCK FALSE
