\* Two workers, one of which may go on with a job it has lost; one gate, which a
\* turn that is run again asks at again.
SPECIFICATION Spec
CONSTANTS
  a1 = a1  a2 = a2  t1 = t1  r1 = r1  r2 = r2  w1 = w1  w2 = w2  c1 = c1
  NoWorker = NoWorker  NoApproval = NoApproval  NoJob = NoJob
  Job = {t1, r1}  Turn = t1  Worker = {w1, w2}  Client = {c1}  Approval = {a1, a2}
  N = 3  Gates = {2}
  MaxAttempts <- MCMaxAttempts
CONSTRAINT MCFewGrants
SYMMETRY MCSymmetry
INVARIANTS GateHolds WorkPerGrant
CHECK_DEADLOCK FALSE
