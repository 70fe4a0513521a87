\* One thread: every handler runs to its end, or to its death, before the next starts;
\* j1 may run beside the other job of its key, j2 only alone.
SPECIFICATION FairSpec
CONSTANTS
  j1 = j1  j2 = j2  w1 = w1  w2 = w2  k1 = k1  v1 = v1  v2 = v2
  NoWorker = NoWorker  NoKey = NoKey  NoTag = NoTag
  Job = {j1, j2}  Worker = {w1, w2}  Thread = {"t1"}
  Key = {k1}  Tag = {v1, v2}
  MaxAttempts <- MCMaxAttempts
  KeyOf <- MCKeyOf  LimitOf <- MCLimits
  JobVersion <- MCJobVersion  JobAgent <- MCJobAgent
  ServesVersion <- MCServesVersion  ServesAgent <- MCServesAgent
  Wants <- MCWants
  MaxClaimLimit = 2  MaxQueueDepth = 2
INVARIANTS DocsConsistent 
PROPERTIES 
  ClaimFindsOwn KeepsPromise EveryJobSettles
