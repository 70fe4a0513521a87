SPECIFICATION FairSpec
CONSTANTS
  page = page  write = write  v1 = v1  v2 = v2  NoValue = NoValue
  Tool = {page, write}  Pinned = {page}  Adopting = {page}
  Value = {v1, v2}  Handler = {"pager", "fallback", "noter"}
  Asks <- MCAsks
  MaxCalls = 5  MaxChanges = 2
INVARIANTS Retraces AnswersAreOwn
PROPERTY GrantArrives
CHECK_DEADLOCK FALSE
