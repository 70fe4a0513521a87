\* Two versions of an agent behind one claimer, at both scopes, with its own or with
\* hosted templates; the bundle of g2 may be incomplete.
SPECIFICATION FairSpec
CONSTANTS
  g1 = g1  g2 = g2  a = a  t1 = t1  t2 = t2  c1 = c1  c2 = c2
  Group = {g1, g2}  Agent = {a}  AgentOf <- MCAgentOf  Home = g1
  Turn = {t1, t2}  GroupOf <- MCGroupOf  Pausing = {t1}
  Child = {c1, c2}  DispatchId = {1, 2}
  Tries = 2  Limit = 1  MaxEntries = 1  MaxFaults = 1
INVARIANTS  BrokenClaimNothing
PROPERTIES ReleaseFences OwedIsServed
CHECK_DEADLOCK FALSE
