--------------------------- MODULE MCDurableQueue ---------------------------
(***************************************************************************)
(* Instances of DurableQueue for TLC.  Two jobs share one concurrency key; *)
(* j1 may be tried twice, j2 once; j2 belongs to another version than the  *)
(* one w1 serves, w2 is unpinned and may run both.  The runs about two     *)
(* threads that must be exhaustive keep one job only, with two tries.      *)
(***************************************************************************)
EXTENDS DurableQueue

CONSTANTS j1, j2, w1, w2, k1, v1, v2

MCMaxAttempts == [j \in Job |-> IF j = j1 THEN 2 ELSE 1]
MCTwice == [j \in Job |-> 2]
MCKeyOf == [j \in Job |-> k1]
MCLimits == [j \in Job |-> IF j = j1 THEN 2 ELSE 1]
MCJobVersion == [j \in Job |-> IF j = j1 THEN v1 ELSE v2]
MCJobAgent == [j \in Job |-> NoTag]
MCServesVersion == [w \in Worker |-> IF w = w1 THEN v1 ELSE NoTag]
MCServesAgent == [w \in Worker |-> NoTag]
MCWants == [w \in Worker |-> Job]

=============================================================================
