---------------------------- MODULE MCAgentRuns ----------------------------
(***************************************************************************)
(* Instances of AgentRuns for TLC: the turn and one or two resume jobs,    *)
(* each with two attempts.                                                 *)
(***************************************************************************)
EXTENDS AgentRuns, TLC

CONSTANTS a1, a2, t1, r1, r2, w1, w2, c1

MCMaxAttempts == [j \in Job |-> 2]

\* Bound: the jobs are granted three times between them (either may be retried).
MCFewGrants == Grants(Job) <= 3

MCSymmetry == Permutations(Worker) \cup Permutations(Approval)
=============================================================================
