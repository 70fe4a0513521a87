----------------------------- MODULE MCRollout -----------------------------
(***************************************************************************)
(* Instances of Rollout for TLC: a gate of every kind of evidence is left  *)
(* from before the gates were per agent.                                   *)
(***************************************************************************)
EXTENDS Rollout

CONSTANTS v1, v2, c1, c2, r1, r2

MCLegacy == [e \in Env |-> Kind]
=============================================================================
