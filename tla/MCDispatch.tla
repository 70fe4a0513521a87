----------------------------- MODULE MCDispatch -----------------------------
(***************************************************************************)
(* Instances of Dispatch for TLC: two versions of one agent, so that the   *)
(* worker ids of their dispatches may collide; the turn of g1 pauses.      *)
(***************************************************************************)
EXTENDS Dispatch

CONSTANTS g1, g2, a, t1, t2, c1, c2

MCAgentOf == [g \in Group |-> a]
MCGroupOf == [t \in Turn |-> IF t = t1 THEN g1 ELSE g2]
=============================================================================
