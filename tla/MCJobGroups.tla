---------------------------- MODULE MCJobGroups ----------------------------
(***************************************************************************)
(* Instances of JobGroups for TLC.                                         *)
(***************************************************************************)
EXTENDS JobGroups

CONSTANTS j1, j2, j3, g1, w1, w2, w3, p1

MCGroupOf == [j \in Job |-> g1]
=============================================================================
