---------------------------- MODULE MCAdmission ----------------------------
(***************************************************************************)
(* Instances of Admission for TLC.                                         *)
(***************************************************************************)
EXTENDS Admission, TLC

CONSTANTS w1, c1, c2, p1

MCSymmetry == Permutations({c1, c2})
=============================================================================
