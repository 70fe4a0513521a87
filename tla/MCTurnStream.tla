---------------------------- MODULE MCTurnStream ----------------------------
(***************************************************************************)
(* Instances of TurnStream for TLC: all threads report under one id, as    *)
(* the inline executors of the api processes do (app.py _kick_turn).       *)
(***************************************************************************)
EXTENDS TurnStream

CONSTANTS t1, p1, p2, r1, c1, inline

MCMaxAttempts == [j \in Job |-> 2]
MCId == [p \in Proc |-> inline]
=============================================================================
