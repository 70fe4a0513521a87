----------------------------- MODULE MCSpending -----------------------------
(***************************************************************************)
(* What a tenant spends: the loops of its agents with their model calls    *)
(* and the switches of their tools (AgentLoop), and the budgets            *)
(* organizations set over several of them (Budgets).  The two share no     *)
(* state and are checked in one run: `part` says what a behaviour is       *)
(* about.  The budgets are at work in "budgets", two loops and no operator *)
(* in "loops", one direct loop without faults and two operators in         *)
(* "switches".                                                             *)
(***************************************************************************)
EXTENDS AgentLoop, TLC

CONSTANTS w1, w2, o1, o2, k1, k2, NoOrg, NoBudget, r1, r2, a1, a2, refund, lookup

VARIABLES part, orgOf, budget, meter, verdict, going, rec, edits

(* Two workspaces that move between two orgs, two reconcilers. *)
B == INSTANCE Budgets WITH
       Workspace <- {w1, w2}, Org <- {o1, o2}, FirstOrg <- o1, Reconciler <- {k1, k2},
       Budget <- {1}, MaxMeter <- 1, MaxEdits <- 1

(* A loop and a respond; a tool that may be called and one that may not. *)
MCDeclared == refund :> "allowed" @@ lookup :> "read_only"
MCAnswers == {<<>>, <<refund>>, <<lookup, refund>>}

ASSUME Assumptions == B!BudgetsAssumption /\ LoopAssumption

budgetVars == <<orgOf, budget, meter, verdict, going, rec, edits>>
vars == <<part, budgetVars, loopVars>>
-----------------------------------------------------------------------------
Off == "off"
NoBudgets ==
  /\ orgOf = Off /\ budget = Off /\ meter = Off /\ verdict = Off /\ going = Off /\ rec = Off
  /\ edits = Off
NoLoops == LoopInit /\ ~conf.mediated /\ conf.legacy = NoSwitches

Init ==
  \/ part = "budgets" /\ B!Init /\ NoLoops
  \/ part = "loops" /\ LoopInit /\ NoBudgets
  \/ part = "switches" /\ LoopInit /\ ~conf.mediated /\ conf.legacy[refund] = "disabled" /\ NoBudgets

Budgeting == part = "budgets" /\ B!Next /\ UNCHANGED <<part, loopVars>>
Looping == part = "loops" /\ LoopNext /\ UNCHANGED <<part, ops, budgetVars>>
Switching ==
  /\ part = "switches" /\ LoopNext
  /\ loop'[r2] = loop[r2] /\ UNCHANGED <<part, faults, budgetVars>>

Next == Budgeting \/ Looping \/ Switching

\* The fairness of the two.
Reconciles(k) == part = "budgets" /\ B!Reconcile(k) /\ UNCHANGED <<part, loopVars>>
Works(r) == part = "loops" /\ LoopWork(r) /\ UNCHANGED <<part, budgetVars>>
Spec ==
  /\ Init /\ [][Next]_vars
  /\ \A k \in {k1, k2} : WF_vars(Reconciles(k))
  /\ \A r \in {r1, r2} : WF_vars(Works(r))
-----------------------------------------------------------------------------
\* Whoever reconciles at the same time, is delayed between its sum and its writes, or
\* dies half way, every workspace ends up with the verdict its present org deserves:
\* none goes on spending over a budget, none stays refused under one (orgs.py reconcile,
\* "Idempotent, and safe to run from a cron, a supervisor tick or by hand").
VerdictCatchesUp ==
  <>[](part = "budgets" => B!VerdictIsRight(w1) /\ B!VerdictIsRight(w2))

\* Every loop and every respond comes to an end, whatever fails (context.py _LLM.run,
\* broker/client.py call).
LoopEnds ==
  \A r \in {r1, r2} : (part = "loops" /\ Began(r)) ~> (part = "loops" /\ HasEnded(r))
=============================================================================
