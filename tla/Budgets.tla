------------------------------ MODULE Budgets ------------------------------
(***************************************************************************)
(* The budget an organization shares across its workspaces (orgs.py): a    *)
(* privileged reconciler sums the meters of the members of each org and    *)
(* pushes a verdict into the policy row of every member, which is all that *)
(* admission reads (orgs.py org_violations).  Several supervisors run      *)
(* reconcilers at once, unlocked (supervisor.py reconcile_orgs), an        *)
(* operator may run another by hand, and any may die between two writes.   *)
(*                                                                         *)
(*   orgOf[w]    the org that owns a workspace   budget[o]  what its members *)
(*               may cost together, or NoBudget                            *)
(*   meter[w]    what the workspace has cost this month                    *)
(*   verdict[w]  the derived row: TRUE for exhausted; absent reads FALSE   *)
(*   going[w]    admitted work that has yet to be paid for                 *)
(*   rec[k]      a reconciler: the orgs and budgets it read at its start,  *)
(*               the org it is at, the members it still has to write       *)
(*   edits       budgets set, workspaces moved, months begun, failures of  *)
(*               reconcilers so far, at most MaxEdits                      *)
(***************************************************************************)
EXTENDS Integers, FiniteSets, FiniteSetsExt

CONSTANTS Workspace, Org, NoOrg, FirstOrg, Reconciler, Budget, NoBudget,
          MaxMeter, MaxEdits      \* bounds

BudgetsAssumption ==
  /\ Budget \subseteq Nat /\ NoBudget \notin Nat /\ NoOrg \notin Org /\ FirstOrg \in Org
  /\ MaxMeter \in Nat /\ MaxEdits \in Nat

VARIABLES orgOf, budget, meter, verdict, going, rec, edits

vars == <<orgOf, budget, meter, verdict, going, rec, edits>>

Edit == edits < MaxEdits /\ edits' = edits + 1
-----------------------------------------------------------------------------
Resting == [pc |-> "idle", budgets |-> [o \in Org |-> NoBudget], todo |-> {},
            org |-> NoOrg, left |-> {}, exhausted |-> FALSE]

Members(o) == {w \in Workspace : orgOf[w] = o}

\* org_usage.
Cost(o) == MapThenSumSet(LAMBDA w : meter[w], Members(o))

\* violations_for: at its ceiling is a breach; no budget, no limit.
Breached(limit, cost) == limit # NoBudget /\ cost >= limit
Over(o) == Breached(budget[o], Cost(o))

Init ==
  /\ orgOf = [w \in Workspace |-> FirstOrg]
  /\ \E b \in Budget \cup {NoBudget} : budget = [o \in Org |-> IF o = FirstOrg THEN b ELSE NoBudget]
  /\ meter = [w \in Workspace |-> 0] /\ verdict = [w \in Workspace |-> FALSE]
  /\ going = [w \in Workspace |-> FALSE]
  /\ rec = [k \in Reconciler |-> Resting] /\ edits = 0

(* Tenants. *)

\* require_admission: the verdict on record decides, whatever the meter says by now.
Admit(w) ==
  /\ ~going[w] /\ ~verdict[w]
  /\ going' = [going EXCEPT ![w] = TRUE]
  /\ UNCHANGED <<orgOf, budget, meter, verdict, rec, edits>>

\* meter_append, once a model has answered, or work that costs nothing.
Pay(w, cost) ==
  /\ going[w] /\ meter[w] + cost <= MaxMeter
  /\ meter' = [meter EXCEPT ![w] = @ + cost]
  /\ going' = [going EXCEPT ![w] = FALSE]
  /\ UNCHANGED <<orgOf, budget, verdict, rec, edits>>

(* Operators. *)

SetOrgBudget(o, b) ==
  /\ Edit
  /\ budget' = [budget EXCEPT ![o] = b]
  /\ UNCHANGED <<orgOf, meter, verdict, going, rec>>

AssignWorkspaceToOrg(w, o) ==
  /\ Edit
  /\ orgOf' = [orgOf EXCEPT ![w] = o]
  /\ UNCHANGED <<budget, meter, verdict, going, rec>>

\* _month_start: rows from before it no longer count.
NewMonth ==
  /\ Edit
  /\ meter' = [w \in Workspace |-> 0]
  /\ UNCHANGED <<orgOf, budget, verdict, going, rec>>

(* Reconcilers. *)

Goes(k, r) == rec' = [rec EXCEPT ![k] = r]

\* reconcile: the orgs and their budgets are read once ...
BeginReconcile(k) ==
  /\ rec[k].pc = "idle"
  /\ Goes(k, [Resting EXCEPT !.pc = "orgs", !.budgets = budget, !.todo = Org])
  /\ UNCHANGED <<orgOf, budget, meter, verdict, going, edits>>

\* Slip: an org within its budget is passed over.
ReadExhausted(k, o) ==
  LET r == rec[k] over == Breached(r.budgets[o], Cost(o)) IN
  /\ r.pc = "orgs" /\ o \in r.todo
  /\ Goes(k, [r EXCEPT !.todo = @ \ {o}, !.org = o, !.exhausted = over,
                       !.pc = IF over THEN "writing" ELSE "orgs",
                       !.left = IF over THEN Members(o) ELSE {}])
  /\ UNCHANGED <<orgOf, budget, meter, verdict, going, edits>>

\* ... the usage of each when its turn comes ...
ReadUsage(k, o) ==
  LET r == rec[k] IN
  /\ r.pc = "orgs" /\ o \in r.todo
  /\ Goes(k, [r EXCEPT !.pc = "writing", !.todo = @ \ {o}, !.org = o, !.left = Members(o),
                       !.exhausted = Breached(r.budgets[o], Cost(o))])
  /\ UNCHANGED <<orgOf, budget, meter, verdict, going, edits>>

\* ... and an org whose usage cannot be read is passed over.
SkipOrg(k, o) ==
  /\ Edit
  /\ rec[k].pc = "orgs" /\ o \in rec[k].todo
  /\ Goes(k, [rec[k] EXCEPT !.todo = @ \ {o}])
  /\ UNCHANGED <<orgOf, budget, meter, verdict, going>>

\* The verdict is written over the old one, member by member.
WriteVerdict(k, w) ==
  LET r == rec[k] IN
  /\ r.pc = "writing" /\ w \in r.left
  /\ verdict' = [verdict EXCEPT ![w] = r.exhausted]
  /\ Goes(k, [r EXCEPT !.left = @ \ {w}])
  /\ UNCHANGED <<orgOf, budget, meter, going, edits>>

EndOrg(k) ==
  /\ rec[k].pc = "writing" /\ rec[k].left = {}
  /\ Goes(k, [rec[k] EXCEPT !.pc = "orgs", !.org = NoOrg, !.exhausted = FALSE])
  /\ UNCHANGED <<orgOf, budget, meter, verdict, going, edits>>

EndReconcile(k) ==
  /\ rec[k].pc = "orgs" /\ rec[k].todo = {}
  /\ Goes(k, Resting)
  /\ UNCHANGED <<orgOf, budget, meter, verdict, going, edits>>

ReconcilerDies(k) ==
  /\ Edit
  /\ rec[k].pc # "idle"
  /\ Goes(k, Resting)
  /\ UNCHANGED <<orgOf, budget, meter, verdict, going>>
-----------------------------------------------------------------------------
Reconcile(k) ==
  \/ BeginReconcile(k) \/ EndOrg(k) \/ EndReconcile(k)
  \/ \E o \in Org : ReadUsage(k, o)
  \/ \E w \in Workspace : WriteVerdict(k, w)

Next ==
  \/ \E w \in Workspace : \/ Admit(w) \/ \E cost \in {0, 1} : Pay(w, cost)
                          \/ \E o \in Org : AssignWorkspaceToOrg(w, o)
  \/ \E o \in Org, b \in Budget \cup {NoBudget} : SetOrgBudget(o, b)
  \/ NewMonth
  \/ \E k \in Reconciler : \/ Reconcile(k) \/ ReconcilerDies(k)
                           \/ \E o \in Org : SkipOrg(k, o)

Spec == Init /\ [][Next]_vars

\* Reconcile is fair: the supervisors' loop starts another when its interval is over.
-----------------------------------------------------------------------------
TypeOK ==
  /\ orgOf \in [Workspace -> Org]
  /\ budget \in [Org -> Budget \cup {NoBudget}]
  /\ meter \in [Workspace -> Nat] /\ verdict \in [Workspace -> BOOLEAN]
  /\ going \in [Workspace -> BOOLEAN] /\ edits \in Nat
  /\ rec \in [Reconciler -> [pc: {"idle", "orgs", "writing"},
                             budgets: [Org -> Budget \cup {NoBudget}], todo: SUBSET Org,
                             org: Org \cup {NoOrg}, left: SUBSET Workspace,
                             exhausted: BOOLEAN]]

\* The verdict a workspace has is the one its present org deserves.
VerdictIsRight(w) == verdict[w] = Over(orgOf[w])
=============================================================================
