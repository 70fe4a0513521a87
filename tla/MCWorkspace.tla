---------------------------- MODULE MCWorkspace ----------------------------
(***************************************************************************)
(* What belongs to one workspace and is written by many: its guard         *)
(* policies and its keys.  The two do not share any state and are checked  *)
(* one at a time, in one run: `part` says which one a behaviour is about,  *)
(* the variables of the other stay as they are.                            *)
(***************************************************************************)
EXTENDS Governance, TenantKeys, TLC

CONSTANTS ann, all, cli, api, api2, home, other, shared, h1, h2, nohost, NO, CL

VARIABLE part

(* The guard: two agents, one of them the mounted one; two hosts, one with two paths. *)
Rule1 == [action |-> "allow", sites |-> {"api"}, host |-> h1]
Rule2 == [action |-> "deny", sites |-> {"mail"}, host |-> h2]
Rule3 == [action |-> "allow", sites |-> {"mail"}, host |-> nohost]

MCRule == {Rule1, Rule2, Rule3}
MCHostOf == "api" :> h1 @@ "docs" :> h1 @@ "mail" :> h2
MCPolicy == {{Rule1, Rule2}, {Rule3}}
MCGates == {NO, {Rule3}}
MCGuards == {NO, {Rule1}}
MCFiles == {{Rule3}}

vars == <<part, guardVars, keyVars>>
-----------------------------------------------------------------------------
NoGuard ==
  /\ GuardInit /\ log = {} /\ gate[Shared] = NO
  /\ ~conf.mediated /\ ~conf.inProject /\ ~conf.restricted

Init ==
  \/ part = "guard" /\ GuardInit /\ KeysInit
  \/ part = "keys" /\ KeysInit /\ NoGuard

Guarding == part = "guard" /\ GuardNext /\ UNCHANGED <<part, keyVars>>
Keys == part = "keys" /\ KeysNext /\ UNCHANGED <<part, guardVars>>

Next == Guarding \/ Keys

Spec == Init /\ [][Next]_vars
=============================================================================
