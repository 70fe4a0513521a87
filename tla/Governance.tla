----------------------------- MODULE Governance -----------------------------
(***************************************************************************)
(* What an agent may reach: its guard policy (guard.py), written by the    *)
(* operators of the api (api/app.py _guard_put) over the policy rows of    *)
(* the store, and the requests that are judged by it, through the broker   *)
(* (broker/server.py) or in the process of the run itself (sdk/context.py  *)
(* and egress.py); and the promotion gates that are kept in the same rows  *)
(* (gates.py).                                                             *)
(*                                                                         *)
(* A policy is a set of rules. A row is keyed by the agent; the row of     *)
(* Shared is the one from before agents had rows of their own, and the     *)
(* file is the rya.guard.yaml of the project of Home.                      *)
(*                                                                         *)
(*   conf      mediated or not; whether processes run in that project; and *)
(*             whether a sandbox has its network restricted                *)
(*   guard[k], gate[k]  the rows, a guard's with its version               *)
(*   file      the project's own policy                                    *)
(*   log       the append-only trail of guards                             *)
(*   put[w]    what api process w is writing                               *)
(*   request[a] the request agent a is making, and what was read for it    *)
(*   service[a] the egress service the broker keeps for a: the snapshot    *)
(*   diverged  what the two layers disagreed about                         *)
(*   ops, faults, deaths  counters                                         *)
(* and bookkeeping: wasFine[a], whether a policy in force since the request*)
(* began allowed its site; done[a], how it ended; opened[a], whether the   *)
(* operator wants a to have no gate.                                       *)
(***************************************************************************)
EXTENDS Integers, FiniteSets

CONSTANTS Agent, Home, Shared,
          Api,
          Traffic,           \* requests that are made: "tool", "fetch"
          Site, HostOf,      \* urls, and the host of each
          Rule,              \* [action, sites, host]: host is NoHost behind a wildcard
          NoHost, None,
          Closed,            \* a policy that is there and cannot be read
          Policy, Gates,     \* the policies and gates operators write: sets of rules
          Guards, Files,     \* rows and files there may be to begin with
          MaxOps, MaxFaults, MaxDeaths   \* bounds

ASSUME GovernanceAssumption ==
  /\ Home \in Agent /\ Shared \notin Agent /\ "file" \notin Agent \cup {Shared}
  /\ {None, Closed} \cap Policy = {} /\ None # Closed /\ \A s \in Site : HostOf[s] # NoHost
  /\ Policy \subseteq SUBSET Rule /\ Gates \subseteq Policy \cup {None}
  /\ Traffic \subseteq {"tool", "fetch"}
  /\ \A r \in Rule : r.sites \subseteq Site /\ r.action \in {"allow", "deny"}
  /\ {MaxOps, MaxFaults, MaxDeaths} \subseteq Nat

VARIABLES conf, guard, gate, file, log, put, request, service, diverged, ops, faults, deaths,
          wasFine, done, opened

rows == <<guard, gate, file, log, put, opened>>
asking == <<request, service, diverged, wasFine, done>>
guardVars == <<conf, rows, asking, ops, faults, deaths>>

Key == Agent \cup {Shared}
-----------------------------------------------------------------------------
(* Deciding: pure functions of a policy. *)

\* evaluate: a deny rule, an allow rule, else the default, which denies.
Evaluate(p, s) ==
  /\ p # Closed
  /\ ~\E r \in p : r.action = "deny" /\ s \in r.sites
  /\ \E r \in p : r.action = "allow" /\ s \in r.sites

\* check_egress: no policy anywhere is a guard that is not there.
Passes(p, s) == p = None \/ Evaluate(p, s)

\* Slip: the hosts of every rule.
HostsNamed(p) == IF p \in {None, Closed} THEN {} ELSE {r.host : r \in p} \ {NoHost}

\* posture_from_policy: a network knows hosts, and only what is allowed.
PostureHosts(p) ==
  IF p \in {None, Closed} THEN {} ELSE {r.host : r \in {q \in p : q.action = "allow"}} \ {NoHost}

(* Which policy governs an agent. *)

Ambient == IF conf.inProject THEN file ELSE None

\* Slip: every agent is governed by the row from before.
SharedKey(a) == Shared

\* store_key_for: the agent's own row once there is one.
StoreKeyFor(a) == IF guard[a].policy # None THEN a ELSE Shared

\* resolve_policy over the store: a row that is not there falls back to the file.
Resolved(k) == IF guard[k].policy # None THEN guard[k].policy ELSE Ambient

\* What is meant to govern an agent: its own row, else the shared one, else the file.
InForce(a) == Resolved(IF guard[a].policy # None THEN a ELSE Shared)

\* _guard_source: the file is the mounted agent's alone, and only while it has no row.
Source(a) ==
  IF guard[StoreKeyFor(a)].policy # None THEN StoreKeyFor(a)
  ELSE IF a = Home THEN "file" ELSE a

ShownByApi(a) == IF Source(a) = "file" THEN file ELSE Resolved(Source(a))

\* Slip: the dashboard reads the file.
FileShown(a) == file

\* effective_policy, as the snapshot of the mounted agent reads it.
Effective(a) == IF guard[StoreKeyFor(a)].policy # None THEN guard[StoreKeyFor(a)].policy ELSE file

\* _Guard.policy of a run: the governed source, else this project's file.
PolicyOfRun(a) == IF InForce(a) # None THEN InForce(a) ELSE file

GatePolicy(a) == IF gate[a] # None THEN gate[a] ELSE gate[Shared]

NoRow == [policy |-> None, version |-> 0]
NoPut == [pc |-> "idle"]
NoReq(kind) == [pc |-> "idle", kind |-> kind]
NoService == [is |-> FALSE]

GuardInit ==
  /\ conf \in [mediated : BOOLEAN, inProject : BOOLEAN, restricted : BOOLEAN]
  /\ \E p \in Guards :
       /\ guard = [k \in Key |-> IF k = Shared /\ p # None THEN [policy |-> p, version |-> 1] ELSE NoRow]
       /\ log = IF p = None THEN {} ELSE {[key |-> Shared, version |-> 1, policy |-> p]}
  /\ \E p \in Guards : gate = [k \in Key |-> IF k = Shared THEN p ELSE None]
  /\ file \in Files
  /\ put = [w \in Api |-> NoPut] /\ opened = [a \in Agent |-> FALSE]
  /\ request = [a \in Agent |-> NoReq("none")] /\ done = [a \in Agent |-> "none"]
  /\ service = [a \in Agent |-> NoService] /\ diverged = {}
  /\ wasFine = [a \in Agent |-> FALSE]
  /\ ops = 0 /\ faults = 0 /\ deaths = 0
-----------------------------------------------------------------------------
(* Operators, through the api. *)

\* Slip: the key it was read under.
ReadKey(a) == Source(a)

\* Writes go to the agent's own key, although the read fell back to the shared row.
WriteKey(a) == IF Source(a) = "file" THEN "file" ELSE a

\* _guard_put up to save_policy, which reads the previous version first.
PutGuard(w, a, p) ==
  /\ put[w].pc = "idle" /\ ops < MaxOps
  /\ ops' = ops + 1
  /\ put' = [put EXCEPT ![w] = [pc |-> "write", agent |-> a, policy |-> p, to |-> WriteKey(a),
               version |-> IF WriteKey(a) = "file" THEN 0 ELSE guard[WriteKey(a)].version]]
  /\ UNCHANGED <<conf, guard, gate, file, log, opened, asking, faults, deaths>>

\* Slip: one more than the version that was read.
VersionRead(w) == put[w].version + 1

\* policy_set: the statement itself counts.
NextVersion(w) == guard[put[w].to].version + 1

\* The first statement of policy_set, or the file.
WriteGuard(w) ==
  /\ put[w].pc = "write"
  /\ IF put[w].to = "file"
     THEN /\ file' = put[w].policy /\ put' = [put EXCEPT ![w] = NoPut]
          /\ UNCHANGED guard
     ELSE /\ guard' = [guard EXCEPT ![put[w].to] = [policy |-> put[w].policy, version |-> NextVersion(w)]]
          /\ put' = [put EXCEPT ![w].pc = "log", ![w].version = NextVersion(w)]
          /\ UNCHANGED file
  /\ UNCHANGED <<conf, gate, log, opened, request, service, diverged, done, ops, faults, deaths>>
  /\ wasFine' = [a \in Agent |->
                   wasFine[a] \/ (request[a].pc # "idle" /\ Passes(InForce(a)', request[a].site))]

\* The second statement.
AppendLog(w) ==
  /\ put[w].pc = "log"
  /\ log' = log \cup {[key |-> put[w].to, version |-> put[w].version, policy |-> put[w].policy]}
  /\ put' = [put EXCEPT ![w] = NoPut]
  /\ UNCHANGED <<conf, guard, gate, file, opened, asking, ops, faults, deaths>>

WriterDies(w) ==
  /\ put[w].pc # "idle" /\ deaths < MaxDeaths
  /\ deaths' = deaths + 1 /\ put' = [put EXCEPT ![w] = NoPut]
  /\ UNCHANGED <<conf, guard, gate, file, log, opened, asking, ops, faults>>

\* set_gate: always the agent's own key; None clears it.
EditGate(a, p) ==
  /\ ops < MaxOps /\ ops' = ops + 1
  /\ gate' = [gate EXCEPT ![a] = p] /\ opened' = [opened EXCEPT ![a] = p = None]
  /\ UNCHANGED <<conf, guard, file, log, put, asking, faults, deaths>>
-----------------------------------------------------------------------------
(* The request of an agent. Each read of the store is a step, and may fail. *)

Failing == IF faults < MaxFaults THEN {TRUE, FALSE} ELSE {FALSE}
Read(k, failing) == IF failing THEN Closed ELSE Resolved(k)
Tag(p) == IF p = Closed THEN None ELSE p      \* the etag of a policy
Counts(failing) == faults' = IF failing THEN faults + 1 ELSE faults

Set(a, pc) == request' = [request EXCEPT ![a].pc = pc]

\* A service is kept by the broker, and made anew for each fetch without one.
Ends(a, sent) ==
  /\ request' = [request EXCEPT ![a] = NoReq(request[a].kind)]
  /\ done' = [done EXCEPT ![a] = IF sent THEN "sent" ELSE "refused"]
  /\ service' = IF conf.mediated THEN service ELSE [service EXCEPT ![a] = NoService]

RestStays == UNCHANGED <<conf, rows, wasFine, ops, deaths>>

AfterJudging(a) == IF conf.restricted /\ ~service[a].is THEN "service" ELSE "again"

Ask(a, kind, s) ==
  /\ request[a].pc = "idle" /\ ops < MaxOps /\ ops' = ops + 1
  /\ request' = [request EXCEPT ![a] = [kind |-> kind, site |-> s, key |-> a,
               pc |-> IF conf.mediated THEN "key" ELSE IF kind = "tool" THEN "send" ELSE AfterJudging(a)]]
  /\ wasFine' = [wasFine EXCEPT ![a] = Passes(InForce(a), s)]
  /\ done' = [done EXCEPT ![a] = "none"]
  /\ UNCHANGED <<conf, rows, service, diverged, faults, deaths>>

\* store_key_for, first for the broker's verdict and then for the service's. A failed
\* read answers with the agent's own key.
ReadsKey(a) ==
  /\ request[a].pc \in {"key", "again"}
  /\ \E failing \in Failing :
       /\ Counts(failing)
       /\ request' = [request EXCEPT ![a].key = IF failing THEN a ELSE StoreKeyFor(a),
                             ![a].pc = IF request[a].pc = "key" THEN "judge" ELSE "check"]
  /\ RestStays /\ UNCHANGED <<service, diverged, done>>

\* resolve_policy and check_egress of the broker.
Judges(a, next) ==
  /\ request[a].pc = "judge"
  /\ \E failing \in Failing :
       /\ Counts(failing)
       /\ IF Passes(Read(request[a].key, failing), request[a].site)
          THEN Set(a, next) /\ UNCHANGED <<service, done>>
          ELSE Ends(a, FALSE)
  /\ RestStays /\ UNCHANGED diverged

ToTheTool(a) == request[a].kind = "tool" /\ Judges(a, "send")
ToTheService(a) == request[a].kind = "fetch" /\ Judges(a, AfterJudging(a))

\* _http_tool asks the ambient file, in the broker too.
SendsTool(a) ==
  /\ request[a].pc = "send"
  /\ Ends(a, Passes(Ambient, request[a].site))
  /\ RestStays /\ UNCHANGED <<diverged, faults>>

\* The posture is made of the unqualified key.
MakesService(a) ==
  /\ request[a].pc = "service"
  /\ \E failing \in Failing :
       LET p == Read(Shared, failing) IN
       /\ Counts(failing)
       /\ service' = [service EXCEPT ![a] = [is |-> TRUE, tag |-> Tag(p), hosts |-> PostureHosts(p)]]
  /\ Set(a, "again")
  /\ RestStays /\ UNCHANGED <<diverged, done>>

Permits(a, s) == conf.restricted => HostOf[s] \in service[a].hosts

\* EgressService.check: both verdicts, and what they disagree about.
Fetches(a) ==
  /\ request[a].pc = "check"
  /\ \E failing \in Failing :
       LET p == Read(request[a].key, failing)
           s == request[a].site
           net == Permits(a, s) IN
       /\ Counts(failing)
       /\ diverged' = IF p = None \/ Evaluate(p, s) = net THEN diverged
                      ELSE diverged \cup {[site |-> s, network |-> net, of |-> Tag(p),
                                           by |-> IF conf.restricted THEN service[a].tag ELSE None]}
       /\ Ends(a, Passes(p, s) /\ net)
  /\ RestStays

\* A new claimer, with a broker of its own, when the old one is idle.
Recycle ==
  /\ conf.mediated /\ (\E a \in Agent : service[a].is) /\ \A a \in Agent : request[a].pc = "idle"
  /\ service' = [a \in Agent |-> NoService]
  /\ RestStays /\ UNCHANGED <<request, diverged, done, faults>>
-----------------------------------------------------------------------------
Writes(w) == (\E a \in Agent, p \in Policy : PutGuard(w, a, p)) \/ WriteGuard(w) \/ AppendLog(w) \/ WriterDies(w)
Requests(a) ==
  \/ \E kind \in Traffic, s \in Site : Ask(a, kind, s)
  \/ ReadsKey(a) \/ ToTheTool(a) \/ ToTheService(a) \/ SendsTool(a) \/ MakesService(a) \/ Fetches(a)

GuardNext ==
  \/ \E w \in Api : Writes(w)
  \/ \E a \in Agent : Requests(a) \/ \E p \in Gates : EditGate(a, p)
  \/ Recycle

GuardSpec == GuardInit /\ [][GuardNext]_guardVars
-----------------------------------------------------------------------------
\* A fetch, and any request through the broker, leaves only if a policy that governed
\* its agent at some time since it was asked allowed it, whatever is written between
\* the reads of one request (guard.py store_key_for, resolve_policy). The file of a
\* project may be written between them as well; a store that fails in between is the
\* business of FailsClosed.
SentWasAllowed ==
  \A a \in Agent :
    done[a] = "sent" /\ faults = 0 /\ ~conf.inProject
    /\ (conf.mediated \/ request[a].kind = "fetch") => wasFine[a]

\* Whatever an operator does to one agent's guard or gate, what governs another agent
\* stays what it was (api/app.py _guard_put: "editing one agent's guard must not
\* rewrite the policy another agent is still inheriting"), where no process runs in a
\* project whose file they all fall back to.
PolicyOf(a) == <<InForce(a), GatePolicy(a)>>
WritesFor(a) == 
  \/ \E w \in Api : put[w].pc = "write" /\ put[w].agent = a /\ WriteGuard(w)
  \/ \E p \in Gates : EditGate(a, p)
LeavesOthersAlone ==
  \A a, b \in Agent : a # b /\ WritesFor(a) /\ ~conf.inProject => PolicyOf(b)' = PolicyOf(b)
AgentsApart == [][LeavesOthersAlone]_guardVars

\* The api, the dashboard, a run and the broker are speaking of one policy when they
\* answer for the mounted agent (guard.py effective_policy: "when they disagree a
\* dashboard describes a policy the runtime is not using").
ReadersAgree ==
  conf.inProject =>
    /\ ShownByApi(Home) = InForce(Home)
    /\ Effective(Home) = InForce(Home)
    /\ PolicyOfRun(Home) = InForce(Home)

\* With nobody writing and no writer lost, the trail of a key tells its versions one
\* by one, whatever the order they were written in, and its last is the one in force
\* (store_postgres.py policy_set beside other api processes).
TrailTellsAll ==
  deaths = 0 /\ (\A w \in Api : put[w].pc # "log") =>
    \A k \in Key :
      /\ {e.version : e \in {x \in log : x.key = k}} = 1..guard[k].version
      /\ \A e \in log : e.key = k /\ e.version = guard[k].version => e.policy = guard[k].policy
      /\ Cardinality({e \in log : e.key = k}) = guard[k].version

\* A disagreement of two layers that speak of the same policy is about a rule a network
\* cannot express: hosts it lets pass are hosts of an allow rule, and what it stops is
\* allowed by wildcards only (egress.py _record and posture_from_policy).
BlamedRightly ==
  \A d \in diverged : d.of = d.by /\ d.of # None =>
    LET allows == {r \in d.of : r.action = "allow"} IN
    IF d.network THEN \E r \in allows : r.host = HostOf[d.site]
    ELSE \A r \in allows : d.site \in r.sites => r.host # HostOf[d.site]
\* Together: what is sent was allowed by a policy of its time, all readers of a policy
\* agree, and the two layers of enforcement differ for the reasons they give.
GuardHolds == SentWasAllowed /\ ReadersAgree /\ BlamedRightly
-----------------------------------------------------------------------------
(* What the repository says and the code does not do. *)

\* "a read failure must fail closed, not fall back": an agent for which there is a
\* policy in the store reaches nothing that policy does not allow, although one read
\* of it failed (api/app.py _guard_source, guard.py store_key_for).
FailsClosed ==
  \A a \in Agent : done[a] = "sent" /\ conf.mediated => wasFine[a]

\* "Store row first (that is what PUT /guard writes and what the egress checker
\* resolves)": so a tool of a run that is not mediated obeys it too (guard.py:400).
PutGoverns ==
  \A a \in Agent : done[a] = "sent" /\ faults = 0 => wasFine[a]

\* "Recycle the sandbox to pick up the current policy" (egress.py:350): a service made
\* when a request begins speaks of the policy in force then.
MadeNow(a) == ~service[a].is /\ service'[a].is
RecycledIsCurrent ==
  \A a \in Agent : MadeNow(a) /\ faults' = 0 => service'[a].tag = InForce(a)

\* "an operator who deliberately cleared a gate must not have the legacy one
\* resurrected under them" (gates.py gate_policy).
ClearedStaysCleared == \A a \in Agent : opened[a] => GatePolicy(a) = None

\* _closed is "Deliberately NOT cached: the next request should retry the source rather
\* than stay latched off a transient read failure" (guard.py:308): no snapshot is kept
\* of a policy that could not be read.
NotLatchedOff ==
  \A a \in Agent : service[a].is /\ guard[Shared].policy # None => service[a].tag # None
=============================================================================
