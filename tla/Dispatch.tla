------------------------------ MODULE Dispatch ------------------------------
(***************************************************************************)
(* The mediated claimer: a process that never runs tenant code itself.  It *)
(* peeks at the queue, warms an interpreter (a template) per bundle, and   *)
(* asks it to fork one child per item; the child claims, runs and reports  *)
(* through the claimer's broker, which lets it touch only what the         *)
(* dispatch it belongs to has claimed.  Templates are processes of the     *)
(* claimer, or live in another container behind a template host.           *)
(*                                                                         *)
(*  conf     what does not change: the claimer is wide (tenant scope, any  *)
(*           group) or not (version scope, Home only), hosted or not; the  *)
(*           bundles of the broken groups cannot be imported, or lack tools*)
(*           they declare                                                  *)
(*  queue    the rows of the turns and of the resumes of paused turns      *)
(*  run      the status of each turn's run                                 *)
(*  clm      the claimer: its tick (groups left, item budget) and the      *)
(*           child and dispatch it waits for                               *)
(*  used     WarmPool._used, least recently used first                     *)
(*  conn     hosted: the claimer's socket per entry; "broken" is closed by *)
(*           the other side and not noticed yet                            *)
(*  up       the groups whose template process lives                       *)
(*  owned    BrokerServer._owned, per dispatch id                          *)
(*  child    the forked children, orphans of lost templates included       *)
(*                                                                         *)
(* Abstractions: a group is one bundle.  FairOrder is any order.  A claim  *)
(* takes an item of its group at once (its way past other items is in      *)
(* DurableQueue), resumes first.  A dispatch id is the count of a template *)
(* object, which starts at one with every new object and in every group:   *)
(* any number may come back while the orphan of a lost object, which never *)
(* forks again, still lives.  One approval per turn.                       *)
(***************************************************************************)
EXTENDS Naturals, Sequences, SequencesExt, FiniteSets

CONSTANTS Group,        \* (agent, version) groups
          Agent, AgentOf,   \* [Group -> Agent]
          Home,         \* the group of a version-scoped claimer
          Turn, GroupOf,    \* [Turn -> Group]
          Pausing,      \* turns whose handler asks for an approval
          Child,
          DispatchId,
          Tries,        \* maxAttempts of every item
          Limit,        \* items per tick
          MaxEntries,   \* bound of the pool
          MaxFaults     \* bound: deaths, and handlers that raise

ASSUME DispatchAssumption ==
  /\ AgentOf \in [Group -> Agent] /\ GroupOf \in [Turn -> Group]
  /\ Home \in Group
  /\ Pausing \subseteq Turn
  /\ Tries \in Nat \ {0} /\ Limit \in Nat \ {0} /\ MaxEntries \in Nat \ {0}
  /\ MaxFaults \in Nat

Item == ({"turn"} \X Turn) \cup ({"resume"} \X Pausing)
TurnItem(t) == <<"turn", t>>
TurnOf(i) == i[2]
GroupOfItem(i) == GroupOf[TurnOf(i)]

\* BrokerServer._worker_id: who holds a lease is the agent and the dispatch.
WorkerId == Agent \X DispatchId

Q == INSTANCE QueueJob WITH Job <- Item, Worker <- WorkerId, NoWorker <- <<>>,
                            MaxAttempts <- [i \in Item |-> Tries]

VARIABLES conf, queue, run, clm, used, conn, up, owned, child, faults
vars == <<conf, queue, run, clm, used, conn, up, owned, child, faults>>
rows == <<queue, run>>
pool == <<used, conn, up>>

Nothing == [jobs |-> {}, runs |-> {}]
NoOne == [pc |-> "none"]
Resting == [pc |-> "idle"]

Init ==
  /\ conf \in [wide : BOOLEAN, hosted : BOOLEAN, broken : SUBSET (Group \ {Home})]
  /\ queue = [i \in Item |-> Q!AbsentDoc]
  /\ run = [t \in Turn |-> "absent"]
  /\ clm = Resting
  /\ used = <<>> /\ conn = [g \in Group |-> "no"] /\ up = {}
  /\ owned = [n \in DispatchId |-> Nothing]
  /\ child = [c \in Child |-> NoOne]
  /\ faults = 0

Fault == faults < MaxFaults /\ faults' = faults + 1

Living == {c \in Child : child[c].pc # "none"}
Free == Child \ Living
NewChild == CHOOSE c \in Free : TRUE
-----------------------------------------------------------------------------
\* The api: a message starts a turn; a human grants the approval it waits for.
Enqueue(t) ==
  /\ run[t] = "absent"
  /\ run' = [run EXCEPT ![t] = "queued"]
  /\ queue' = [queue EXCEPT ![TurnItem(t)] = Q!Enqueued("due")]
  /\ UNCHANGED <<conf, clm, pool, owned, child, faults>>

Approve(t) ==
  /\ run[t] = "waiting" /\ queue[<<"resume", t>>].status = "absent"
  /\ run' = [run EXCEPT ![t] = "approving"]
  /\ queue' = [queue EXCEPT ![<<"resume", t>>] = Q!Enqueued("due")]
  /\ UNCHANGED <<conf, clm, pool, owned, child, faults>>
-----------------------------------------------------------------------------
\* peek: the groups with pending items, due or not.  A job that is running,
\* its lease over or not, is not counted.
Peek == {GroupOfItem(i) : i \in {k \in Item : queue[k].status = "pending"}}

\* Worker.drain_once, the start of ForkExecutor.drain and _drain_tenant.
Tick ==
  /\ clm.pc = "idle"
  /\ clm' = [pc |-> "tick", cand |-> IF conf.wide THEN Peek ELSE {Home}, left |-> Limit]
  /\ UNCHANGED <<conf, rows, pool, owned, child, faults>>

TickEnds ==
  /\ clm.pc = "tick" /\ (clm.left = 0 \/ clm.cand = {})
  /\ clm' = Resting
  /\ UNCHANGED <<conf, rows, pool, owned, child, faults>>

\* What a dispatch comes back with: an item was run, and the budget is one less,
\* or nothing was found or something failed, and the group is done for this tick.
After(outcome, g) ==
  IF outcome = "ran"
  THEN [pc |-> "tick", cand |-> clm.cand, left |-> clm.left - 1]
  ELSE [pc |-> "tick", cand |-> clm.cand \ {g}, left |-> clm.left]

\* WarmPool.acquire and its entries.  Alive is what the claimer believes.
Entries == ToSet(used)
Alive(g) == g \in Entries /\ IF conf.hosted THEN conn[g] # "no" ELSE g \in up
Position(g) == CHOOSE k \in 1 .. Len(used) : used[k] = g
Touched(g) == Append(IF g \in Entries THEN RemoveAt(used, Position(g)) ELSE used, g)
Evicted(seq) == IF Len(seq) > MaxEntries THEN {Head(seq)} ELSE {}
Kept(seq) == IF Len(seq) > MaxEntries THEN Tail(seq) ELSE seq

\* Slip: the victim is forgotten and not stopped.
StopNobody(gs) == {}
Stopped(gs) == gs

\* What a template host holds for a claimer that is no more: its own pool, of
\* the same bound, lets go of those first.
Leftover(g) == IF conf.hosted /\ Cardinality(up \cup {g}) > MaxEntries
               THEN up \ (Entries \cup {g}) ELSE {}

\* An interpreter is started (or found, in the host), and what the pool has evicted
\* for it is stopped and disconnected.
Started(g, evicted) ==
  /\ up' = (up \cup {g}) \ (Stopped(evicted) \cup Leftover(g))
  /\ conn' = [h \in Group |-> IF h \in evicted THEN "no"
                              ELSE IF h = g /\ conf.hosted THEN "open" ELSE conn[h]]

Acquire(g) ==
  /\ used' = Kept(Touched(g))
  /\ IF Alive(g) THEN UNCHANGED <<conn, up>> ELSE Started(g, Evicted(Touched(g)))

\* BrokerServer.release: the authority of dispatch n is forgotten, and what its
\* child has claimed is out of the child's reach (cut).
CutOff(n, kids) ==
  [c \in Child |-> IF kids[c].pc \notin {"none", "start"} /\ kids[c].id = n
                   THEN [kids[c] EXCEPT !.cut = TRUE] ELSE kids[c]]
Released(n, kids) == owned' = [owned EXCEPT ![n] = Nothing] /\ child' = CutOff(n, kids)

\* The dispatch the claimer waits for is over.
\* Slip: only an answer releases it; a dispatch that ends in an error keeps its
\* authority.
ComesBackKept(outcome, kids) ==
  /\ clm' = After(outcome, clm.g)
  /\ IF outcome = "error" THEN child' = CutOff(clm.id, kids) /\ UNCHANGED owned
     ELSE Released(clm.id, kids)
ComesBack(outcome, kids) ==
  /\ clm' = After(outcome, clm.g)
  /\ Released(clm.id, kids)

\* A broken bundle fails as it is imported, and gets no entry.
StartFails(g) ==
  /\ clm.pc = "tick" /\ clm.left > 0 /\ g \in clm.cand \cap conf.broken /\ ~Alive(g)
  /\ clm' = After("error", g)
  /\ UNCHANGED <<conf, rows, pool, owned, child, faults>>

\* Or it is imported and template_for finds it incomplete: the template is warm,
\* nothing is claimed.
Refuse(g) ==
  /\ clm.pc = "tick" /\ clm.left > 0 /\ g \in clm.cand \cap conf.broken /\ conf.wide
  /\ Acquire(g)
  /\ clm' = After("error", g)
  /\ UNCHANGED <<conf, rows, owned, child, faults>>

\* Slip: the tools a bundle lacks are not looked at.
DispatchableBlindly(g) == clm.pc = "tick" /\ clm.left > 0 /\ g \in clm.cand

\* WarmTemplate.drain, HostedTemplate.drain: a number is taken, a capability
\* minted, a child forked, and the claimer waits for it.
Dispatchable(g) ==
  /\ clm.pc = "tick" /\ clm.left > 0 /\ g \in clm.cand
  /\ ~(conf.wide /\ g \in conf.broken)

Reachable(g) == conf.hosted /\ Alive(g) => conn[g] = "open" /\ g \in up

DispatchTo(g, n) ==
  /\ Dispatchable(g) /\ Reachable(g) /\ Free # {}
  /\ Acquire(g)
  /\ child' = [child EXCEPT ![NewChild] = [pc |-> "start", g |-> g, id |-> n, cut |-> FALSE]]
  /\ clm' = [pc |-> "wait", cand |-> clm.cand, left |-> clm.left, g |-> g, id |-> n,
             child |-> NewChild]
  /\ UNCHANGED <<conf, rows, owned, faults>>

\* The hosted template the claimer believes in is not there: E_TEMPLATE_NOT_RUNNING
\* leaves the socket and the belief as they are, E_HOST_UNAVAILABLE ends both.
Unreachable(g, n) ==
  /\ Dispatchable(g) /\ ~Reachable(g)
  /\ used' = Touched(g)
  /\ conn' = [conn EXCEPT ![g] = IF @ = "broken" THEN "no" ELSE @]
  /\ clm' = After("error", g)
  /\ Released(n, child)
  /\ UNCHANGED <<conf, rows, up, faults>>
-----------------------------------------------------------------------------
Waits(c) == clm.pc = "wait" /\ clm.child = c

\* The child has exited and its template answers the claimer, if it still waits.
Exits(c, outcome) ==
  LET kids == [child EXCEPT ![c] = NoOne]
  IN  IF Waits(c) THEN ComesBack(outcome, kids)
      ELSE child' = kids /\ UNCHANGED <<clm, owned>>

Authority(c) == owned[child[c].id]
OwnJob(c, i) == i \in Authority(c).jobs
OwnRun(c) == TurnOf(child[c].item) \in Authority(c).runs
Holder(c) == <<AgentOf[child[c].g], child[c].id>>

\* The claim of execute_resumes, then of execute_pending, through _queue_claim:
\* expired leases are reaped first, whatever group they belong to.
\* Slip: they are not.
ReapedNever == queue
Reaped == [i \in Item |-> IF ~Q!ExpiredLease(queue[i]) THEN queue[i]
                          ELSE IF Q!Exhausted(i, queue[i]) THEN Q!DeadLettered(queue[i])
                          ELSE Q!Requeued(queue[i])]
Claimable(g, kind) ==
  {i \in Item : /\ i[1] = kind /\ GroupOfItem(i) = g
                /\ Reaped[i].status = "pending" /\ Reaped[i].runAt = "due"}

\* _own: the claim entitles the dispatch to the item and to the run behind it.
\* Slip: the turn of a resumed run is recorded as well.
OwnWithTurn(o, i) == [jobs |-> o.jobs \cup {i, TurnItem(TurnOf(i))}, runs |-> o.runs \cup {TurnOf(i)}]
Own(o, i) == [jobs |-> o.jobs \cup {i}, runs |-> o.runs \cup {TurnOf(i)}]

\* What a child claims is within the reach of every child of the same number.
Shared(n) == [c \in Child |-> IF c \in Living /\ child[c].id = n THEN [child[c] EXCEPT !.cut = FALSE]
                              ELSE child[c]]

ChildClaims(c, i) ==
  /\ child[c].pc = "start"
  /\ \/ i \in Claimable(child[c].g, "resume")
     \/ i \in Claimable(child[c].g, "turn") /\ Claimable(child[c].g, "resume") = {}
  /\ queue' = [Reaped EXCEPT ![i] = Q!Claimed(@, Holder(c))]
  /\ owned' = [owned EXCEPT ![child[c].id] = Own(@, i)]
  /\ child' = [Shared(child[c].id) EXCEPT ![c] = [pc |-> "work", g |-> child[c].g,
                                    id |-> child[c].id, cut |-> FALSE, item |-> i]]
  /\ UNCHANGED <<conf, run, clm, pool, faults>>

ChildFindsNothing(c) ==
  /\ child[c].pc = "start"
  /\ \A kind \in {"resume", "turn"} : Claimable(child[c].g, kind) = {}
  /\ queue' = Reaped
  /\ Exits(c, "nothing")
  /\ UNCHANGED <<conf, run, pool, faults>>

\* The run is carried out.  Every write of it passes _rescope: the run must be
\* the dispatch's own, and so must the turn its stream belongs to.
MayWork(c) == OwnRun(c) /\ OwnJob(c, TurnItem(TurnOf(child[c].item)))

HandlerReturns(c) ==
  /\ child[c].pc = "work" /\ MayWork(c)
  /\ LET i == child[c].item
     IN  run' = [run EXCEPT ![TurnOf(i)] = IF i \in {TurnItem(t) : t \in Pausing} THEN "waiting"
                                           ELSE "completed"]
  /\ child' = [child EXCEPT ![c].pc = "done"]
  /\ UNCHANGED <<conf, queue, clm, pool, owned, faults>>

HandlerRaises(c) ==
  /\ child[c].pc = "work" /\ MayWork(c)
  /\ run' = [run EXCEPT ![TurnOf(child[c].item)] = "failed"]
  /\ child' = [child EXCEPT ![c].pc = "bad"]
  /\ Fault
  /\ UNCHANGED <<conf, queue, clm, pool, owned>>

\* E_BROKER_SCOPE_DENIED: a resume is failed as an item; a turn cannot even write
\* the error frame, and the error leaves the child.
HandlerRefused(c) ==
  /\ child[c].pc = "work" /\ ~MayWork(c)
  /\ IF child[c].item[1] = "resume"
     THEN child' = [child EXCEPT ![c].pc = "bad"] /\ UNCHANGED <<clm, owned>>
     ELSE Exits(c, "error")
  /\ UNCHANGED <<conf, rows, pool, faults>>

\* _queue_transition: the item must be the dispatch's own and its lease must name
\* it.  A refused report leaves the child as an error.
Report(c) ==
  /\ child[c].pc \in {"done", "bad"}
  /\ LET i == child[c].item
     IN  IF OwnJob(c, i) /\ Q!HeldBy(queue[i], Holder(c))
         THEN /\ queue' = [queue EXCEPT ![i] = IF child[c].pc = "done" THEN Q!Completed(@)
                                              ELSE Q!Failed(i, @)]
              /\ Exits(c, "ran")
         ELSE /\ UNCHANGED queue
              /\ Exits(c, "error")
  /\ UNCHANGED <<conf, run, pool, faults>>

\* The capability of an orphan runs out, and with it all it can do.
CapabilityExpires(c) ==
  /\ c \in Living /\ ~Waits(c)
  /\ child' = [child EXCEPT ![c] = NoOne]
  /\ UNCHANGED <<conf, rows, clm, pool, owned, faults>>
-----------------------------------------------------------------------------
ChildDies(c) ==
  /\ Waits(c)
  /\ Exits(c, "error")
  /\ Fault
  /\ UNCHANGED <<conf, rows, pool>>

\* A template dies; the child it forked goes on as an orphan.
TemplateDies(g) ==
  /\ g \in up
  /\ up' = up \ {g}
  /\ IF clm.pc = "wait" /\ clm.g = g THEN ComesBack("error", child)
     ELSE UNCHANGED <<clm, owned, child>>
  /\ Fault
  /\ UNCHANGED <<conf, rows, used, conn>>

\* The container of the host dies with all that is in it, and comes back empty.
\* Only the call that waits for it notices.
HostDies ==
  /\ conf.hosted
  /\ up' = {}
  /\ conn' = [g \in Group |-> IF conn[g] = "no" \/ (clm.pc = "wait" /\ clm.g = g) THEN "no"
                              ELSE "broken"]
  /\ IF clm.pc = "wait" THEN ComesBack("error", [c \in Child |-> NoOne])
     ELSE child' = [c \in Child |-> NoOne] /\ UNCHANGED <<clm, owned>>
  /\ Fault
  /\ UNCHANGED <<conf, rows, used>>

\* The claimer dies, its broker and its own templates with it, and another takes
\* its place.  No child of the old one can reach the new broker.
ClaimerDies ==
  /\ clm' = Resting
  /\ used' = <<>> /\ conn' = [g \in Group |-> "no"]
  /\ up' = IF conf.hosted THEN up ELSE {}
  /\ owned' = [n \in DispatchId |-> Nothing]
  /\ child' = [c \in Child |-> NoOne]
  /\ Fault
  /\ UNCHANGED <<conf, rows>>

LeaseExpires(i) ==
  /\ queue[i].lease = "live"
  /\ queue' = [queue EXCEPT ![i].lease = "expired"]
  /\ UNCHANGED <<conf, run, clm, pool, owned, child, faults>>

BecomesDue(i) ==
  /\ queue[i].status = "pending" /\ queue[i].runAt = "later"
  /\ queue' = [queue EXCEPT ![i].runAt = "due"]
  /\ UNCHANGED <<conf, run, clm, pool, owned, child, faults>>
-----------------------------------------------------------------------------
Serve == \E g \in Group : \/ StartFails(g) \/ Refuse(g)
                          \/ \E n \in DispatchId : DispatchTo(g, n) \/ Unreachable(g, n)
ChildStep(c) ==
  \/ \E i \in Item : ChildClaims(c, i)
  \/ ChildFindsNothing(c) \/ HandlerReturns(c) \/ HandlerRefused(c) \/ Report(c)
Fail == \/ \E c \in Child : HandlerRaises(c) \/ ChildDies(c)
        \/ \E g \in Group : TemplateDies(g)
        \/ HostDies \/ ClaimerDies

Next ==
  \/ \E t \in Turn : Enqueue(t)
  \/ \E t \in Pausing : Approve(t)
  \/ Tick \/ TickEnds \/ Serve
  \/ \E c \in Child : ChildStep(c) \/ CapabilityExpires(c)
  \/ Fail
  \/ \E i \in Item : LeaseExpires(i) \/ BecomesDue(i)

Spec == Init /\ [][Next]_vars

\* The claimer polls for ever, children run to their end, clocks advance.
Fairness ==
  /\ WF_vars(Tick \/ TickEnds \/ Serve)
  /\ \A c \in Child : WF_vars(ChildStep(c) \/ CapabilityExpires(c))
  /\ \A i \in Item : WF_vars(LeaseExpires(i) \/ BecomesDue(i))

FairSpec == Spec /\ Fairness
-----------------------------------------------------------------------------
\* A hosted template that died while the claimer's socket stayed open: the claimer
\* counts it as alive and never starts it again (see "Disagreements" in README.md).
Stuck(g) == conf.hosted /\ conn[g] = "open" /\ g \notin up
Served(g) == g \notin conf.broken /\ (conf.wide \/ g = Home)

\* The pool is bounded in interpreters, not only in entries: every template process
\* of the claimer is one of its entries, and a host keeps no more than that
\* (pool.py, WarmPool).
PoolIsBounded ==
  /\ Len(used) <= MaxEntries /\ Cardinality(up) <= MaxEntries
  /\ ~conf.hosted => up \subseteq Entries

\* "Nothing is claimed for this agent until it can be served" (worker.py,
\* template_for): no attempt of an incomplete bundle's items is spent.
BrokenClaimNothing == \A i \in Item : GroupOfItem(i) \in conf.broken => queue[i].attempts = 0

\* "The dispatch is over, so the authority it accumulated is too" (pool.py,
\* WarmTemplate.drain): whatever its child has claimed, it changes neither rows nor
\* runs after the release, until something is claimed under the same number again.
ReleaseFences ==
  [][\A c \in Child : (c \in Living /\ child[c].cut /\ child'[c].pc # child[c].pc) =>
         UNCHANGED rows]_vars

\* What a claimer owes its groups it gives in the end, unless the template is lost
\* behind a socket: at tenant scope what is pending and due does not stay so, however
\* its siblings fail; at version scope, where every tick forks and so reaps, every
\* item settles ("the item's queue lease expires and the ordinary reclaim path
\* re-runs it, so no work is lost", pool.py).
Open(i) == queue[i].status \in {"pending", "running"}
Waiting(i) == queue[i].status = "pending" /\ queue[i].runAt = "due"
Owed(i) == Served(GroupOfItem(i)) /\ IF conf.wide THEN Waiting(i) ELSE Open(i)
OwedIsServed == \A i \in Item : Owed(i) ~> (~Owed(i) \/ Stuck(GroupOfItem(i)))

\* At tenant scope, too, every item settles.
\* It does not hold: see "Disagreements" in README.md.
NoWorkIsLost ==
  \A i \in Item : (Open(i) /\ Served(GroupOfItem(i))) ~> (~Open(i) \/ Stuck(GroupOfItem(i)))

\* A resume is retried "rather than stranding a run in waiting_approval with an
\* already-approved approval" (turns.py, execute_resumes).
\* It does not hold: see "Disagreements" in README.md.
ApprovedRunResumes ==
  \A t \in Pausing : run[t] = "approving" ~> run[t] = "completed"

\* "A fork cannot complete an item it does not hold" (server.py, _queue_transition):
\* an item is settled by the child that claimed it last.
\* It does not hold: see "Disagreements" in README.md.
OnlyTheGrantReports ==
  [][\A c \in Child : (/\ c \in Living /\ child[c].pc \in {"done", "bad"}
                       /\ queue'[child[c].item] # queue[child[c].item] /\ child'[c] = NoOne)
        => ~\E d \in Living \ {c} : child[d].pc # "start" /\ child[d].item = child[c].item]_vars
=============================================================================
