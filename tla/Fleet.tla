------------------------------- MODULE Fleet -------------------------------
(***************************************************************************)
(* The fleet of one workspace: the supervisors that observe, plan and apply *)
(* (execution/supervisor.py), the execution driver that launches worker    *)
(* processes and lists them (execution/drivers.py), and the life of a      *)
(* worker from its launch to its exit (worker.py), over the worker         *)
(* registry and the named lease of the store (store_postgres.py).          *)
(*                                                                         *)
(* Work is a depth per group, one group per (agent, version); what an item *)
(* of work does is the subject of AgentRuns and DurableQueue.  A group is  *)
(* a key of its own at the version scope; at the tenant scope (Wide) the   *)
(* workspace is one key.  A supervisor plans on what it observed and takes *)
(* the lease afterwards; registry and inventory lag behind the processes.  *)
(*                                                                         *)
(*   lease     the named lease row            depth[g]  pending items      *)
(*   sup[s]    a supervisor, with its plan    started   launches it counts *)
(*   proc[w]   a worker process               row[w]    its registration   *)
(* and three bookkeeping variables:                                        *)
(*   arrived   items enqueued so far, at most MaxWork                      *)
(*   faults    things that went wrong, at most MaxFaults                   *)
(*   excused   a plan was applied without a valid, current view: the lease *)
(*             was lost or unreadable while a plan was applied, the        *)
(*             inventory was, or another supervisor launched in between    *)
(***************************************************************************)
EXTENDS Integers, FiniteSets

CONSTANTS Sup, NoSup,        \* supervisors
          Worker,            \* worker processes, reused once they are gone
          Group,             \* the groups of work, numbers in scheduling order
          Wide,              \* the claimer scope is the tenant
          Substrate,         \* the driver asks docker or kubernetes, not itself
          Unattributed,      \* groups whose items name no agent
          Retired,           \* groups whose version is retired
          Prewarm,           \* groups that keep one warm worker
          MaxReplicas, Backlog, MaxWorkers,  \* the policy and the quota
          MaxWork, MaxFaults                 \* bounds

ASSUME FleetAssumption ==
  /\ Group \subseteq Nat \ {0} /\ IsFiniteSet(Group) /\ IsFiniteSet(Worker) /\ NoSup \notin Sup
  /\ MaxReplicas \in Nat \ {0} /\ Backlog \in Nat \ {0} /\ MaxWorkers \in Nat
  /\ MaxWork \in Nat /\ MaxFaults \in Nat /\ Wide \in BOOLEAN /\ Substrate \in BOOLEAN

VARIABLES lease, sup, started, proc, row, depth, arrived, faults, excused

fleetVars == <<lease, sup, started, proc, row, depth, arrived, faults, excused>>
-----------------------------------------------------------------------------
Tenant == 0
Key == IF Wide THEN {Tenant} ELSE Group
NoKey == -1          \* a key nobody plans for

Least(a, b) == IF a <= b THEN a ELSE b
Most(a, b) == IF a >= b THEN a ELSE b

\* n[k] places for every k, and the sum of all n[k].
Places(n) == UNION {{k} \X (1 .. n[k]) : k \in DOMAIN n}
Total(n) == Cardinality(Places(n))

NoStarts == [k \in Key |-> 0]
Down == [pc |-> "down", reap |-> {}, start |-> NoStarts, current |-> FALSE]
Gone == [st |-> "none", key |-> NoKey, by |-> NoSup, saw |-> "absent"]
Unregistered == [status |-> "absent", fresh |-> FALSE]

Running(w) == proc[w].st # "none"
Alive(w) == row[w].status = "alive" /\ row[w].fresh
Lost(w) == row[w].status = "alive" /\ ~row[w].fresh

\* The groups a worker of this key claims from.
Served(k) == IF k = Tenant THEN Group \ Unattributed ELSE {k} \cap Group

\* What the driver lists under key k for supervisor s.  A container driver
\* rebuilds the spec from labels and leaves its scope out, so a tenant claimer
\* comes back under a key that nobody plans for.
Label(w) == IF Substrate /\ proc[w].key = Tenant THEN NoKey ELSE proc[w].key
Inventory(s) ==
  [k \in Key \cup {NoKey} |->
     Cardinality({w \in Worker : /\ Running(w) /\ Label(w) = k
                                 /\ Substrate \/ proc[w].by = s})]
Registered(k) == Cardinality({w \in Worker : Alive(w) /\ proc[w].key = k})

\* Slip: the registry alone is asked.
LiveRegistered(k, launched) == Registered(k)

\* A key counts as served as often as either view says.
LiveCount(k, launched) == Most(Registered(k), launched[k])

Budget(launched) ==
  Most(0, MaxWorkers - Total([k \in Key \cup {NoKey} |-> LiveCount(k, launched)]))

\* The depth a key is planned for; unattributed work names no key of its own.
DepthOf(k) == IF k = Tenant THEN Total(depth)
              ELSE IF k \in Unattributed THEN 0 ELSE depth[k]

\* Slip: the backlog is divided without rounding up.
WantFloor(k) == Least(MaxReplicas, DepthOf(k) \div Backlog)

Want(k) ==
  IF DepthOf(k) > 0
  THEN Least(MaxReplicas, Most(1, (DepthOf(k) + Backlog - 1) \div Backlog))
  ELSE IF (k = Tenant /\ Prewarm # {}) \/ k \in Prewarm THEN 1 ELSE 0

\* A key whose version is retired is not started; a tenant claimer names none.
Startable(k) == k \notin Retired

Need(k, launched) ==
  IF Startable(k) THEN Most(0, Want(k) - LiveCount(k, launched)) ELSE 0

\* plan: keys in order, as long as the budget lasts.
Starts(launched) ==
  [k \in Key |->
     LET earlier == [j \in {j \in Key : j < k} |-> Need(j, launched)]
     IN Least(Need(k, launched), Most(0, Budget(launched) - Total(earlier)))]

Fault == faults < MaxFaults /\ faults' = faults + 1
Moves(s, pc) == sup' = [sup EXCEPT ![s].pc = pc]
-----------------------------------------------------------------------------
FleetInit ==
  /\ lease = [holder |-> NoSup, live |-> FALSE]
  /\ sup = [s \in Sup |-> Down]
  /\ started = [s \in Sup |-> NoStarts]
  /\ proc = [w \in Worker |-> Gone]
  /\ row = [w \in Worker |-> Unregistered]
  /\ depth = [g \in Group |-> 0]
  /\ arrived = 0 /\ faults = 0 /\ excused = FALSE

WorkArrives(g) ==
  /\ arrived < MaxWork
  /\ depth' = [depth EXCEPT ![g] = @ + 1]
  /\ arrived' = arrived + 1
  /\ UNCHANGED <<lease, sup, started, proc, row, faults, excused>>

(* A supervisor. *)

Boots(s) ==
  /\ sup[s].pc = "down"
  /\ sup' = [sup EXCEPT ![s] = [Down EXCEPT !.pc = "idle"]]
  /\ started' = [started EXCEPT ![s] = NoStarts]
  /\ UNCHANGED <<lease, proc, row, depth, arrived, faults, excused>>

\* tick: observe the registry, the inventory and the queue, and plan.
Plans(s, launched) ==
  /\ sup[s].pc = "idle"
  /\ sup' = [sup EXCEPT ![s] = [pc |-> "planned", reap |-> {w \in Worker : Lost(w)},
                                start |-> Starts(launched), current |-> TRUE]]
  /\ UNCHANGED <<lease, started, proc, row, depth, arrived>>

Observe(s) == Plans(s, Inventory(s)) /\ UNCHANGED <<faults, excused>>

\* The driver cannot answer, and the supervisor goes by what it remembers having
\* started, ended or not; a docker CLI that exits with an error lists nothing.
Remembered(s) == [k \in Key \cup {NoKey} |-> IF k = NoKey THEN 0 ELSE started[s][k]]
ObserveBlind(s) ==
  /\ Fault /\ excused' = TRUE
  /\ \/ Plans(s, Remembered(s))
     \/ Substrate /\ Plans(s, [k \in Key \cup {NoKey} |-> 0])

\* Slip: whoever asks gets the lease.
AlwaysAcquirable(s) == TRUE

Acquirable(s) == lease.holder \in {s, NoSup} \/ ~lease.live

\* hold_lease: taken or renewed after the plan is made.
HoldLease(s) ==
  /\ sup[s].pc = "planned" /\ Acquirable(s)
  /\ lease' = [holder |-> s, live |-> TRUE]
  /\ Moves(s, "applying")
  /\ excused' = (excused \/ ~sup[s].current)
  /\ UNCHANGED <<started, proc, row, depth, arrived, faults>>

\* ... or somebody else has it, and the plan is withheld.
Withhold(s) ==
  /\ sup[s].pc = "planned" /\ ~Acquirable(s)
  /\ sup' = [sup EXCEPT ![s] = [Down EXCEPT !.pc = "idle"]]
  /\ UNCHANGED <<lease, started, proc, row, depth, arrived, faults, excused>>

\* The lease cannot be read: the supervisor acts anyway.
LeaseErrors(s) ==
  /\ sup[s].pc = "planned" /\ Fault
  /\ Moves(s, "applying") /\ excused' = TRUE
  /\ UNCHANGED <<lease, started, proc, row, depth, arrived>>

\* apply: reaps first, whether the worker has been heard of again or not ...
Deregistered(w) == [row EXCEPT ![w] = IF @.status = "absent" THEN @
                                      ELSE [status |-> "stopped", fresh |-> FALSE]]
Reap(s, w) ==
  /\ sup[s].pc = "applying" /\ w \in sup[s].reap
  /\ row' = Deregistered(w)
  /\ sup' = [sup EXCEPT ![s].reap = @ \ {w}]
  /\ UNCHANGED <<lease, started, proc, depth, arrived, faults, excused>>

\* ... then the starts, key by key.
NextStart(s, k) ==
  /\ sup[s].pc = "applying" /\ sup[s].reap = {}
  /\ sup[s].start[k] > 0 /\ \A j \in Key : j < k => sup[s].start[j] = 0

Free(w) == ~Running(w) /\ row[w].status # "alive"

Start(s, k, w) ==
  /\ NextStart(s, k) /\ Free(w)
  /\ proc' = [proc EXCEPT ![w] = [Gone EXCEPT !.st = "booting", !.key = k,
                                              !.by = IF Substrate THEN NoSup ELSE s]]
  /\ row' = [row EXCEPT ![w] = Unregistered]
  /\ started' = [started EXCEPT ![s][k] = Least(MaxReplicas, @ + 1)]
  /\ sup' = [t \in Sup |-> IF t = s THEN [sup[s] EXCEPT !.start[k] = @ - 1]
                           ELSE [sup[t] EXCEPT !.current = FALSE]]
  /\ UNCHANGED <<lease, depth, arrived, faults, excused>>

\* An action that fails does not abort the others.
StartFails(s, k) ==
  /\ NextStart(s, k)
  /\ IF \E w \in Worker : Free(w) THEN Fault ELSE UNCHANGED faults
  /\ sup' = [sup EXCEPT ![s].start[k] = @ - 1]
  /\ UNCHANGED <<lease, started, proc, row, depth, arrived, excused>>

EndTick(s) ==
  /\ sup[s].pc = "applying" /\ sup[s].reap = {} /\ sup[s].start = NoStarts
  /\ sup' = [sup EXCEPT ![s] = [Down EXCEPT !.pc = "idle"]]
  /\ UNCHANGED <<lease, started, proc, row, depth, arrived, faults, excused>>

\* The children of a local supervisor outlive it, and nobody lists them any more.
Orphans(s) == [w \in Worker |-> IF proc[w].by = s THEN [proc[w] EXCEPT !.by = NoSup]
                                ELSE proc[w]]
\* run returns, and hands its lease back ...
Stops(s) ==
  /\ sup[s].pc = "idle" /\ Fault
  /\ lease' = IF lease.holder = s THEN [holder |-> NoSup, live |-> FALSE] ELSE lease
  /\ sup' = [sup EXCEPT ![s] = Down] /\ proc' = Orphans(s)
  /\ UNCHANGED <<started, row, depth, arrived, excused>>

\* ... or dies with it.
SupDies(s) ==
  /\ sup[s].pc # "down" /\ Fault
  /\ sup' = [sup EXCEPT ![s] = Down] /\ proc' = Orphans(s)
  /\ UNCHANGED <<lease, started, row, depth, arrived, excused>>

\* Ticks renew the lease well before it expires, unless one takes too long.
LeaseExpires ==
  /\ lease.live
  /\ lease' = [lease EXCEPT !.live = FALSE]
  /\ UNCHANGED <<sup, started, proc, row, depth, arrived>>
LeaseRunsOut == /\ lease.holder \in Sup /\ sup[lease.holder].pc = "down"
                /\ LeaseExpires /\ UNCHANGED <<faults, excused>>
LeaseOverrun == /\ lease.holder \in Sup /\ sup[lease.holder].pc = "applying"
                /\ LeaseExpires /\ Fault /\ excused' = TRUE

(* A worker process. *)

At(w, st) == proc[w].st = st
Turns(w, st) == proc' = [proc EXCEPT ![w].st = st]

\* register: the quota is asked once the bundle is loaded ...
AliveCount == Cardinality({w \in Worker : Alive(w)})
Admit(w) ==
  /\ At(w, "booting") /\ AliveCount < MaxWorkers
  /\ Turns(w, "admitted")
  /\ UNCHANGED <<lease, sup, started, row, depth, arrived, faults, excused>>
RefuseWorker(w) ==
  /\ At(w, "booting") /\ AliveCount >= MaxWorkers
  /\ proc' = [proc EXCEPT ![w] = Gone]
  /\ UNCHANGED <<lease, sup, started, row, depth, arrived, faults, excused>>

\* ... and the row is written later.
Register(w) ==
  /\ At(w, "admitted")
  /\ row' = [row EXCEPT ![w] = [status |-> "alive", fresh |-> TRUE]]
  /\ Turns(w, "up")
  /\ UNCHANGED <<lease, sup, started, depth, arrived, faults, excused>>

\* drain_once: an item of a group this worker serves, or nothing.
HasWork(w) == \E g \in Served(proc[w].key) : depth[g] > 0
Drain(w, g) ==
  /\ At(w, "up") /\ g \in Served(proc[w].key) /\ depth[g] > 0
  /\ depth' = [depth EXCEPT ![g] = @ - 1]
  /\ Turns(w, "drained")
  /\ UNCHANGED <<lease, sup, started, row, arrived, faults, excused>>
DrainNothing(w) ==
  /\ At(w, "up") /\ ~HasWork(w)
  /\ Turns(w, "drained")
  /\ UNCHANGED <<lease, sup, started, row, depth, arrived, faults, excused>>

\* heartbeat: the row is read, and written back with the status it had.
ReadRow(w) ==
  /\ At(w, "drained")
  /\ proc' = [proc EXCEPT ![w].st = "beating", ![w].saw = row[w].status]
  /\ UNCHANGED <<lease, sup, started, row, depth, arrived, faults, excused>>
WriteRow(w) ==
  /\ At(w, "beating")
  /\ row' = [row EXCEPT ![w] = [status |-> proc[w].saw, fresh |-> proc[w].saw = "alive"]]
  /\ proc' = [proc EXCEPT ![w].st = "up", ![w].saw = "absent"]
  /\ UNCHANGED <<lease, sup, started, depth, arrived, faults, excused>>

\* The idle window ends: no depth this worker could claim ...
GoesIdle(w) ==
  /\ At(w, "up") /\ ~HasWork(w)
  /\ Turns(w, "leaving")
  /\ UNCHANGED <<lease, sup, started, row, depth, arrived, faults, excused>>
\* ... and it deregisters and exits.
Leaves(w) ==
  /\ At(w, "leaving")
  /\ row' = Deregistered(w)
  /\ proc' = [proc EXCEPT ![w] = Gone]
  /\ UNCHANGED <<lease, sup, started, depth, arrived, faults, excused>>

WorkerDies(w) ==
  /\ Running(w) /\ Fault
  /\ proc' = [proc EXCEPT ![w].st = "none", ![w].saw = "absent", ![w].by = NoSup]
  /\ UNCHANGED <<lease, sup, started, row, depth, arrived, excused>>

\* WORKER_LOST_SECONDS without a heartbeat: dead, or busy with a long item.
FallsSilent(w) ==
  /\ Alive(w)
  /\ row' = [row EXCEPT ![w].fresh = FALSE]
  /\ UNCHANGED <<lease, sup, started, proc, depth, arrived, excused>>
DeadFallsSilent(w) == ~Running(w) /\ FallsSilent(w) /\ UNCHANGED faults
BusyFallsSilent(w) == At(w, "drained") /\ FallsSilent(w) /\ Fault
-----------------------------------------------------------------------------
Apply(s) ==
  \/ \E w \in Worker : Reap(s, w)
  \/ \E k \in Key : StartFails(s, k) \/ \E w \in Worker : Start(s, k, w)
  \/ EndTick(s)
Applies(s) ==
  \/ \E w \in Worker : Reap(s, w)
  \/ \E k \in Key, w \in Worker : Start(s, k, w)
  \/ EndTick(s)
Tick(s) == Observe(s) \/ HoldLease(s) \/ Withhold(s) \/ Applies(s)

Live(w) ==
  \/ Admit(w) \/ RefuseWorker(w) \/ Register(w) \/ DrainNothing(w) \/ ReadRow(w) \/ WriteRow(w)
  \/ Leaves(w) \/ \E g \in Group : Drain(w, g)

FleetNext ==
  \/ \E g \in Group : WorkArrives(g)
  \/ \E s \in Sup : \/ Boots(s) \/ Observe(s) \/ ObserveBlind(s) \/ HoldLease(s) \/ Withhold(s)
                    \/ LeaseErrors(s) \/ Apply(s) \/ Stops(s) \/ SupDies(s)
  \/ LeaseRunsOut \/ LeaseOverrun
  \/ \E w \in Worker : Live(w) \/ GoesIdle(w) \/ WorkerDies(w)
                       \/ DeadFallsSilent(w) \/ BusyFallsSilent(w)

FleetSpec == FleetInit /\ [][FleetNext]_fleetVars

\* Supervisors are restarted and go on ticking, worker processes run, an idle
\* window that keeps coming ends, and time passes for the dead.
FairSpec ==
  /\ FleetSpec
  /\ \A s \in Sup : WF_fleetVars(Boots(s)) /\ WF_fleetVars(Tick(s))
                    /\ \A k \in Key : WF_fleetVars(StartFails(s, k))
  /\ WF_fleetVars(LeaseRunsOut)
  /\ \A w \in Worker : /\ WF_fleetVars(Live(w)) /\ SF_fleetVars(GoesIdle(w))
                       /\ WF_fleetVars(DeadFallsSilent(w))
-----------------------------------------------------------------------------
\* A key never has more workers than the policy wants replicas, booting, silent and
\* reaped ones included, unless a plan was applied without a valid, current view
\* (supervisor.py observe, "a stampede does not" exit on its own; hold_lease, the
\* fleet that doubles).
NoStampede ==
  ~excused => \A k \in Key :
    Cardinality({w \in Worker : Running(w) /\ proc[w].key = k}) <= MaxReplicas

\* Nor does the fleet outgrow the workspace's maxWorkers (supervisor.py
\* _worker_budget, enforced at schedule time).
FleetWithinQuota ==
  ~excused => Cardinality({w \in Worker : Running(w)}) <= MaxWorkers

\* Work that some worker may claim is served in the end, whichever supervisor,
\* worker or launch fails (supervisor.py observe, plan, apply; worker.py run).
Servable(g) == g \notin Unattributed /\ (Wide \/ g \notin Retired)
WorkIsServed == \A g \in Group : Servable(g) => (depth[g] > 0 ~> depth[g] = 0)
=============================================================================
