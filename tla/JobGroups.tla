----------------------------- MODULE JobGroups -----------------------------
(***************************************************************************)
(* The jobs an agent schedules in the background and their groups:         *)
(* context.py _Jobs.schedule_group, engine.py run_job, work_once and       *)
(* retry_job, and the rows of rya_jobs and rya_job_groups in               *)
(* store_postgres.py.  All jobs here are members of a group.               *)
(*                                                                         *)
(* Workers claim, run, save and count in steps of their own; a claim has   *)
(* no lease, so a worker that dies keeps its job.                          *)
(*                                                                         *)
(*   job[j]     the row: status and attempts                               *)
(*   grp[g]     the row: members still to succeed, failed, fired           *)
(*   made[g]    jobs created to carry on when the group is complete        *)
(*   wk[w]      a thread of work_once: the job it is at and its copy of it *)
(*   par[g]     the run that schedules the group: "none", "making",        *)
(*              "ended"                                                    *)
(*   op[p]      an operator that retries a dead job, or runs one by hand   *)
(* and bookkeeping: won, the jobs whose handler has completed; faults, the *)
(* deaths, refusals and lost exceptions so far, at most MaxFaults; byHand, *)
(* the jobs an operator has run; commands of operators so far, at most     *)
(* MaxCommands.                                                            *)
(***************************************************************************)
EXTENDS Integers, FiniteSets

CONSTANTS Job, Group, Worker, Operator, NoJob,
          GroupOf,                         \* the group of every job
          MaxAttempts,                     \* maxAttempts of every job
          MaxFaults, MaxCommands           \* bounds

ASSUME JobGroupsAssumption ==
  /\ GroupOf \in [Job -> Group] /\ IsFiniteSet(Job) /\ NoJob \notin Job
  /\ MaxAttempts \in Nat \ {0}
  /\ MaxFaults \in Nat /\ MaxCommands \in Nat

VARIABLES job, grp, made, wk, par, op, won, faults, byHand, commands

count == <<byHand, commands>>
vars == <<job, grp, made, wk, par, op, won, faults, count>>

Command == commands < MaxCommands /\ commands' = commands + 1
Fault == faults < MaxFaults /\ faults' = faults + 1
-----------------------------------------------------------------------------
Members(g) == {j \in Job : GroupOf[j] = g}
NoDoc == [status |-> "none", attempts |-> 0]
NewDoc == [status |-> "pending", attempts |-> 0]
Free == [pc |-> "idle", j |-> NoJob, doc |-> NoDoc]
NoCommand == [pc |-> "idle", j |-> NoJob, doc |-> NoDoc]

Goes(w, s) == wk' = [wk EXCEPT ![w] = s]
Write(j, doc) == job' = [job EXCEPT ![j] = doc]

Init ==
  /\ job = [j \in Job |-> NoDoc]
  /\ grp = [g \in Group |-> [remaining |-> 0, failed |-> FALSE, fired |-> FALSE]]
  /\ made = [g \in Group |-> 0]
  /\ wk = [w \in Worker |-> Free] /\ op = [p \in Operator |-> NoCommand]
  /\ par = [g \in Group |-> "none"] /\ won = {} /\ faults = 0
  /\ byHand = {} /\ commands = 0

(* Scheduling. *)

\* create_job_group: the row counts all the members ...
CreateGroup(g) ==
  /\ par[g] = "none"
  /\ par' = [par EXCEPT ![g] = "making"]
  /\ grp' = [grp EXCEPT ![g].remaining = Cardinality(Members(g))]
  /\ UNCHANGED <<job, made, wk, op, won, faults, count>>

\* ... which are created one by one, due at once.
CreateMember(g, j) ==
  /\ par[g] = "making" /\ j \in Members(g) /\ job[j].status = "none"
  /\ Write(j, NewDoc)
  /\ par' = [par EXCEPT ![g] = IF \E i \in Members(g) \ {j} : job[i].status = "none"
                               THEN "making" ELSE "ended"]
  /\ UNCHANGED <<grp, made, wk, op, won, faults, count>>

\* The worker of the scheduling run dies; its retry makes another group.
ParentDies(g) ==
  /\ par[g] = "making" /\ Fault
  /\ par' = [par EXCEPT ![g] = "ended"]
  /\ UNCHANGED <<job, grp, made, wk, op, won, count>>

(* Running. *)

\* Slip: the row is picked by what an earlier look at it said.
ClaimUnlocked(w, j) ==
  /\ wk[w].pc = "idle" /\ job[j].status \in {"pending", "claimed"}
  /\ Write(j, [job[j] EXCEPT !.status = "claimed"])
  /\ Goes(w, [Free EXCEPT !.pc = "claimed", !.j = j])
  /\ UNCHANGED <<grp, made, par, op, won, faults, count>>

\* claim_due_job; the backoff of a failed job is over at some time.
ClaimDueJob(w, j) ==
  /\ wk[w].pc = "idle" /\ job[j].status = "pending"
  /\ Write(j, [job[j] EXCEPT !.status = "claimed"])
  /\ Goes(w, [Free EXCEPT !.pc = "claimed", !.j = j])
  /\ UNCHANGED <<grp, made, par, op, won, faults, count>>

\* rya jobs run: a job by its id, or every pending one, not claimed.
RunByHand(w, j) ==
  /\ wk[w].pc = "idle" /\ job[j].status # "none" /\ Command
  /\ Goes(w, [Free EXCEPT !.pc = "claimed", !.j = j])
  /\ byHand' = byHand \cup {j}
  /\ UNCHANGED <<job, grp, made, par, op, won, faults>>

\* run_job: the row is read once, for all the writes to come ...
ReadJob(w) ==
  /\ wk[w].pc = "claimed"
  /\ Goes(w, [wk[w] EXCEPT !.pc = "read", !.doc = job[wk[w].j]])
  /\ UNCHANGED <<job, grp, made, par, op, won, faults, count>>

\* ... or the run is refused: no such handler, or a quota.  Nothing is saved.
RunJobRaises(w) ==
  /\ wk[w].pc = "read" /\ Fault
  /\ Goes(w, Free)
  /\ UNCHANGED <<job, grp, made, par, op, won, count>>

SaveRunning(w) ==
  LET s == wk[w] doc == [s.doc EXCEPT !.status = "running"] IN
  /\ s.pc = "read"
  /\ Write(s.j, doc)
  /\ Goes(w, [s EXCEPT !.pc = "running", !.doc = doc])
  /\ UNCHANGED <<grp, made, par, op, won, faults, count>>

\* Slip: a failed attempt is not counted.
AfterUncounted(doc, outcome) ==
  CASE outcome = "completed" -> [doc EXCEPT !.status = "done"]
    [] outcome = "waiting"   -> [doc EXCEPT !.status = "waiting"]
    [] OTHER -> [doc EXCEPT !.status = "pending"]

\* The row a run leaves: done, paused for a human, due again, or dead.
After(doc, outcome) ==
  CASE outcome = "completed" -> [doc EXCEPT !.status = "done"]
    [] outcome = "waiting"   -> [doc EXCEPT !.status = "waiting"]
    [] outcome = "failed" /\ doc.attempts + 1 < MaxAttempts ->
         [status |-> "pending", attempts |-> doc.attempts + 1]
    [] OTHER -> [status |-> "failed", attempts |-> doc.attempts + 1]

Execute(w, outcome) ==
  LET s == wk[w] IN
  /\ s.pc = "running"
  /\ won' = IF outcome = "completed" THEN won \cup {s.j} ELSE won
  /\ Goes(w, [s EXCEPT !.pc = "ran", !.doc = After(s.doc, outcome)])
  /\ UNCHANGED <<job, grp, made, par, op, faults, count>>

\* A job that is paused or due again does not count for its group.
SaveResult(w) ==
  LET s == wk[w] IN
  /\ s.pc = "ran"
  /\ Write(s.j, s.doc)
  /\ Goes(w, CASE s.doc.status = "done"   -> [s EXCEPT !.pc = "won"]
               [] s.doc.status = "failed" -> [s EXCEPT !.pc = "lost"]
               [] OTHER -> Free)
  /\ UNCHANGED <<grp, made, par, op, won, faults, count>>

\* group_job_done of a dead member.
MarkFailed(w) ==
  /\ wk[w].pc = "lost"
  /\ grp' = [grp EXCEPT ![GroupOf[wk[w].j]].failed = TRUE]
  /\ Goes(w, Free)
  /\ UNCHANGED <<job, made, par, op, won, faults, count>>

\* Slip: the last but one member completes the group.
CompleteEarly(row) == row.remaining <= 1 /\ ~row.failed

\* Slip: one member more than the group has must be counted.
CompleteLate(row) == row.remaining < 0 /\ ~row.failed

Complete(row) == row.remaining <= 0 /\ ~row.failed

\* group_job_done of one that succeeded: the count comes back with what it was.
CountDown(w) ==
  LET g == GroupOf[wk[w].j] row == [grp[g] EXCEPT !.remaining = @ - 1] IN
  /\ wk[w].pc = "won"
  /\ grp' = [grp EXCEPT ![g] = row]
  /\ Goes(w, IF Complete(row) THEN [wk[w] EXCEPT !.pc = "firing"] ELSE Free)
  /\ UNCHANGED <<job, made, par, op, won, faults, count>>

\* The claim on the firing.
Fire(w) ==
  LET g == GroupOf[wk[w].j] IN
  /\ wk[w].pc = "firing"
  /\ grp' = [grp EXCEPT ![g].fired = TRUE]
  /\ Goes(w, IF grp[g].fired THEN Free ELSE [wk[w] EXCEPT !.pc = "fired"])
  /\ UNCHANGED <<job, made, par, op, won, faults, count>>

\* create_job of the onComplete handler.
CreateFanIn(w) ==
  /\ wk[w].pc = "fired"
  /\ made' = [made EXCEPT ![GroupOf[wk[w].j]] = @ + 1]
  /\ Goes(w, Free)
  /\ UNCHANGED <<job, grp, par, op, won, faults, count>>

\* An exception anywhere in the group's bookkeeping is swallowed.
GroupErrorSwallowed(w) ==
  /\ wk[w].pc \in {"won", "lost", "firing", "fired"} /\ Fault
  /\ Goes(w, Free)
  /\ UNCHANGED <<job, grp, made, par, op, won, count>>

WorkerDies(w) ==
  /\ wk[w].pc # "idle" /\ Fault
  /\ Goes(w, Free)
  /\ UNCHANGED <<job, grp, made, par, op, won, count>>

(* Operators. *)

\* retry_job: a dead job, read ...
BeginRetry(p, j) ==
  /\ op[p].pc = "idle" /\ job[j].status = "failed" /\ Command
  /\ op' = [op EXCEPT ![p] = [pc |-> "retrying", j |-> j, doc |-> job[j]]]
  /\ UNCHANGED <<job, grp, made, wk, par, won, faults, byHand>>

\* ... and written back as new.
SaveRetried(p) ==
  /\ op[p].pc = "retrying"
  /\ Write(op[p].j, NewDoc)
  /\ op' = [op EXCEPT ![p] = NoCommand]
  /\ UNCHANGED <<grp, made, wk, par, won, faults, count>>
-----------------------------------------------------------------------------
Work(w) ==
  \/ \E j \in Job : ClaimDueJob(w, j)
  \/ ReadJob(w) \/ SaveRunning(w) \/ SaveResult(w)
  \/ \E outcome \in {"completed", "waiting", "failed"} : Execute(w, outcome)
  \/ MarkFailed(w) \/ CountDown(w) \/ Fire(w) \/ CreateFanIn(w)

Schedule(g) == CreateGroup(g) \/ \E j \in Job : CreateMember(g, j)

Next ==
  \/ \E g \in Group : Schedule(g) \/ ParentDies(g)
  \/ \E w \in Worker : \/ Work(w) \/ RunJobRaises(w) \/ GroupErrorSwallowed(w)
                       \/ WorkerDies(w) \/ \E j \in Job : RunByHand(w, j)
  \/ \E p \in Operator : (\E j \in Job : BeginRetry(p, j)) \/ SaveRetried(p)

Spec == Init /\ [][Next]_vars

\* _jobs_loop and the workers poll for ever; a run that has begun to schedule goes on.
FairSpec ==
  /\ Spec
  /\ \A w \in Worker : WF_vars(Work(w))
  /\ \A g \in Group : WF_vars(par[g] = "making" /\ Schedule(g))
-----------------------------------------------------------------------------
Statuses == {"none", "pending", "claimed", "running", "waiting", "done", "failed"}
Doc == [status: Statuses, attempts: Nat]

TypeOK ==
  /\ job \in [Job -> Doc]
  /\ grp \in [Group -> [remaining: Int, failed: BOOLEAN, fired: BOOLEAN]]
  /\ made \in [Group -> Nat]
  /\ wk \in [Worker -> [pc: {"idle", "claimed", "read", "running", "ran", "won", "lost",
                             "firing", "fired"}, j: Job \cup {NoJob}, doc: Doc]]
  /\ \A w \in Worker : wk[w].pc # "idle" => wk[w].j \in Job
  /\ par \in [Group -> {"none", "making", "ended"}]
  /\ op \in [Operator -> [pc: {"idle", "retrying"}, j: Job \cup {NoJob}, doc: Doc]]
  /\ \A p \in Operator : op[p].pc # "idle" => op[p].j \in Job
  /\ won \subseteq Job /\ byHand \subseteq Job /\ {faults, commands} \subseteq Nat

\* The job a group ends in is created at most once, and only when every member has
\* succeeded, unless an operator ran one of them by hand (context.py schedule_group,
\* "when ALL succeed, fire on_complete exactly once - under any number of parallel
\* workers"; store_postgres.py group_job_done).
FiresOnceAllSucceeded ==
  \A g \in Group :
    /\ made[g] <= 1
    /\ made[g] = 1 /\ Members(g) \cap byHand = {} => Members(g) \subseteq won

\* A job nobody runs by hand is run by one worker at a time (store_postgres.py
\* claim_due_job, "no two ever grab the same job").
JobRunsAlone ==
  \A v, w \in Worker :
    v # w /\ {wk[v].pc, wk[w].pc} \subseteq {"claimed", "read", "running", "ran"}
      => wk[v].j # wk[w].j \/ wk[v].j \in byHand

\* Unless something died or was refused, a group whose members have all succeeded
\* fires, whatever the order in which they are counted (store_postgres.py
\* group_job_done), one that was dead and retried excepted.
CompleteGroupFires ==
  \A g \in Group : Members(g) \subseteq won ~> made[g] = 1 \/ grp[g].failed \/ faults > 0

\* Unless something died, was refused or was run by hand (two runs of a job that save
\* over each other may go on for ever), a scheduled job is done, dead or paused in the
\* end (engine.py run_job, work_once).
JobSettles ==
  \A j \in Job : job[j].status = "pending"
    ~> job[j].status \in {"done", "failed", "waiting"} \/ faults > 0 \/ byHand # {}

\* A job whose worker died is taken up again (worker.py drain_once, "a process that dies
\* mid-item has its work reclaimed").
\* It does not hold: see "Disagreements" in README.md.
InterruptedJobFinishes ==
  \A j \in Job : job[j].status = "claimed" ~> job[j].status \in {"done", "failed", "waiting"}
=============================================================================
