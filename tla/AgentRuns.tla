----------------------------- MODULE AgentRuns -----------------------------
(***************************************************************************)
(* One agent run from the event that starts it to its end (turns.py,       *)
(* runtime/engine.py, sdk/context.py), where the api does not execute: the *)
(* api writes a queued run and enqueues a chat-turn job; a worker claims   *)
(* the job, adopts the run and drives the handler, journaling each step;   *)
(* a gate in the handler asks for an approval and suspends the run; the    *)
(* api records the human's decision and enqueues an approval-resume job; a *)
(* worker claims it, executes the approved action and replays the handler  *)
(* against the resolved journal.                                           *)
(*                                                                         *)
(* The handler is N steps in a fixed order, those in Gates being           *)
(* approvals.request, the others effects.  The run row is saved as a whole *)
(* from the copy its writer holds.  Workers may die between any two        *)
(* steps, and a lease may run out under a worker that is still working.    *)
(* Each call into queue.py is one step here; what happens inside them is   *)
(* the subject of DurableQueue.                                            *)
(*                                                                         *)
(*   run       the stored run row            queue    the queue's jobs     *)
(*   approval  the stored approvals          payload  approval of a resume *)
(*   exec[w]   what worker w is doing        api[c]   what request c does  *)
(* and three history variables:                                            *)
(*   ran[p]    executions of step p          acted[a] executions of the    *)
(*   decided   approvals a human granted              action of a          *)
(***************************************************************************)
EXTENDS QueueJob, FiniteSets

CONSTANTS Client,                 \* api requests in flight
          Approval, NoApproval,   \* approval ids
          Turn, NoJob,            \* the chat-turn job; the other jobs are resumes
          N, Gates                \* the handler

ASSUME TurnAssumption == Turn \in Job /\ NoJob \notin Job
ASSUME HandlerAssumption == N \in Nat \ {0} /\ Gates \subseteq 1 .. N
ASSUME NoApprovalAssumption == NoApproval \notin Approval

VARIABLES run, approval, queue, payload, exec, api, ran, acted, decided

vars == <<run, approval, queue, payload, exec, api, ran, acted, decided>>
-----------------------------------------------------------------------------
Step == 1 .. N
Resumes == Job \ {Turn}

Finished == {"completed", "failed", "rejected"}
RunStatus == {"absent", "queued", "running", "waiting_approval"} \cup Finished

\* A journal entry; only a gate's entry names an approval.
Entry == [status: {"absent", "done", "pending", "approved", "rejected"},
          approval: Approval \cup {NoApproval}]
NoEntry == [status |-> "absent", approval |-> NoApproval]
EmptyJournal == [p \in Step |-> NoEntry]

RunDoc == [status: RunStatus, journal: [Step -> Entry]]
AbsentRun == [status |-> "absent", journal |-> EmptyJournal]

ApprovalDoc == [status: {"absent", "pending", "approving", "approved", "rejected"},
                gate: 0 .. N]

\* Replay returns the recorded result of a done step and of an approved gate.
Memoized(e) == e.status \in {"done", "approved"}

\* The step a handler replayed against this journal reaches first.
Reaches(journal, p) ==
  /\ p \in 1 .. N + 1
  /\ \A q \in 1 .. (p - 1) : Memoized(journal[q])
  /\ p <= N => ~Memoized(journal[p])

\* The journal in which the gate of approval a has this outcome.
Resolve(journal, a, outcome) ==
  [p \in Step |-> IF journal[p].approval = a THEN [journal[p] EXCEPT !.status = outcome]
                                             ELSE journal[p]]

IdleWorker == [pc |-> "idle", job |-> NoJob, run |-> AbsentRun]
IdleClient == [pc |-> "idle", approval |-> NoApproval, run |-> AbsentRun]

\* The approval worker w is resuming.
Resuming(w) == payload[exec[w].job]

\* Worker w goes to pc with this copy of the run.
Goes(w, pc, r) == exec' = [exec EXCEPT ![w].pc = pc, ![w].run = r]
IdlesWorker(w) == exec' = [exec EXCEPT ![w] = IdleWorker]
-----------------------------------------------------------------------------
Init ==
  /\ run = AbsentRun
  /\ approval = [a \in Approval |-> [status |-> "absent", gate |-> 0]]
  /\ queue = [j \in Job |-> AbsentDoc]
  /\ payload = [j \in Job |-> NoApproval]
  /\ exec = [w \in Worker |-> IdleWorker]
  /\ api = [c \in Client |-> IdleClient]
  /\ ran = [p \in Step |-> 0]
  /\ acted = [a \in Approval |-> 0]
  /\ decided = {}

(* The control plane. *)

\* The statuses from which an approval can still be resolved.
Open(a) == approval[a].status \in {"pending", "approving"}

\* enqueue_event: the queued run is written before the job exists ...
CreateRun(c) ==
  /\ api[c].pc = "idle" /\ run.status = "absent"
  /\ run' = [status |-> "queued", journal |-> EmptyJournal]
  /\ api' = [api EXCEPT ![c].pc = "enqueue"]
  /\ UNCHANGED <<approval, queue, payload, exec, ran, acted, decided>>

\* ... and create_turn enqueues it.
EnqueueTurn(c) ==
  /\ api[c].pc = "enqueue"
  /\ queue' = [queue EXCEPT ![Turn] = Enqueued("due")]
  /\ api' = [api EXCEPT ![c] = IdleClient]
  /\ UNCHANGED <<run, approval, payload, exec, ran, acted, decided>>

\* create_turn or enqueue_resume: q.enqueue is refused (E_QUOTA_EXCEEDED, a
\* disabled workspace), and the request ends with what it has written so far.
EnqueueRefused(c) ==
  /\ api[c].pc \in {"enqueue", "resume"}
  /\ api' = [api EXCEPT ![c] = IdleClient]
  /\ UNCHANGED <<run, approval, queue, payload, exec, ran, acted, decided>>

\* enqueue_resume: the approval must be pending ...
BeginApprove(c, a) ==
  /\ api[c].pc = "idle" /\ approval[a].status = "pending"
  /\ api' = [api EXCEPT ![c].pc = "look", ![c].approval = a]
  /\ UNCHANGED <<run, approval, queue, payload, exec, ran, acted, decided>>

\* Slip: the resume is enqueued without saving the decision.
CheckPausedUnsaved(c) ==
  /\ api[c].pc = "look"
  /\ api' = [api EXCEPT ![c] = IF run.status = "waiting_approval"
                               THEN [@ EXCEPT !.pc = "resume"] ELSE IdleClient]
  /\ UNCHANGED <<run, approval, queue, payload, exec, ran, acted, decided>>

\* ... and its run, read next, must be paused (E_RUN_NOT_PAUSED) ...
CheckPaused(c) ==
  /\ api[c].pc = "look"
  /\ api' = [api EXCEPT ![c] = IF run.status = "waiting_approval"
                               THEN [@ EXCEPT !.pc = "approve"] ELSE IdleClient]
  /\ UNCHANGED <<run, approval, queue, payload, exec, ran, acted, decided>>

\* ... then the decision is made durable ...
SaveApproving(c) ==
  /\ api[c].pc = "approve"
  /\ approval' = [approval EXCEPT ![api[c].approval].status = "approving"]
  /\ decided' = decided \cup {api[c].approval}
  /\ api' = [api EXCEPT ![c].pc = "resume"]
  /\ UNCHANGED <<run, queue, payload, exec, ran, acted>>

\* ... and the resume is handed to a worker.
EnqueueResume(c, j) ==
  /\ api[c].pc = "resume" /\ j \in Resumes /\ queue[j].status = "absent"
  /\ queue' = [queue EXCEPT ![j] = Enqueued("due")]
  /\ payload' = [payload EXCEPT ![j] = api[c].approval]
  /\ api' = [api EXCEPT ![c] = IdleClient]
  /\ UNCHANGED <<run, approval, exec, ran, acted, decided>>

\* reject_approval: reads the approval, which must be open ...
BeginReject(c, a) ==
  /\ api[c].pc = "idle" /\ Open(a)
  /\ api' = [api EXCEPT ![c].pc = "load", ![c].approval = a]
  /\ UNCHANGED <<run, approval, queue, payload, exec, ran, acted, decided>>

\* ... then its run, whatever its status ...
LoadRejected(c) ==
  /\ api[c].pc = "load"
  /\ api' = [api EXCEPT ![c].pc = "reject", ![c].run = run]
  /\ UNCHANGED <<run, approval, queue, payload, exec, ran, acted, decided>>

\* ... saves the approval ...
SaveRejected(c) ==
  /\ api[c].pc = "reject"
  /\ approval' = [approval EXCEPT ![api[c].approval].status = "rejected"]
  /\ api' = [api EXCEPT ![c].pc = "stop"]
  /\ UNCHANGED <<run, queue, payload, exec, ran, acted, decided>>

\* ... and the run as it was read, now rejected.
SaveStopped(c) ==
  /\ api[c].pc = "stop"
  /\ run' = [status |-> "rejected",
             journal |-> Resolve(api[c].run.journal, api[c].approval, "rejected")]
  /\ api' = [api EXCEPT ![c] = IdleClient]
  /\ UNCHANGED <<approval, queue, payload, exec, ran, acted, decided>>

ClientDies(c) ==
  /\ api[c].pc # "idle"
  /\ api' = [api EXCEPT ![c] = IdleClient]
  /\ UNCHANGED <<run, approval, queue, payload, exec, ran, acted, decided>>
-----------------------------------------------------------------------------
(* The queue, one call at a time. *)

\* queue_reap, with which every claim begins.
ReapedQueue ==
  [j \in Job |-> IF ~ExpiredLease(queue[j]) THEN queue[j]
                 ELSE IF Exhausted(j, queue[j]) THEN DeadLettered(queue[j])
                                                ELSE Requeued(queue[j])]
Due(j) == ReapedQueue[j].status = "pending" /\ ReapedQueue[j].runAt = "due"

\* execute_pending or execute_resumes claims j.
Claim(w, j) ==
  /\ exec[w].pc = "idle" /\ Due(j)
  /\ queue' = [ReapedQueue EXCEPT ![j] = Claimed(@, w)]
  /\ exec' = [exec EXCEPT ![w].pc = IF j = Turn THEN "adopt" ELSE "check", ![w].job = j]
  /\ UNCHANGED <<run, approval, payload, api, ran, acted, decided>>

\* A claim that only reaps.
ClaimNothing(w) ==
  /\ exec[w].pc = "idle" /\ \A j \in Job : ~Due(j)
  /\ queue' = ReapedQueue
  /\ UNCHANGED <<run, approval, payload, exec, api, ran, acted, decided>>

\* queue.complete; a worker that lost the job gets a conflict, and so does the
\* queue.fail it answers that with.
Report(w) ==
  /\ exec[w].pc = "report"
  /\ queue' = IF HeldBy(queue[exec[w].job], w)
              THEN [queue EXCEPT ![exec[w].job] = Completed(@)] ELSE queue
  /\ IdlesWorker(w)
  /\ UNCHANGED <<run, approval, payload, api, ran, acted, decided>>

\* queue.fail: the resume is retried later or dead-lettered.
ReportFailed(w) ==
  /\ queue' = IF HeldBy(queue[exec[w].job], w)
              THEN [queue EXCEPT ![exec[w].job] = Failed(exec[w].job, @)] ELSE queue
  /\ IdlesWorker(w)
  /\ UNCHANGED <<run, approval, payload, api, ran, acted, decided>>

LeaseRunsOut(j) ==
  /\ queue[j].lease = "live"
  /\ queue' = [queue EXCEPT ![j].lease = "expired"]
  /\ UNCHANGED <<run, approval, payload, exec, api, ran, acted, decided>>

BecomesDue(j) ==
  /\ queue[j].status = "pending" /\ queue[j].runAt = "later"
  /\ queue' = [queue EXCEPT ![j].runAt = "due"]
  /\ UNCHANGED <<run, approval, payload, exec, api, ran, acted, decided>>
-----------------------------------------------------------------------------
(* The worker. *)

\* _adopt_run: journal and trace are reset, whatever the run had come to.
Adopt(w) ==
  /\ exec[w].pc = "adopt"
  /\ run' = [status |-> "running", journal |-> EmptyJournal]
  /\ Goes(w, "handler", run')
  /\ UNCHANGED <<approval, queue, payload, api, ran, acted, decided>>

\* Engine.approve: the approval is still open ...
CheckApproval(w) ==
  /\ exec[w].pc = "check" /\ Open(Resuming(w))
  /\ Goes(w, "load", exec[w].run)
  /\ UNCHANGED <<run, approval, queue, payload, api, ran, acted, decided>>

\* ... and its run, read next, is paused ...
LoadPaused(w) ==
  /\ exec[w].pc = "load" /\ run.status = "waiting_approval"
  /\ Goes(w, "act", run)
  /\ UNCHANGED <<run, approval, queue, payload, api, ran, acted, decided>>

\* ... or the resume fails (E_APPROVAL_NOT_PENDING, E_RUN_NOT_PAUSED).
RefuseResume(w) ==
  /\ \/ exec[w].pc = "check" /\ ~Open(Resuming(w))
     \/ exec[w].pc = "load" /\ run.status # "waiting_approval"
  /\ ReportFailed(w)

\* _execute_action: the approved action is executed ...
Act(w) ==
  /\ exec[w].pc = "act"
  /\ acted' = [acted EXCEPT ![Resuming(w)] = @ + 1]
  /\ Goes(w, "approved", exec[w].run)
  /\ UNCHANGED <<run, approval, queue, payload, api, ran, decided>>

\* Slip: the exception escapes and the job keeps its lease.
ActEscapes(w) ==
  /\ exec[w].pc = "act" /\ IdlesWorker(w)
  /\ UNCHANGED <<run, approval, queue, payload, api, ran, acted, decided>>

\* ... or raises, and the resume fails.
ActFails(w) == exec[w].pc = "act" /\ ReportFailed(w)

\* The approval is saved ...
SaveApproved(w) ==
  /\ exec[w].pc = "approved"
  /\ approval' = [approval EXCEPT ![Resuming(w)].status = "approved"]
  /\ Goes(w, "resume", exec[w].run)
  /\ UNCHANGED <<run, queue, payload, api, ran, acted, decided>>

\* Slip: a resume starts the handler afresh, as a reclaimed turn does.
ResumeAfresh(w) ==
  /\ exec[w].pc = "resume"
  /\ run' = [status |-> "running",
             journal |-> [p \in Step |-> IF p \in Gates THEN
                            Resolve(exec[w].run.journal, Resuming(w), "approved")[p] ELSE NoEntry]]
  /\ Goes(w, "handler", run')
  /\ UNCHANGED <<approval, queue, payload, api, ran, acted, decided>>

\* ... and then the run, with the gate resolved, and the handler is replayed.
SaveResumed(w) ==
  /\ exec[w].pc = "resume"
  /\ run' = [status |-> "running",
             journal |-> Resolve(exec[w].run.journal, Resuming(w), "approved")]
  /\ Goes(w, "handler", run')
  /\ UNCHANGED <<approval, queue, payload, api, ran, acted, decided>>

\* The handler is at step p, which is not memoized.
At(w, p) == exec[w].pc = "handler" /\ Reaches(exec[w].run.journal, p)

\* _step: the effect happens ...
RunStep(w, p) ==
  /\ At(w, p) /\ p \in Step \ Gates
  /\ ran' = [ran EXCEPT ![p] = @ + 1]
  /\ Goes(w, "commit", exec[w].run)
  /\ UNCHANGED <<run, approval, queue, payload, api, acted, decided>>

\* ... and _commit journals it and saves the run.
CommitStep(w, p) ==
  /\ exec[w].pc = "commit" /\ Reaches(exec[w].run.journal, p)
  /\ run' = [exec[w].run EXCEPT
               !.journal = [@ EXCEPT ![p] = [status |-> "done", approval |-> NoApproval]]]
  /\ Goes(w, "handler", run')
  /\ UNCHANGED <<approval, queue, payload, api, ran, acted, decided>>

\* _request_approval: the approval is created ...
AskApproval(w, p, a) ==
  /\ At(w, p) /\ p \in Gates /\ exec[w].run.journal[p].status = "absent"
  /\ approval[a].status = "absent"
  /\ approval' = [approval EXCEPT ![a] = [status |-> "pending", gate |-> p]]
  /\ Goes(w, "ask", [status |-> "waiting_approval",
                     journal |-> [exec[w].run.journal EXCEPT
                                    ![p] = [status |-> "pending", approval |-> a]]])
  /\ UNCHANGED <<run, queue, payload, api, ran, acted, decided>>

\* ... and the suspended run saved, for the first time.
SavePause(w) ==
  /\ exec[w].pc = "ask"
  /\ run' = exec[w].run
  /\ Goes(w, "settle", exec[w].run)
  /\ UNCHANGED <<approval, queue, payload, api, ran, acted, decided>>

\* The handler leaves: suspended again at a gate that is still pending, failed
\* with an error, or done.
Leave(w, status) ==
  /\ Goes(w, "settle", [exec[w].run EXCEPT !.status = status])
  /\ UNCHANGED <<run, approval, queue, payload, api, ran, acted, decided>>

PauseAgain(w, p) ==
  /\ At(w, p) /\ p \in Gates /\ exec[w].run.journal[p].status = "pending"
  /\ Leave(w, "waiting_approval")

\* Anywhere in the handler, an effect not journaled yet included (timeout, error).
HandlerRaises(w) == exec[w].pc \in {"handler", "commit", "ask"} /\ Leave(w, "failed")

HandlerReturns(w) == At(w, N + 1) /\ Leave(w, "completed")

\* Slip: the outcome stays in the worker's copy.
SettleUnsaved(w) ==
  /\ exec[w].pc = "settle"
  /\ Goes(w, "report", exec[w].run)
  /\ UNCHANGED <<run, approval, queue, payload, api, ran, acted, decided>>

\* _execute saves the run as its handler left it; _run_turn tags a suspended
\* one with its turn and saves it again.
Settle(w) ==
  /\ exec[w].pc = "settle"
  /\ run' = exec[w].run
  /\ Goes(w, "report", exec[w].run)
  /\ UNCHANGED <<approval, queue, payload, api, ran, acted, decided>>

\* An exception outside the handler reaches _run_turn or _run_resume (the store
\* fails, the agent has no handler), and the job is failed.
WorkRaises(w) ==
  /\ exec[w].pc \in {"adopt", "check", "load", "act", "approved", "resume", "settle", "report"}
  /\ ReportFailed(w)

WorkerDies(w) ==
  /\ exec[w].pc # "idle"
  /\ IdlesWorker(w)
  /\ UNCHANGED <<run, approval, queue, payload, api, ran, acted, decided>>
-----------------------------------------------------------------------------
Drive(w) ==
  \/ \E p \in 1 .. N : RunStep(w, p) \/ CommitStep(w, p) \/ PauseAgain(w, p)
  \/ \E p \in Gates, a \in Approval : AskApproval(w, p, a)
  \/ SavePause(w) \/ HandlerReturns(w) \/ Settle(w)

Resume(w) ==
  CheckApproval(w) \/ LoadPaused(w) \/ RefuseResume(w) \/ Act(w) \/ SaveApproved(w) \/ SaveResumed(w)

\* What a worker does about the job it holds.
Work(w) == Adopt(w) \/ Drive(w) \/ Resume(w) \/ Report(w)

Poll(w) == ClaimNothing(w) \/ \E j \in Job : Claim(w, j)

Fails(w) == ActFails(w) \/ HandlerRaises(w)

Serve(c) ==
  \/ EnqueueTurn(c) \/ CheckPaused(c) \/ SaveApproving(c)
  \/ LoadRejected(c) \/ SaveRejected(c) \/ SaveStopped(c)
  \/ \E j \in Resumes : EnqueueResume(c, j)

Ask(c) == CreateRun(c) \/ \E a \in Approval : BeginApprove(c, a) \/ BeginReject(c, a)

\* Nothing goes wrong but the user's code: no process dies, no lease runs out, no
\* enqueue is refused and no store fails.
Working ==
  \/ \E c \in Client : Ask(c) \/ Serve(c)
  \/ \E w \in Worker : Poll(w) \/ Work(w) \/ Fails(w)
  \/ \E j \in Job : BecomesDue(j)

Next ==
  \/ Working
  \/ \E c \in Client : ClientDies(c) \/ EnqueueRefused(c)
  \/ \E w \in Worker : WorkerDies(w) \/ WorkRaises(w)
  \/ \E j \in Job : LeaseRunsOut(j)

Spec == Init /\ [][Next]_vars
SpecUp == Init /\ [][Working]_vars

\* A process that is up keeps going, workers poll, and time passes: a retry
\* becomes due.  Nobody has to ask, decide or fail.
Progress ==
  /\ \A c \in Client : WF_vars(Serve(c))
  /\ \A w \in Worker : WF_vars(Work(w)) /\ WF_vars(Poll(w))
  /\ \A j \in Job : WF_vars(BecomesDue(j))

FairSpecUp == SpecUp /\ Progress

\* The same with all of that; the lease of a dead worker runs out.
FairSpec == Spec /\ Progress /\ \A j \in Job : WF_vars(LeaseRunsOut(j))
-----------------------------------------------------------------------------
\* What a worker and a request carry.
WorkerDoc ==
  [pc : {"idle", "adopt", "check", "load", "act", "approved", "resume", "handler", "commit", "ask",
         "settle", "report"},
   job: Job \cup {NoJob}, run: RunDoc]
ClientDoc ==
  [pc: {"idle", "enqueue", "look", "approve", "resume", "load", "reject", "stop"},
   approval: Approval \cup {NoApproval}, run: RunDoc]

TypeOK ==
  /\ run \in RunDoc
  /\ approval \in [Approval -> ApprovalDoc]
  /\ queue \in [Job -> JobDoc]
  /\ payload \in [Job -> Approval \cup {NoApproval}]
  /\ exec \in [Worker -> WorkerDoc] /\ api \in [Client -> ClientDoc]
  /\ ran \in [Step -> Nat] /\ acted \in [Approval -> Nat] /\ decided \in SUBSET Approval

\* A gate holds: nothing past it runs unless a human granted the approval it
\* asked for and the approved action was executed, whatever dies, is reclaimed
\* or interleaves (engine.py approve; context.py _request_approval).
GateHolds ==
  \A p \in Step : ran[p] > 0 =>
    \A g \in Gates : g < p =>
      \E a \in decided : approval[a].gate = g /\ acted[a] > 0

\* The grants of these jobs: each names its job and the attempt it was.
GrantsOf(jobs) == UNION {{j} \X (1 .. queue[j].attempts) : j \in jobs}
Grants(jobs) == Cardinality(GrantsOf(jobs))

\* The jobs whose executions reach step p for the first time: the turn, up to the
\* first gate; past it, the resumes of the last gate before p.
Reachers(p) ==
  IF \A g \in Gates : g >= p THEN {Turn}
  ELSE {j \in Resumes : /\ payload[j] # NoApproval
                        /\ \A g \in Gates : g < p => g <= approval[payload[j]].gate
                        /\ approval[payload[j]].gate < p}

\* A step's effect happens at most once for every time a worker was granted a
\* job that starts behind it: no later resume repeats what the journal holds,
\* however its workers overlap (context.py _step, "prior tool calls ... are NOT
\* re-executed").  An approved action is executed at most once for every grant
\* of its resumes (engine.py approve).
WorkPerGrant ==
  /\ \A p \in Step : ran[p] <= Grants(Reachers(p))
  /\ \A a \in Approval : acted[a] <= Grants({j \in Resumes : payload[j] = a})

\* Every stored or half-written journal that a replay could be given is results,
\* then at most one gate that is not granted, then nothing; a gate's entry names an
\* approval asked at that gate, granted only once its action was executed, and a
\* run waits at such a gate (context.py _commit, _request_approval).  A rejection
\* may be written over a gate that was granted meanwhile: that run is not replayed.
InOrder(r) ==
  r.status # "rejected" =>
    \E p \in 1 .. N + 1 :
      /\ \A q \in 1 .. (p - 1) : r.journal[q].status = IF q \in Gates THEN "approved" ELSE "done"
      /\ \A q \in p .. N : q > p \/ q \notin Gates => r.journal[q] = NoEntry
      /\ r.status = "waiting_approval" => p \in Gates /\ r.journal[p].status # "absent"
      /\ \A q \in Gates : r.journal[q].status # "absent" =>
           approval[r.journal[q].approval].gate = q
      /\ \A q \in Gates : r.journal[q].status = "approved" => acted[r.journal[q].approval] > 0
JournalsInOrder ==
  InOrder(run) /\ \A w \in Worker : InOrder(exec[w].run) /\ \A c \in Client : InOrder(api[c].run)

\* Every accepted run ends or comes to wait for a human (turns.py enqueue_event,
\* execute_pending).
AtRest == run.status \in Finished \cup {"waiting_approval"}
RunComesToRest == run.status \in {"queued", "running"} ~> AtRest

\* A turn that was interrupted finishes (docs/primitives.md:217): a run some worker
\* has started comes to rest, whoever dies.
\* It does not hold: see "Disagreements" in README.md.
InterruptedTurnFinishes == run.status = "running" ~> AtRest

\* A decision is carried out: the approval is resolved, or its resume is
\* dead-lettered (turns.py _run_resume, "must never leave the job leased").
DecisionIsCarriedOut ==
  \A a \in Approval : approval[a].status = "approving" ~>
    \/ approval[a].status \in {"approved", "rejected"}
    \/ \E j \in Resumes : payload[j] = a /\ queue[j].dead

\* A second approve is refused: an approval gets one resume (turns.py:308).
\* It does not hold: see "Disagreements" in README.md.
OneResumePerApproval ==
  \A a \in Approval : Cardinality({j \in Resumes : payload[j] = a}) <= 1

\* No run is left waiting for an approval that was granted (turns.py:363).
\* It does not hold: see "Disagreements" in README.md.
WaitsFor(a) == run.status = "waiting_approval" /\ \E p \in Gates :
                 run.journal[p] = [status |-> "pending", approval |-> a]
Nothing == /\ \A c \in Client : api[c].pc = "idle"
           /\ \A w \in Worker : exec[w].pc = "idle"
           /\ \A j \in Job : queue[j].status \notin {"pending", "running"}
NotStranded == \A a \in Approval : Nothing /\ WaitsFor(a) => approval[a].status # "approved"

\* Rejecting stops the run: the approval stays rejected and its action is not
\* executed any more (api/app.py:2134-2139).
\* It does not hold: see "Disagreements" in README.md.
RejectionStops ==
  [][\A a \in Approval : approval[a].status = "rejected" =>
       approval'[a].status = "rejected" /\ acted'[a] = acted[a]]_vars
=============================================================================
