--------------------------- MODULE AgentRunsProofs ---------------------------
(***************************************************************************)
(* Proofs about AgentRuns, for every handler, every number of workers,     *)
(* clients, jobs and attempts: its state stays well typed, its gates hold, *)
(* nothing is executed more often than it was granted, and every journal a *)
(* replay could be given is in order.                                      *)
(*                                                                         *)
(* GateHolds speaks of what has been executed, so it is not inductive: a   *)
(* worker runs a step because the journal it holds says that the gates     *)
(* before it were granted.  The invariant therefore says of EVERY copy of  *)
(* the run (the stored one, each worker's and each client's) that a        *)
(* granted gate names an approval asked there whose action was executed,   *)
(* and of every worker resuming an approval that the approval was decided. *)
(*                                                                         *)
(* WorkPerGrant counts, and a count alone is not inductive either: each    *)
(* worker that holds a job may still execute steps under that grant.  The  *)
(* invariant WInv counts those too: what was done plus what is still owed  *)
(* is covered by what was granted.  That a worker owes a step at most once *)
(* and only within its job's span follows from the shape of its journal.   *)
(*                                                                         *)
(* And about the loops of AgentLoop, for all tools, api processes, runs    *)
(* and limits.  What an operator was last told to be in force is, and no   *)
(* tool starts against it: whoever is about to write the whole map has     *)
(* read what is in force or was overtaken (SwitchInv), and that a loop     *)
(* asks again before each call needs only that it is well typed and no     *)
(* further than its journal (LoopsTyped).  And what they spend is bounded, *)
(* journaled and metered.  The sums are not inductive: a call may be sent  *)
(* whenever the meter is below the limit, so one has to know how many are  *)
(* under way, which is said of each run by itself (Balanced): one if it    *)
(* waits, and one for every caller that died or gave up.                   *)
(***************************************************************************)
EXTENDS AgentRuns, AgentLoop, FiniteSetTheorems, TLAPS

(* The queue's documents: every operation keeps one well typed and present. *)

Present(d) == d \in JobDoc /\ d.status # "absent"

LEMMA ClaimedPresent ==
  ASSUME NEW w \in Worker, NEW d, Present(d)
  PROVE  Present(Claimed(d, w))
<1>1. d.attempts + 1 \in Nat BY DEF Present, JobDoc
<1> QED BY <1>1 DEF Present, Claimed, JobDoc, Status

LEMMA DocumentOps ==
  ASSUME NEW j \in Job, NEW d, Present(d)
  PROVE  /\ Present(Completed(d)) /\ Present(Failed(j, d))
         /\ Present(Requeued(d)) /\ Present(DeadLettered(d))
<1>1. Present(Completed(d))
  BY DEF Present, Completed, JobDoc, Status
<1>2. Present(Failed(j, d))
  BY DEF Present, Failed, JobDoc, Status
<1>3. Present(Requeued(d)) /\ Present(DeadLettered(d))
  BY DEF Present, Requeued, DeadLettered, JobDoc, Status
<1> QED BY <1>1, <1>2, <1>3

LEMMA AbsentDocOK == AbsentDoc \in JobDoc /\ AbsentDoc.status = "absent"
BY DEF AbsentDoc, Blank, JobDoc, Status

LEMMA EnqueuedPresent == Present(Enqueued("due"))
BY DEF Present, Enqueued, Blank, JobDoc, Status
-----------------------------------------------------------------------------
(* Copies of the run. *)

\* What a journal says of its gates, given the stored approvals and the
\* executions of their actions.
JournalOK(log, approvals, actions) ==
  \A p \in Step :
    /\ log[p].status = "absent" => log[p].approval = NoApproval
    /\ p \notin Gates => log[p].status \in {"absent", "done"}
                         /\ log[p].approval = NoApproval
    /\ p \in Gates => log[p].status # "done"
    /\ p \in Gates /\ log[p].status # "absent" =>
         /\ log[p].approval \in Approval
         /\ approvals[log[p].approval].gate = p
         /\ approvals[log[p].approval].status # "absent"
    /\ p \in Gates /\ log[p].status = "approved" => actions[log[p].approval] > 0

LEMMA EmptyJournalOK ==
  /\ EmptyJournal \in [Step -> Entry] /\ AbsentRun \in RunDoc
  /\ \A approvals, actions : JournalOK(EmptyJournal, approvals, actions)
BY DEF EmptyJournal, NoEntry, Entry, JournalOK, AbsentRun, RunDoc, RunStatus

\* Approvals keep their gates, and what was executed stays executed.
Monotone(approvals, approvals1, actions, actions1) ==
  \A a \in Approval :
    /\ approvals[a].status # "absent" =>
         approvals1[a].status # "absent" /\ approvals1[a].gate = approvals[a].gate
    /\ actions[a] > 0 => actions1[a] > 0

LEMMA JournalStays ==
  ASSUME NEW log, NEW approvals, NEW approvals1, NEW actions, NEW actions1,
         JournalOK(log, approvals, actions),
         Monotone(approvals, approvals1, actions, actions1)
  PROVE  JournalOK(log, approvals1, actions1)
BY DEF JournalOK, Monotone

\* A handler replayed against one journal reaches one step.
LEMMA ReachesOne ==
  ASSUME NEW log, NEW p, NEW q, Reaches(log, p), Reaches(log, q)
  PROVE  p = q
<1>1. N \in Nat \ {0} BY HandlerAssumption
<1>2. p \in 1 .. N + 1 /\ q \in 1 .. N + 1
  BY DEF Reaches
<1>3. CASE p < q
  <2>1. p \in 1 .. (q - 1) /\ p <= N BY <1>1, <1>2, <1>3
  <2> QED BY <2>1 DEF Reaches
<1>4. CASE q < p
  <2>1. q \in 1 .. (p - 1) /\ q <= N BY <1>1, <1>2, <1>4
  <2> QED BY <2>1 DEF Reaches
<1> QED BY <1>1, <1>2, <1>3, <1>4

LEMMA ResolveTyped ==
  ASSUME NEW log \in [Step -> Entry], NEW a \in Approval,
         NEW outcome \in {"approved", "rejected"}
  PROVE  Resolve(log, a, outcome) \in [Step -> Entry]
BY DEF Resolve, Entry

\* Resolving keeps a journal good; granting needs the action executed.
LEMMA ResolveOK ==
  ASSUME NEW log \in [Step -> Entry], NEW approvals, NEW actions,
         JournalOK(log, approvals, actions), NEW a \in Approval,
         NEW outcome \in {"approved", "rejected"}, outcome = "approved" => actions[a] > 0
  PROVE  JournalOK(Resolve(log, a, outcome), approvals, actions)
<1> DEFINE resolved == Resolve(log, a, outcome)
<1>1. ASSUME NEW p \in Step, log[p].approval # a
      PROVE  resolved[p] = log[p]
  BY <1>1 DEF Resolve
<1>2. ASSUME NEW p \in Step, log[p].approval = a
      PROVE  /\ resolved[p].status = outcome /\ resolved[p].approval = a
             /\ log[p].status # "absent" /\ p \in Gates
  BY <1>2, NoApprovalAssumption DEF Resolve, Entry, JournalOK
<1> HIDE DEF resolved
<1>3. JournalOK(resolved, approvals, actions)
  BY <1>1, <1>2 DEF JournalOK
<1> QED BY <1>3 DEF resolved

-----------------------------------------------------------------------------
(* The invariant. *)

ResumePcs == {"check", "load", "act", "approved", "resume"}
DecisionPcs == {"look", "approve", "resume", "load", "reject", "stop"}

\* Worker w holds a job that exists; what it is about to do is covered by its
\* journal, and what it is about to save has happened.
WorkerOK(w) ==
  /\ JournalOK(exec[w].run.journal, approval, acted)
  /\ exec[w].pc # "idle" => exec[w].job \in Job /\ queue[exec[w].job].status # "absent"
  /\ exec[w].pc \in ResumePcs => exec[w].job \in Resumes
  /\ exec[w].pc \in {"approved", "resume"} => acted[Resuming(w)] > 0
  /\ exec[w].pc = "commit" =>
       \A p \in 1 .. N + 1 : Reaches(exec[w].run.journal, p) => p \in Step \ Gates

\* Client c works on an approval that was asked, and resumes one it decided.
ClientOK(c) ==
  /\ JournalOK(api[c].run.journal, approval, acted)
  /\ api[c].pc \in DecisionPcs =>
       api[c].approval \in Approval /\ approval[api[c].approval].status # "absent"
  /\ api[c].pc = "resume" => api[c].approval \in decided

\* Only what was asked is decided, only what was decided is executed, and a
\* resume job that exists carries a decision.
Decisions ==
  /\ \A a \in decided : approval[a].status # "absent"
  /\ \A a \in Approval : acted[a] > 0 => a \in decided
  /\ \A j \in Resumes : queue[j].status # "absent" => payload[j] \in decided

IInv == /\ TypeOK /\ Decisions /\ GateHolds
        /\ JournalOK(run.journal, approval, acted)
        /\ \A w \in Worker : WorkerOK(w)
        /\ \A c \in Client : ClientOK(c)
-----------------------------------------------------------------------------
(* Types. *)

\* A request that has been answered leaves its slot as it was at first.
LEMMA IdlesClient ==
  ASSUME TypeOK, NEW c \in Client, api' = [api EXCEPT ![c] = IdleClient]
  PROVE  api' \in [Client -> ClientDoc]
<1>1. IdleClient \in ClientDoc BY EmptyJournalOK DEF IdleClient, ClientDoc
<1> QED BY <1>1 DEF TypeOK

\* A request that moves on keeps a slot of its type.
LEMMA ClientSlot ==
  ASSUME TypeOK, NEW c \in Client, NEW pc \in {"look", "approve", "resume", "load", "reject", "stop"},
         NEW a \in Approval \cup {NoApproval}, NEW r \in RunDoc
  PROVE  /\ [[api EXCEPT ![c].pc = pc] EXCEPT ![c].approval = a] \in [Client -> ClientDoc]
         /\ [[api EXCEPT ![c].pc = pc] EXCEPT ![c].run = r] \in [Client -> ClientDoc]
         /\ [api EXCEPT ![c].pc = pc] \in [Client -> ClientDoc]
<1>1. api \in [Client -> ClientDoc] /\ api[c] \in ClientDoc BY DEF TypeOK
<1>2. [api[c] EXCEPT !.pc = pc] \in ClientDoc BY <1>1 DEF ClientDoc
<1>3. [api EXCEPT ![c].pc = pc] \in [Client -> ClientDoc] BY <1>1, <1>2
<1> DEFINE moved == [api EXCEPT ![c].pc = pc]
<1>4. moved[c] \in ClientDoc BY <1>3
<1> HIDE DEF moved
<1>5. [moved[c] EXCEPT !.approval = a] \in ClientDoc /\ [moved[c] EXCEPT !.run = r] \in ClientDoc
  BY <1>4 DEF ClientDoc
<1>6. moved \in [Client -> ClientDoc] BY <1>3 DEF moved
<1>7. /\ [moved EXCEPT ![c].approval = a] \in [Client -> ClientDoc]
      /\ [moved EXCEPT ![c].run = r] \in [Client -> ClientDoc]
  BY <1>5, <1>6
<1> QED BY <1>3, <1>7 DEF moved

LEMMA ClientTyped ==
  ASSUME TypeOK, NEW c \in Client, ClientOK(c), Ask(c) \/ Serve(c) \/ ClientDies(c) \/ EnqueueRefused(c)
  PROVE  TypeOK'
<1>1. CASE CreateRun(c)
  <2>1. run' \in RunDoc
    BY <1>1, EmptyJournalOK DEF CreateRun, RunDoc, RunStatus
  <2> QED BY <1>1, <2>1 DEF TypeOK, WorkerDoc, ClientDoc, CreateRun
<1>2. CASE EnqueueTurn(c)
  <2>1. queue' \in [Job -> JobDoc]
    BY <1>2, TurnAssumption, EnqueuedPresent DEF EnqueueTurn, TypeOK, Present
  <2>2. api' = [api EXCEPT ![c] = IdleClient] BY <1>2 DEF EnqueueTurn
  <2> QED BY <1>2, <2>1, <2>2, IdlesClient DEF TypeOK, EnqueueTurn
<1>3. ASSUME NEW a \in Approval, BeginApprove(c, a) PROVE TypeOK'
  <2>1. api' \in [Client -> ClientDoc] BY <1>3, ClientSlot DEF BeginApprove, TypeOK
  <2> QED BY <1>3, <2>1 DEF TypeOK, BeginApprove
<1>4. CASE SaveApproving(c)
  <2>1. api[c].approval \in Approval
    BY <1>4 DEF SaveApproving, ClientOK, DecisionPcs
  <2>2. approval' \in [Approval -> ApprovalDoc] /\ decided' \in SUBSET Approval
    BY <1>4, <2>1 DEF SaveApproving, TypeOK, ApprovalDoc
  <2> QED BY <1>4, <2>2 DEF TypeOK, WorkerDoc, ClientDoc, SaveApproving
<1>5. ASSUME NEW j \in Resumes, EnqueueResume(c, j) PROVE TypeOK'
  <2>1. queue' \in [Job -> JobDoc]
    BY <1>5, EnqueuedPresent DEF EnqueueResume, TypeOK, Resumes, Present
  <2>2. payload' \in [Job -> Approval \cup {NoApproval}]
    <3>1. api[c].approval \in Approval \cup {NoApproval} BY DEF TypeOK, WorkerDoc, ClientDoc
    <3> QED BY <1>5, <3>1 DEF EnqueueResume, TypeOK, Resumes
  <2>3. api' = [api EXCEPT ![c] = IdleClient] BY <1>5 DEF EnqueueResume
  <2> QED BY <1>5, <2>1, <2>2, <2>3, IdlesClient DEF TypeOK, EnqueueResume
<1>6. ASSUME NEW a \in Approval, BeginReject(c, a) PROVE TypeOK'
  <2>1. api' \in [Client -> ClientDoc] BY <1>6, ClientSlot DEF BeginReject, TypeOK
  <2> QED BY <1>6, <2>1 DEF TypeOK, BeginReject
<1>7. CASE SaveRejected(c)
  BY <1>7 DEF TypeOK, WorkerDoc, ClientDoc, SaveRejected, ApprovalDoc, ClientOK, DecisionPcs
<1>8. CASE SaveStopped(c)
  <2>1. api[c].approval \in Approval /\ api[c].run.journal \in [Step -> Entry]
    BY <1>8 DEF SaveStopped, TypeOK, WorkerDoc, ClientDoc, RunDoc, ClientOK, DecisionPcs
  <2>2. run' \in RunDoc
    BY <1>8, <2>1, ResolveTyped DEF SaveStopped, RunDoc, RunStatus, Finished
  <2> QED BY <1>8, <2>2, EmptyJournalOK DEF TypeOK, WorkerDoc, ClientDoc, SaveStopped, IdleClient
<1>9. CASE ClientDies(c) \/ EnqueueRefused(c)
  <2>1. api' = [api EXCEPT ![c] = IdleClient] BY <1>9 DEF ClientDies, EnqueueRefused
  <2> QED BY <1>9, <2>1, IdlesClient DEF TypeOK, ClientDies, EnqueueRefused
<1>10. CASE CheckPaused(c)
  <2>1. CASE run.status = "waiting_approval"
    <3>1. api' = [api EXCEPT ![c].pc = "approve"] BY <1>10, <2>1 DEF CheckPaused
    <3>2. api' \in [Client -> ClientDoc] BY <3>1, ClientSlot DEF TypeOK
    <3> QED BY <1>10, <3>2 DEF TypeOK, CheckPaused
  <2>2. CASE run.status # "waiting_approval"
    <3>1. api' = [api EXCEPT ![c] = IdleClient] BY <1>10, <2>2 DEF CheckPaused
    <3> QED BY <1>10, <3>1, IdlesClient DEF TypeOK, CheckPaused
  <2> QED BY <2>1, <2>2
<1>11. CASE LoadRejected(c)
  <2>1. api' \in [Client -> ClientDoc] BY <1>11, ClientSlot DEF LoadRejected, TypeOK
  <2> QED BY <1>11, <2>1 DEF TypeOK, LoadRejected
<1> QED
  BY <1>1, <1>2, <1>3, <1>4, <1>5, <1>6, <1>7, <1>8, <1>9, <1>10, <1>11 DEF Ask, Serve

LEMMA ReapedQueueTyped ==
  ASSUME queue \in [Job -> JobDoc]
  PROVE  /\ ReapedQueue \in [Job -> JobDoc]
         /\ \A j \in Job : queue[j].status # "absent" => Present(ReapedQueue[j])
         /\ \A j \in Job : queue[j].status = "absent" => ReapedQueue[j] = queue[j]
<1> SUFFICES ASSUME NEW j \in Job
             PROVE  /\ ReapedQueue[j] \in JobDoc
                    /\ queue[j].status # "absent" => Present(ReapedQueue[j])
                    /\ queue[j].status = "absent" => ReapedQueue[j] = queue[j]
  BY DEF ReapedQueue
<1>1. CASE ExpiredLease(queue[j])
  BY <1>1, DocumentOps DEF ReapedQueue, ExpiredLease, Present, JobDoc, Status
<1>2. CASE ~ExpiredLease(queue[j])
  BY <1>2 DEF ReapedQueue, Present
<1> QED BY <1>1, <1>2

\* Every step on the queue leaves it well typed, and neither loses nor makes a job.
QueueKept == /\ queue' \in [Job -> JobDoc]
             /\ \A j \in Job : queue[j].status # "absent" <=> queue'[j].status # "absent"

LEMMA QueueSteps ==
  ASSUME TypeOK, \A w \in Worker : WorkerOK(w)
  PROVE  /\ \A w \in Worker, j \in Job : Claim(w, j) => QueueKept
         /\ \A w \in Worker : ClaimNothing(w) => QueueKept
         /\ \A w \in Worker : exec[w].pc # "idle" /\ ReportFailed(w) => QueueKept
         /\ \A w \in Worker : Report(w) => QueueKept
         /\ \A j \in Job : LeaseRunsOut(j) \/ BecomesDue(j) => QueueKept
         /\ \A w \in Worker, j \in Job : Claim(w, j) => queue'[j].status # "absent"
<1>1. queue \in [Job -> JobDoc] BY DEF TypeOK
<1>2. ASSUME NEW j \in Job, NEW d, Present(queue[j]) => Present(d), Present(queue[j]),
             queue' = [queue EXCEPT ![j] = d]
      PROVE  QueueKept
  BY <1>1, <1>2 DEF QueueKept, Present
<1>3. ASSUME NEW w \in Worker, NEW j \in Job, Claim(w, j)
      PROVE  QueueKept /\ queue'[j].status # "absent"
  <2>1. Present(ReapedQueue[j])
    BY <1>1, <1>3, ReapedQueueTyped DEF Claim, Due, Present
  <2>2. Present(Claimed(ReapedQueue[j], w))
    BY <2>1, ClaimedPresent
  <2>3. queue[j].status # "absent"
    BY <1>1, <1>3, ReapedQueueTyped DEF Claim, Due
  <2>4. queue' = [ReapedQueue EXCEPT ![j] = Claimed(ReapedQueue[j], w)]
    BY <1>3 DEF Claim
  <2>5. /\ ReapedQueue \in [Job -> JobDoc]
        /\ \A k \in Job : queue[k].status # "absent" <=> ReapedQueue[k].status # "absent"
    BY <1>1, ReapedQueueTyped DEF Present
  <2> QED BY <2>2, <2>3, <2>4, <2>5 DEF QueueKept, Present
<1>4. ASSUME NEW w \in Worker, ClaimNothing(w) PROVE QueueKept
  BY <1>1, <1>4, ReapedQueueTyped DEF ClaimNothing, QueueKept, Present
<1>5. ASSUME NEW w \in Worker, exec[w].pc # "idle"
      PROVE  exec[w].job \in Job /\ Present(queue[exec[w].job])
  BY <1>1, <1>5 DEF WorkerOK, Present
<1>6. ASSUME NEW w \in Worker, exec[w].pc # "idle", ReportFailed(w) PROVE QueueKept
  BY <1>1, <1>2, <1>5, <1>6, DocumentOps DEF ReportFailed, QueueKept
<1>7. ASSUME NEW w \in Worker, Report(w) PROVE QueueKept
  BY <1>1, <1>2, <1>5, <1>7, DocumentOps DEF Report, QueueKept
<1>8. ASSUME NEW j \in Job, LeaseRunsOut(j) \/ BecomesDue(j) PROVE QueueKept
  BY <1>1, <1>8 DEF LeaseRunsOut, BecomesDue, QueueKept, JobDoc, Status
<1> QED BY <1>3, <1>4, <1>6, <1>7, <1>8

\* What a step writes into worker w's slot, and what stays.
LEMMA WorkerSlot ==
  ASSUME TypeOK, NEW w \in Worker, NEW r \in RunDoc,
         NEW pc \in {"adopt", "check", "load", "act", "approved", "resume", "handler", "commit",
                     "ask", "settle", "report"},
         Goes(w, pc, r)
  PROVE  exec' \in [Worker -> WorkerDoc]
<1> DEFINE s == [exec[w] EXCEPT !.pc = pc, !.run = r]
<1>1. exec \in [Worker -> WorkerDoc] /\ exec[w] \in WorkerDoc BY DEF TypeOK
<1>2. s \in WorkerDoc BY <1>1 DEF WorkerDoc
<1>3. exec' = [exec EXCEPT ![w] = s] BY <1>1 DEF Goes
<1> HIDE DEF s
<1> QED BY <1>1, <1>2, <1>3

LEMMA WorkerTyped ==
  ASSUME TypeOK, Decisions, \A v \in Worker : WorkerOK(v), NEW w \in Worker,
         Poll(w) \/ Work(w) \/ Fails(w) \/ WorkerDies(w) \/ WorkRaises(w)
  PROVE  TypeOK'
<1> DEFINE ExecOK == exec' \in [Worker -> WorkerDoc]
<1>1. IdlesWorker(w) => ExecOK
  BY EmptyJournalOK DEF IdlesWorker, IdleWorker, TypeOK, WorkerDoc, ClientDoc
<1>2. exec[w].run \in RunDoc /\ exec[w].run.journal \in [Step -> Entry]
  BY DEF TypeOK, WorkerDoc, ClientDoc, RunDoc
<1>3. exec[w].pc \in ResumePcs =>
        exec[w].job \in Job /\ Resuming(w) \in Approval /\ payload[exec[w].job] \in decided
  BY DEF WorkerOK, Decisions, Resumes, Resuming, ResumePcs, TypeOK
<1>4. ASSUME NEW j \in Job, Claim(w, j) PROVE TypeOK'
  <2> DEFINE pc == IF j = Turn THEN "adopt" ELSE "check"
  <2>1. exec' = [exec EXCEPT ![w] = [exec[w] EXCEPT !.pc = pc, !.job = j]]
    BY <1>4 DEF Claim, TypeOK
  <2>2. exec[w] \in [pc : {"idle", "adopt", "check", "load", "act", "approved", "resume",
                           "handler", "commit", "ask", "settle", "report"},
                     job: Job \cup {NoJob}, run: RunDoc]
    BY DEF TypeOK, WorkerDoc, ClientDoc
  <2>3. ExecOK
    BY <2>1, <2>2 DEF TypeOK, WorkerDoc, ClientDoc
  <2> QED BY <1>4, <2>3, QueueSteps DEF Claim, TypeOK, WorkerDoc, ClientDoc, QueueKept
<1>5. CASE ClaimNothing(w)
  BY <1>5, QueueSteps DEF ClaimNothing, TypeOK, QueueKept
<1>6. CASE exec[w].pc # "idle" /\ ReportFailed(w)
  BY <1>1, <1>6, QueueSteps DEF ReportFailed, TypeOK, WorkerDoc, ClientDoc, QueueKept
<1>7. CASE Report(w)
  BY <1>1, <1>7, QueueSteps DEF Report, TypeOK, WorkerDoc, ClientDoc, QueueKept
<1>8. CASE WorkerDies(w)
  BY <1>1, <1>8 DEF WorkerDies, TypeOK, WorkerDoc, ClientDoc
<1>9. CASE Adopt(w)
  <2>1. run' \in RunDoc
    BY <1>9, EmptyJournalOK DEF Adopt, RunDoc, RunStatus
  <2> QED BY <1>9, <2>1, WorkerSlot DEF Adopt, TypeOK
<1>10. CASE CheckApproval(w) \/ LoadPaused(w)
  BY <1>2, <1>10, WorkerSlot DEF CheckApproval, LoadPaused, TypeOK
<1>11. CASE Act(w)
  <2>1. acted' \in [Approval -> Nat]
    BY <1>3, <1>11 DEF Act, ResumePcs, TypeOK
  <2>2. ExecOK
    BY <1>2, <1>11, WorkerSlot DEF Act
  <2> QED BY <1>11, <2>1, <2>2 DEF Act, TypeOK
<1>12. CASE SaveApproved(w)
  <2>1. approval' \in [Approval -> ApprovalDoc]
    BY <1>3, <1>12 DEF SaveApproved, ResumePcs, TypeOK, ApprovalDoc
  <2>2. ExecOK
    BY <1>2, <1>12, WorkerSlot DEF SaveApproved
  <2> QED BY <1>12, <2>1, <2>2 DEF SaveApproved, TypeOK
<1>13. CASE SaveResumed(w)
  <2>1. run' \in RunDoc
    BY <1>2, <1>3, <1>13, ResolveTyped DEF SaveResumed, ResumePcs, RunDoc, RunStatus
  <2> QED BY <1>13, <2>1, WorkerSlot DEF SaveResumed, TypeOK
<1>14. ASSUME NEW p \in Step, RunStep(w, p) PROVE TypeOK'
  <2>1. ran' \in [Step -> Nat]
    BY <1>14 DEF RunStep, TypeOK
  <2>2. ExecOK
    BY <1>2, <1>14, WorkerSlot DEF RunStep
  <2> QED BY <1>14, <2>1, <2>2 DEF RunStep, TypeOK
<1>15. ASSUME NEW p \in Step, CommitStep(w, p) PROVE TypeOK'
  <2>1. run' \in RunDoc
    BY <1>2, <1>15 DEF CommitStep, RunDoc, Entry
  <2> QED BY <1>15, <2>1, WorkerSlot DEF CommitStep, TypeOK
<1>16. ASSUME NEW p \in Gates, NEW a \in Approval, AskApproval(w, p, a) PROVE TypeOK'
  <2>1. p \in Step /\ p \in 0 .. N
    BY HandlerAssumption DEF Step
  <2>2. approval' \in [Approval -> ApprovalDoc]
    BY <1>16, <2>1 DEF AskApproval, TypeOK, ApprovalDoc
  <2>3. ExecOK
    BY <1>2, <1>16, <2>1, WorkerSlot DEF AskApproval, RunDoc, RunStatus, Entry
  <2> QED BY <1>16, <2>2, <2>3 DEF AskApproval, TypeOK
<1>17. CASE SavePause(w) \/ Settle(w)
  BY <1>2, <1>17, WorkerSlot DEF SavePause, Settle, TypeOK
<1>18. ASSUME NEW p \in Step,
              PauseAgain(w, p) \/ HandlerRaises(w) \/ HandlerReturns(w)
       PROVE  TypeOK'
  <2>1. PICK status \in {"waiting_approval", "failed", "completed"} : Leave(w, status)
    BY <1>18 DEF PauseAgain, HandlerRaises, HandlerReturns
  <2>2. ExecOK
    BY <1>2, <2>1, WorkerSlot DEF Leave, RunDoc, RunStatus, Finished
  <2> QED BY <2>1, <2>2 DEF Leave, TypeOK
<1>19. ASSUME RefuseResume(w) \/ ActFails(w) \/ WorkRaises(w) PROVE TypeOK'
  BY <1>6, <1>19 DEF RefuseResume, ActFails, WorkRaises
<1>20. 1 \in Step BY HandlerAssumption DEF Step
<1> QED
  BY <1>4, <1>5, <1>7, <1>8, <1>9, <1>10, <1>11, <1>12, <1>13, <1>14, <1>15, <1>16, <1>17,
     <1>18, <1>19, <1>20
     DEF Poll, Work, Drive, Resume, Fails, Step
-----------------------------------------------------------------------------
(* What every step keeps for the processes that do not take it. *)

StepKeeps ==
  /\ Monotone(approval, approval', acted, acted')
  /\ decided \subseteq decided'
  /\ \A j \in Job : queue[j].status # "absent" =>
       queue'[j].status # "absent" /\ payload'[j] = payload[j]

LEMMA ResumingDecided ==
  ASSUME TypeOK, Decisions, NEW w \in Worker, WorkerOK(w), exec[w].pc \in ResumePcs
  PROVE  /\ exec[w].job \in Resumes /\ queue[exec[w].job].status # "absent"
         /\ Resuming(w) \in decided /\ Resuming(w) \in Approval
BY DEF WorkerOK, Decisions, Resumes, Resuming, ResumePcs, TypeOK

LEMMA WorkerStays ==
  ASSUME TypeOK, Decisions, NEW w \in Worker, WorkerOK(w), StepKeeps, exec'[w] = exec[w]
  PROVE  WorkerOK(w)'
<1>1. JournalOK(exec[w].run.journal, approval', acted')
  BY JournalStays DEF WorkerOK, StepKeeps
<1>2. exec[w].pc \in {"approved", "resume"} => acted'[payload'[exec[w].job]] > 0
  BY ResumingDecided DEF WorkerOK, StepKeeps, Monotone, ResumePcs, Resuming, Resumes
<1> QED BY <1>1, <1>2 DEF WorkerOK, StepKeeps, Resuming

LEMMA ClientStays ==
  ASSUME TypeOK, NEW c \in Client, ClientOK(c), StepKeeps, api'[c] = api[c]
  PROVE  ClientOK(c)'
<1>1. JournalOK(api[c].run.journal, approval', acted')
  BY JournalStays DEF ClientOK, StepKeeps
<1> QED BY <1>1 DEF ClientOK, StepKeeps, Monotone

LEMMA GateHoldsStays ==
  ASSUME TypeOK, Decisions, GateHolds, StepKeeps, ran' = ran
  PROVE  GateHolds'
<1> SUFFICES ASSUME NEW p \in Step, ran[p] > 0, NEW g \in Gates, g < p
             PROVE  \E a \in decided' : approval'[a].gate = g /\ acted'[a] > 0
  BY DEF GateHolds
<1>1. PICK a \in decided : approval[a].gate = g /\ acted[a] > 0
  BY DEF GateHolds
<1>2. a \in Approval /\ approval[a].status # "absent"
  BY DEF TypeOK, Decisions
<1> QED BY <1>1, <1>2 DEF StepKeeps, Monotone
-----------------------------------------------------------------------------
(* Every step keeps the invariant. *)

\* A step that only clients and the store take part in.
LEMMA ByClient ==
  ASSUME IInv, NEW c \in Client, TypeOK', StepKeeps, ran' = ran, exec' = exec,
         \A d \in Client \ {c} : api'[d] = api[d],
         ClientOK(c)', Decisions', JournalOK(run'.journal, approval', acted')
  PROVE  IInv'
<1>1. \A w \in Worker : WorkerOK(w)'
  BY WorkerStays DEF IInv
<1>2. ASSUME NEW d \in Client PROVE ClientOK(d)'
  BY ClientStays DEF IInv
<1>3. GateHolds'
  BY GateHoldsStays DEF IInv
<1> QED BY <1>1, <1>2, <1>3 DEF IInv

LEMMA ClientKeeps ==
  ASSUME IInv, NEW c \in Client, Ask(c) \/ Serve(c) \/ ClientDies(c) \/ EnqueueRefused(c)
  PROVE  IInv'
<1>1. TypeOK'
  BY ClientTyped DEF IInv
<1>2. JournalOK(EmptyJournal, approval', acted') /\ JournalOK(AbsentRun.journal, approval', acted')
  BY EmptyJournalOK DEF AbsentRun
<1>3. JournalOK(run.journal, approval, acted) /\ JournalOK(api[c].run.journal, approval, acted)
  BY DEF IInv, ClientOK
<1>4. CASE CreateRun(c)
  <2>1. StepKeeps /\ Decisions' /\ ClientOK(c)'
    BY <1>3, <1>4 DEF CreateRun, StepKeeps, Monotone, IInv, TypeOK, Decisions, ClientOK, DecisionPcs
  <2>2. JournalOK(run'.journal, approval', acted')
    BY <1>2, <1>4 DEF CreateRun
  <2> QED BY <1>1, <1>4, <2>1, <2>2, ByClient DEF CreateRun
<1>5. CASE EnqueueTurn(c)
  <2>1. queue'[Turn].status # "absent"
    BY <1>5, EnqueuedPresent, TurnAssumption DEF EnqueueTurn, Present, IInv, TypeOK
  <2>2. StepKeeps
    BY <1>5, <2>1 DEF EnqueueTurn, StepKeeps, Monotone, IInv, TypeOK
  <2>3. Decisions'
    BY <1>5, <2>1 DEF EnqueueTurn, IInv, TypeOK, Decisions, Resumes
  <2>4. ClientOK(c)'
    BY <1>2, <1>5 DEF EnqueueTurn, IInv, TypeOK, ClientOK, DecisionPcs, IdleClient
  <2> QED BY <1>1, <1>3, <1>5, <2>2, <2>3, <2>4, ByClient DEF EnqueueTurn
<1>6. ASSUME NEW a \in Approval, BeginApprove(c, a) PROVE IInv'
  <2>1. StepKeeps /\ Decisions'
    BY <1>6 DEF BeginApprove, StepKeeps, Monotone, IInv, TypeOK, Decisions
  <2>2. ClientOK(c)'
    BY <1>3, <1>6 DEF BeginApprove, IInv, TypeOK, ClientOK, DecisionPcs
  <2>3. \A d \in Client \ {c} : api'[d] = api[d]
    BY <1>6 DEF BeginApprove, IInv, TypeOK
  <2> QED BY <1>1, <1>3, <1>6, <2>1, <2>2, <2>3, ByClient DEF BeginApprove
<1>7. CASE SaveApproving(c)
  <2> DEFINE a == api[c].approval
  <2>1. a \in Approval /\ approval[a].status # "absent"
    BY <1>7 DEF SaveApproving, IInv, ClientOK, DecisionPcs
  <2>2. StepKeeps
    BY <1>7, <2>1 DEF SaveApproving, StepKeeps, Monotone, IInv, TypeOK, ApprovalDoc
  <2>3. \A b \in Approval : approval[b].status # "absent" => approval'[b].status # "absent"
    BY <2>2 DEF StepKeeps, Monotone
  <2>4. Decisions'
    BY <1>7, <2>1, <2>3 DEF SaveApproving, IInv, TypeOK, Decisions
  <2>5. JournalOK(run'.journal, approval', acted') /\ JournalOK(api'[c].run.journal, approval', acted')
    BY <1>3, <1>7, <2>2, JournalStays DEF SaveApproving, StepKeeps, IInv, TypeOK
  <2>6. ClientOK(c)'
    BY <1>7, <2>1, <2>3, <2>5 DEF SaveApproving, IInv, TypeOK, ClientOK
  <2>7. \A d \in Client \ {c} : api'[d] = api[d]
    BY <1>7 DEF SaveApproving, IInv, TypeOK
  <2> QED BY <1>1, <1>7, <2>2, <2>4, <2>5, <2>6, <2>7, ByClient DEF SaveApproving
<1>8. ASSUME NEW j \in Resumes, EnqueueResume(c, j) PROVE IInv'
  <2>1. queue'[j].status # "absent" /\ payload'[j] \in decided
    BY <1>8, EnqueuedPresent DEF EnqueueResume, Present, IInv, TypeOK, ClientOK, Resumes
  <2>2. StepKeeps
    BY <1>8, <2>1 DEF EnqueueResume, StepKeeps, Monotone, IInv, TypeOK
  <2>3. Decisions'
    BY <1>8, <2>1 DEF EnqueueResume, IInv, TypeOK, Decisions, Resumes
  <2>4. ClientOK(c)'
    BY <1>2, <1>8 DEF EnqueueResume, IInv, TypeOK, ClientOK, DecisionPcs, IdleClient
  <2> QED BY <1>1, <1>3, <1>8, <2>2, <2>3, <2>4, ByClient DEF EnqueueResume
<1>9. ASSUME NEW a \in Approval, BeginReject(c, a) PROVE IInv'
  <2>1. StepKeeps /\ Decisions'
    BY <1>9 DEF BeginReject, StepKeeps, Monotone, IInv, TypeOK, Decisions
  <2>2. ClientOK(c)'
    BY <1>3, <1>9 DEF BeginReject, Open, IInv, TypeOK, ClientOK, DecisionPcs
  <2>3. \A d \in Client \ {c} : api'[d] = api[d]
    BY <1>9 DEF BeginReject, IInv, TypeOK
  <2> QED BY <1>1, <1>3, <1>9, <2>1, <2>2, <2>3, ByClient DEF BeginReject
<1>10. CASE SaveRejected(c)
  <2> DEFINE a == api[c].approval
  <2>1. a \in Approval /\ approval[a].status # "absent"
    BY <1>10 DEF SaveRejected, IInv, ClientOK, DecisionPcs
  <2>2. StepKeeps
    BY <1>10, <2>1 DEF SaveRejected, StepKeeps, Monotone, IInv, TypeOK, ApprovalDoc
  <2>3. \A b \in Approval : approval[b].status # "absent" => approval'[b].status # "absent"
    BY <2>2 DEF StepKeeps, Monotone
  <2>4. Decisions'
    BY <1>10, <2>3 DEF SaveRejected, IInv, TypeOK, Decisions
  <2>5. JournalOK(run'.journal, approval', acted') /\ JournalOK(api'[c].run.journal, approval', acted')
    BY <1>3, <1>10, <2>2, JournalStays DEF SaveRejected, StepKeeps, IInv, TypeOK
  <2>6. ClientOK(c)'
    BY <1>10, <2>1, <2>3, <2>5 DEF SaveRejected, IInv, TypeOK, ClientOK
  <2>7. \A d \in Client \ {c} : api'[d] = api[d]
    BY <1>10 DEF SaveRejected, IInv, TypeOK
  <2> QED BY <1>1, <1>10, <2>2, <2>4, <2>5, <2>6, <2>7, ByClient DEF SaveRejected
<1>11. CASE SaveStopped(c)
  <2>1. api[c].approval \in Approval /\ api[c].run.journal \in [Step -> Entry]
    BY <1>11 DEF SaveStopped, IInv, TypeOK, WorkerDoc, ClientDoc, RunDoc, ClientOK, DecisionPcs
  <2>2. JournalOK(run'.journal, approval', acted')
    BY <1>3, <1>11, <2>1, ResolveOK DEF SaveStopped
  <2>3. StepKeeps /\ Decisions'
    BY <1>11 DEF SaveStopped, StepKeeps, Monotone, IInv, TypeOK, Decisions
  <2>4. ClientOK(c)'
    BY <1>2, <1>11 DEF SaveStopped, IInv, TypeOK, ClientOK, DecisionPcs, IdleClient
  <2> QED BY <1>1, <1>11, <2>2, <2>3, <2>4, ByClient DEF SaveStopped
<1>12. CASE ClientDies(c) \/ EnqueueRefused(c)
  <2>1. StepKeeps /\ Decisions'
    BY <1>12 DEF ClientDies, EnqueueRefused, StepKeeps, Monotone, IInv, TypeOK, Decisions
  <2>2. ClientOK(c)'
    BY <1>2, <1>12
       DEF ClientDies, EnqueueRefused, IInv, TypeOK, ClientOK, DecisionPcs, IdleClient
  <2>3. \A d \in Client \ {c} : api'[d] = api[d]
    BY <1>12 DEF ClientDies, EnqueueRefused, IInv, TypeOK
  <2> QED BY <1>1, <1>3, <1>12, <2>1, <2>2, <2>3, ByClient DEF ClientDies, EnqueueRefused
<1>13. CASE CheckPaused(c)
  <2>1. StepKeeps /\ Decisions'
    BY <1>13 DEF CheckPaused, StepKeeps, Monotone, IInv, TypeOK, Decisions
  <2>2. ClientOK(c)'
    BY <1>2, <1>3, <1>13 DEF CheckPaused, IInv, TypeOK, ClientOK, DecisionPcs, IdleClient
  <2>3. \A d \in Client \ {c} : api'[d] = api[d]
    BY <1>13 DEF CheckPaused, IInv, TypeOK
  <2> QED BY <1>1, <1>3, <1>13, <2>1, <2>2, <2>3, ByClient DEF CheckPaused
<1>14. CASE LoadRejected(c)
  <2>1. StepKeeps /\ Decisions'
    BY <1>14 DEF LoadRejected, StepKeeps, Monotone, IInv, TypeOK, Decisions
  <2>2. ClientOK(c)'
    BY <1>3, <1>14 DEF LoadRejected, IInv, TypeOK, ClientOK, DecisionPcs
  <2>3. \A d \in Client \ {c} : api'[d] = api[d]
    BY <1>14 DEF LoadRejected, IInv, TypeOK
  <2> QED BY <1>1, <1>3, <1>14, <2>1, <2>2, <2>3, ByClient DEF LoadRejected
<1> QED
  BY <1>4, <1>5, <1>6, <1>7, <1>8, <1>9, <1>10, <1>11, <1>12, <1>13, <1>14 DEF Ask, Serve

\* A step of one worker that no client takes part in.
LEMMA ByWorker ==
  ASSUME IInv, NEW w \in Worker, TypeOK', StepKeeps, api' = api,
         \A v \in Worker \ {w} : exec'[v] = exec[v],
         WorkerOK(w)', Decisions', JournalOK(run'.journal, approval', acted'),
         GateHolds'
  PROVE  IInv'
<1>1. ASSUME NEW v \in Worker PROVE WorkerOK(v)'
  BY WorkerStays DEF IInv
<1>2. ASSUME NEW c \in Client PROVE ClientOK(c)'
  BY ClientStays DEF IInv
<1> QED BY <1>1, <1>2 DEF IInv

\* What holds of worker w when it moves on with this copy of the run.
LEMMA MovesOn ==
  ASSUME IInv, NEW w \in Worker, NEW pc, NEW r, Goes(w, pc, r), StepKeeps,
         JournalOK(r.journal, approval', acted'),
         exec[w].pc # "idle",
         pc \in ResumePcs => exec[w].pc \in ResumePcs,
         pc \in {"approved", "resume"} => acted'[Resuming(w)] > 0,
         pc = "commit" =>
           \A p \in 1 .. N + 1 : Reaches(r.journal, p) => p \in Step \ Gates
  PROVE  WorkerOK(w)' /\ \A v \in Worker \ {w} : exec'[v] = exec[v]
<1>1. exec'[w].pc = pc /\ exec'[w].run = r /\ exec'[w].job = exec[w].job
  BY DEF Goes, IInv, TypeOK
<1>2. exec[w].job \in Job /\ queue'[exec[w].job].status # "absent"
      /\ payload'[exec[w].job] = payload[exec[w].job]
  BY DEF IInv, WorkerOK, StepKeeps
<1>3. pc \in ResumePcs => exec[w].job \in Resumes
  BY DEF IInv, WorkerOK
<1>4. WorkerOK(w)'
  BY <1>1, <1>2, <1>3 DEF WorkerOK, Resuming
<1>5. \A v \in Worker \ {w} : exec'[v] = exec[v]
  BY DEF Goes, IInv, TypeOK
<1> QED BY <1>4, <1>5

LEMMA GoesIdle ==
  ASSUME IInv, NEW w \in Worker, IdlesWorker(w)
  PROVE  WorkerOK(w)' /\ \A v \in Worker \ {w} : exec'[v] = exec[v]
<1>1. exec'[w] = IdleWorker /\ \A v \in Worker \ {w} : exec'[v] = exec[v]
  BY DEF IdlesWorker, IInv, TypeOK
<1>2. JournalOK(AbsentRun.journal, approval', acted')
  BY EmptyJournalOK DEF AbsentRun
<1> QED BY <1>1, <1>2 DEF WorkerOK, IdleWorker, ResumePcs

\* A step that only the queue and one worker's slot take part in.
LEMMA QueueOnly ==
  ASSUME IInv, QueueKept,
         UNCHANGED <<run, approval, payload, ran, acted, decided>>
  PROVE  /\ StepKeeps /\ Decisions' /\ GateHolds'
         /\ JournalOK(run'.journal, approval', acted')
<1>1. StepKeeps
  BY DEF QueueKept, StepKeeps, Monotone
<1>2. Decisions'
  BY DEF IInv, Decisions, Resumes, QueueKept
<1> QED BY <1>1, <1>2, GateHoldsStays DEF IInv

LEMMA WorkerKeeps ==
  ASSUME IInv, NEW w \in Worker, Poll(w) \/ Work(w) \/ Fails(w) \/ WorkerDies(w) \/ WorkRaises(w)
  PROVE  IInv'
<1>1. TypeOK'
  BY WorkerTyped DEF IInv
<1>2. /\ JournalOK(run.journal, approval, acted)
      /\ JournalOK(exec[w].run.journal, approval, acted)
      /\ exec[w].run \in RunDoc /\ exec[w].run.journal \in [Step -> Entry]
  BY DEF IInv, WorkerOK, TypeOK, WorkerDoc, ClientDoc, RunDoc
<1>3. exec[w].pc \in ResumePcs => /\ Resuming(w) \in decided /\ Resuming(w) \in Approval
                                  /\ approval[Resuming(w)].status # "absent"
  BY ResumingDecided DEF IInv, Decisions
<1>4. ASSUME UNCHANGED <<approval, queue, payload, acted, decided>>
      PROVE  StepKeeps /\ Decisions'
  BY <1>4 DEF StepKeeps, Monotone, Decisions, IInv
<1>5. ASSUME NEW j \in Job, Claim(w, j) PROVE IInv'
  <2>1. QueueKept
    BY <1>5, QueueSteps DEF IInv
  <2>2. /\ StepKeeps /\ Decisions' /\ GateHolds'
        /\ JournalOK(run'.journal, approval', acted')
    BY <1>5, <2>1, QueueOnly DEF Claim
  <2>3. /\ exec'[w].pc = (IF j = Turn THEN "adopt" ELSE "check")
        /\ exec'[w].job = j /\ exec'[w].run = exec[w].run
    BY <1>5 DEF Claim, IInv, TypeOK
  <2>4. queue'[j].status # "absent"
    BY <1>5, QueueSteps DEF IInv
  <2>5. WorkerOK(w)'
    BY <1>2, <1>5, <2>3, <2>4 DEF Claim, WorkerOK, ResumePcs, Resumes
  <2>6. \A v \in Worker \ {w} : exec'[v] = exec[v]
    BY <1>5 DEF Claim, IInv, TypeOK
  <2> QED BY <1>1, <1>5, <2>2, <2>5, <2>6, ByWorker DEF Claim
<1>6. CASE ClaimNothing(w)
  <2>1. /\ StepKeeps /\ Decisions' /\ GateHolds'
        /\ JournalOK(run'.journal, approval', acted')
    BY <1>6, QueueSteps, QueueOnly DEF ClaimNothing, IInv
  <2>2. WorkerOK(w)'
    BY <1>6, <2>1, WorkerStays DEF ClaimNothing, IInv
  <2> QED BY <1>1, <1>6, <2>1, <2>2, ByWorker DEF ClaimNothing
<1>7. CASE RefuseResume(w) \/ ActFails(w) \/ WorkRaises(w) \/ Report(w)
  <2>1. QueueKept
    BY <1>7, QueueSteps DEF RefuseResume, ActFails, WorkRaises, Report, IInv
  <2>2. UNCHANGED <<run, approval, payload, api, ran, acted, decided>> /\ IdlesWorker(w)
    BY <1>7 DEF RefuseResume, ActFails, WorkRaises, Report, ReportFailed
  <2> QED BY <1>1, <2>1, <2>2, QueueOnly, GoesIdle, ByWorker
<1>8. CASE WorkerDies(w)
  <2>1. StepKeeps /\ Decisions' /\ GateHolds'
    BY <1>4, <1>8, GateHoldsStays DEF WorkerDies, IInv
  <2> QED BY <1>1, <1>2, <1>8, <2>1, GoesIdle, ByWorker DEF WorkerDies
<1>9. CASE Adopt(w)
  <2>1. StepKeeps /\ Decisions' /\ GateHolds'
    BY <1>4, <1>9, GateHoldsStays DEF Adopt, IInv
  <2>2. JournalOK(run'.journal, approval', acted')
    BY <1>9, EmptyJournalOK DEF Adopt
  <2>3. WorkerOK(w)' /\ \A v \in Worker \ {w} : exec'[v] = exec[v]
    BY <1>9, <2>1, <2>2, MovesOn DEF Adopt, ResumePcs
  <2> QED BY <1>1, <1>9, <2>1, <2>2, <2>3, ByWorker DEF Adopt
<1>10. CASE CheckApproval(w) \/ LoadPaused(w)
  <2>1. StepKeeps /\ Decisions' /\ GateHolds'
    BY <1>4, <1>10, GateHoldsStays DEF CheckApproval, LoadPaused, IInv
  <2>2. JournalOK(run.journal, approval', acted') /\ JournalOK(exec[w].run.journal, approval', acted')
    BY <1>2, <1>10 DEF CheckApproval, LoadPaused
  <2>3. WorkerOK(w)' /\ \A v \in Worker \ {w} : exec'[v] = exec[v]
    BY <1>10, <2>1, <2>2, MovesOn DEF CheckApproval, LoadPaused, ResumePcs
  <2> QED BY <1>1, <1>2, <1>10, <2>1, <2>3, ByWorker DEF CheckApproval, LoadPaused
<1>11. CASE Act(w)
  <2>1. Resuming(w) \in decided /\ acted'[Resuming(w)] > 0
    BY <1>3, <1>11 DEF Act, ResumePcs, IInv, TypeOK
  <2>2. StepKeeps
    BY <1>11 DEF Act, StepKeeps, Monotone, IInv, TypeOK
  <2>3. Decisions'
    BY <1>11, <2>1 DEF Act, Decisions, IInv, TypeOK
  <2>4. GateHolds'
    BY <1>11, <2>2, GateHoldsStays DEF Act, IInv
  <2>5. JournalOK(run.journal, approval', acted') /\ JournalOK(exec[w].run.journal, approval', acted')
    BY <1>2, <2>2, JournalStays DEF StepKeeps
  <2>6. WorkerOK(w)' /\ \A v \in Worker \ {w} : exec'[v] = exec[v]
    BY <1>11, <2>1, <2>2, <2>5, MovesOn DEF Act, ResumePcs
  <2> QED BY <1>1, <1>11, <2>2, <2>3, <2>4, <2>5, <2>6, ByWorker DEF Act
<1>12. CASE SaveApproved(w)
  <2>1. StepKeeps
    BY <1>12 DEF SaveApproved, StepKeeps, Monotone, IInv, TypeOK, ApprovalDoc
  <2>2. Decisions'
    BY <1>12, <2>1 DEF SaveApproved, StepKeeps, Monotone, Decisions, IInv, TypeOK
  <2>3. GateHolds'
    BY <1>12, <2>1, GateHoldsStays DEF SaveApproved, IInv
  <2>4. JournalOK(run.journal, approval', acted') /\ JournalOK(exec[w].run.journal, approval', acted')
    BY <1>2, <2>1, JournalStays DEF StepKeeps
  <2>5. acted'[Resuming(w)] > 0
    BY <1>12 DEF SaveApproved, IInv, WorkerOK
  <2>6. WorkerOK(w)' /\ \A v \in Worker \ {w} : exec'[v] = exec[v]
    BY <1>12, <2>1, <2>4, <2>5, MovesOn DEF SaveApproved, ResumePcs
  <2> QED BY <1>1, <1>12, <2>1, <2>2, <2>3, <2>4, <2>6, ByWorker DEF SaveApproved
<1>13. CASE SaveResumed(w)
  <2>1. StepKeeps /\ Decisions' /\ GateHolds'
    BY <1>4, <1>13, GateHoldsStays DEF SaveResumed, IInv
  <2>2. JournalOK(run'.journal, approval', acted')
    BY <1>2, <1>3, <1>13, ResolveOK DEF SaveResumed, ResumePcs, IInv, WorkerOK
  <2>3. WorkerOK(w)' /\ \A v \in Worker \ {w} : exec'[v] = exec[v]
    BY <1>13, <2>1, <2>2, MovesOn DEF SaveResumed, ResumePcs
  <2> QED BY <1>1, <1>13, <2>1, <2>2, <2>3, ByWorker DEF SaveResumed
<1>14. ASSUME NEW p \in Step, RunStep(w, p) PROVE IInv'
  <2>1. StepKeeps /\ Decisions'
    BY <1>4, <1>14 DEF RunStep
  <2>2. Reaches(exec[w].run.journal, p) /\ p \in Step \ Gates
    BY <1>14 DEF RunStep, At
  <2>3. WorkerOK(w)' /\ \A v \in Worker \ {w} : exec'[v] = exec[v]
    BY <1>2, <1>14, <2>1, <2>2, ReachesOne, MovesOn DEF RunStep, At, ResumePcs
  <2>4. ASSUME NEW g \in Gates, g < p
        PROVE  \E a \in decided : approval[a].gate = g /\ acted[a] > 0
    <3>1. g \in Step /\ g \in 1 .. (p - 1)
      BY <2>4, HandlerAssumption DEF Step
    <3>2. exec[w].run.journal[g].status = "approved"
      BY <1>2, <2>2, <3>1 DEF Reaches, Memoized, JournalOK
    <3> QED BY <1>2, <3>1, <3>2 DEF JournalOK, IInv, Decisions
  <2>5. \A q \in Step : q # p => ran'[q] = ran[q]
    BY <1>14 DEF RunStep, IInv, TypeOK
  <2>6. GateHolds'
    BY <1>14, <2>4, <2>5 DEF GateHolds, RunStep, IInv
  <2> QED BY <1>1, <1>2, <1>14, <2>1, <2>3, <2>6, ByWorker DEF RunStep
<1>15. ASSUME NEW p \in Step, CommitStep(w, p) PROVE IInv'
  <2>1. StepKeeps /\ Decisions' /\ GateHolds'
    BY <1>4, <1>15, GateHoldsStays DEF CommitStep, IInv
  <2>2. p \in Step \ Gates
    BY <1>15 DEF CommitStep, IInv, WorkerOK, Reaches
  <2>3. run'.journal = [exec[w].run.journal EXCEPT ![p] =
                          [status |-> "done", approval |-> NoApproval]]
    BY <1>2, <1>15 DEF CommitStep, RunDoc
  <2>4. JournalOK(run'.journal, approval', acted')
    BY <1>2, <1>15, <2>2, <2>3 DEF CommitStep, JournalOK
  <2>5. WorkerOK(w)' /\ \A v \in Worker \ {w} : exec'[v] = exec[v]
    <3>1. Goes(w, "handler", run') /\ exec[w].pc = "commit"
      BY <1>15 DEF CommitStep
    <3> QED BY <2>1, <2>4, <3>1, MovesOn DEF ResumePcs
  <2> QED BY <1>1, <1>15, <2>1, <2>4, <2>5, ByWorker DEF CommitStep
<1>16. ASSUME NEW p \in Gates, NEW a \in Approval, AskApproval(w, p, a) PROVE IInv'
  <2> DEFINE asked == [exec[w].run.journal EXCEPT ![p] = [status |-> "pending", approval |-> a]]
  <2>1. StepKeeps
    BY <1>16 DEF AskApproval, StepKeeps, Monotone, IInv, TypeOK
  <2>2. Decisions'
    BY <1>16, <2>1 DEF AskApproval, StepKeeps, Monotone, Decisions, IInv, TypeOK
  <2>3. GateHolds'
    BY <1>16, <2>1, GateHoldsStays DEF AskApproval, IInv
  <2>4. JournalOK(run.journal, approval', acted') /\ JournalOK(exec[w].run.journal, approval', acted')
    BY <1>2, <2>1, JournalStays DEF StepKeeps
  <2>5. approval'[a].status = "pending" /\ approval'[a].gate = p
    BY <1>16 DEF AskApproval, IInv, TypeOK
  <2>6. JournalOK(asked, approval', acted')
    BY <1>2, <2>4, <2>5 DEF JournalOK
  <2>7. WorkerOK(w)' /\ \A v \in Worker \ {w} : exec'[v] = exec[v]
    <3>1. /\ Goes(w, "ask", [status |-> "waiting_approval", journal |-> asked])
          /\ exec[w].pc = "handler"
      BY <1>16 DEF AskApproval, At
    <3> QED BY <2>1, <2>6, <3>1, MovesOn DEF ResumePcs
  <2> QED BY <1>1, <1>16, <2>1, <2>2, <2>3, <2>4, <2>7, ByWorker DEF AskApproval
<1>17. CASE SavePause(w) \/ Settle(w)
  <2>1. StepKeeps /\ Decisions' /\ GateHolds'
    BY <1>4, <1>17, GateHoldsStays DEF SavePause, Settle, IInv
  <2>2. JournalOK(run'.journal, approval', acted')
    BY <1>2, <1>17 DEF SavePause, Settle
  <2>3. WorkerOK(w)' /\ \A v \in Worker \ {w} : exec'[v] = exec[v]
    BY <1>2, <1>17, <2>1, <2>2, MovesOn DEF SavePause, Settle, ResumePcs
  <2> QED BY <1>1, <1>17, <2>1, <2>2, <2>3, ByWorker DEF SavePause, Settle
<1>18. ASSUME NEW p \in Step,
              PauseAgain(w, p) \/ HandlerRaises(w) \/ HandlerReturns(w)
       PROVE  IInv'
  <2>1. PICK status : exec[w].pc # "idle" /\ Leave(w, status)
    BY <1>18 DEF PauseAgain, HandlerRaises, HandlerReturns, At
  <2>2. StepKeeps /\ Decisions' /\ GateHolds'
    BY <1>4, <2>1, GateHoldsStays DEF Leave, IInv
  <2>3. [exec[w].run EXCEPT !.status = status].journal = exec[w].run.journal
    BY <1>2 DEF RunDoc
  <2>4. JournalOK(exec[w].run.journal, approval', acted')
    BY <1>2, <2>1 DEF Leave
  <2>5. WorkerOK(w)' /\ \A v \in Worker \ {w} : exec'[v] = exec[v]
    BY <2>1, <2>2, <2>3, <2>4, MovesOn DEF Leave, ResumePcs
  <2> QED BY <1>1, <1>2, <2>1, <2>2, <2>5, ByWorker DEF Leave
<1>19. 1 \in Step BY HandlerAssumption DEF Step
<1> QED
  BY <1>5, <1>6, <1>7, <1>8, <1>9, <1>10, <1>11, <1>12, <1>13, <1>14, <1>15, <1>16, <1>17,
     <1>18, <1>19
     DEF Poll, Work, Drive, Resume, Fails, Step

LEMMA TimeKeeps ==
  ASSUME IInv, NEW j \in Job, LeaseRunsOut(j) \/ BecomesDue(j)
  PROVE  IInv'
<1>1. QueueKept
  BY QueueSteps DEF IInv
<1>2. UNCHANGED <<run, approval, payload, exec, api, ran, acted, decided>>
  BY DEF LeaseRunsOut, BecomesDue
<1>3. TypeOK'
  BY <1>1, <1>2 DEF QueueKept, IInv, TypeOK
<1>4. /\ StepKeeps /\ Decisions' /\ GateHolds'
      /\ JournalOK(run'.journal, approval', acted')
  BY <1>1, <1>2, QueueOnly
<1>5. (\A w \in Worker : WorkerOK(w)') /\ (\A c \in Client : ClientOK(c)')
  BY <1>2, <1>4, WorkerStays, ClientStays DEF IInv
<1> QED BY <1>3, <1>4, <1>5 DEF IInv

LEMMA InitIInv == Init => IInv
<1> SUFFICES ASSUME Init PROVE IInv
  OBVIOUS
<1>1. JournalOK(AbsentRun.journal, approval, acted)
  BY EmptyJournalOK DEF AbsentRun
<1>2. TypeOK
  BY EmptyJournalOK, AbsentDocOK, HandlerAssumption
     DEF Init, TypeOK, WorkerDoc, ClientDoc, ApprovalDoc, IdleWorker, IdleClient
<1>3. Decisions /\ GateHolds
  BY AbsentDocOK DEF Init, Decisions, GateHolds, Resumes
<1>4. (\A w \in Worker : WorkerOK(w)) /\ (\A c \in Client : ClientOK(c))
  BY <1>1 DEF Init, WorkerOK, ClientOK, IdleWorker, IdleClient, ResumePcs, DecisionPcs
<1> QED BY <1>1, <1>2, <1>3, <1>4 DEF Init, IInv

LEMMA NextIInv == IInv /\ [Next]_vars => IInv'
<1> SUFFICES ASSUME IInv, [Next]_vars PROVE IInv'
  OBVIOUS
<1>1. ASSUME NEW c \in Client, Ask(c) \/ Serve(c) \/ ClientDies(c) \/ EnqueueRefused(c) PROVE IInv'
  BY <1>1, ClientKeeps
<1>2. ASSUME NEW w \in Worker, Poll(w) \/ Work(w) \/ Fails(w) \/ WorkerDies(w) \/ WorkRaises(w) PROVE IInv'
  BY <1>2, WorkerKeeps
<1>3. ASSUME NEW j \in Job, LeaseRunsOut(j) \/ BecomesDue(j) PROVE IInv'
  BY <1>3, TimeKeeps
<1>4. CASE UNCHANGED vars
  BY <1>4 DEF vars, IInv, TypeOK, Decisions, GateHolds, WorkerOK, ClientOK, Resuming
<1> QED BY <1>1, <1>2, <1>3, <1>4 DEF Next, Working

-----------------------------------------------------------------------------
(* Work and grants: the strengthening WorkPerGrant needs. *)

\* A copy of the run is results, then at most one gate that is not granted yet,
\* then nothing, and waits only at such a gate; a rejected one is never replayed.
Shape(r) ==
  r.status # "rejected" =>
    \E p \in 1 .. N + 1 :
      /\ Reaches(r.journal, p)
      /\ \A q \in Step : q > p => r.journal[q] = NoEntry
      /\ p \in Step => r.journal[p].status \in {"absent", "pending"}
      /\ r.status = "waiting_approval" => p \in Gates /\ r.journal[p].status = "pending"

\* Only the turn is adopted; a worker that resumes holds a run that waits, and one
\* in its handler a run that is running.
WorkerShape(w) ==
  /\ Shape(exec[w].run) /\ exec[w].run.status # "rejected"
  /\ exec[w].pc \in {"act", "approved", "resume"} => exec[w].run.status = "waiting_approval"
  /\ exec[w].pc \in {"handler", "commit"} => exec[w].run.status = "running"
  /\ exec[w].pc \in {"ask", "settle", "report"} => exec[w].run.status # "absent"
  /\ exec[w].pc = "adopt" => exec[w].job = Turn

\* An effect worker w comes to lies in the span of the job it was granted.
InSpan(w) ==
  exec[w].pc \in {"handler", "commit"} =>
    \A p \in Step \ Gates : Reaches(exec[w].run.journal, p) => exec[w].job \in Reachers(p)

\* The turn is enqueued once, and a job that was not enqueued had no attempt.
EnqueuedOnce ==
  /\ \A j \in Job : queue[j].status = "absent" => queue[j].attempts = 0
  /\ queue[Turn].status # "absent" => run.status # "absent"
  /\ \A c \in Client : api[c].pc = "enqueue" =>
       queue[Turn].status = "absent" /\ run.status # "absent"
  /\ \A c, d \in Client : api[c].pc = "enqueue" /\ api[d].pc = "enqueue" => c = d

\* Worker w may still execute step p under the grant it works on ...
Owes(w, p) ==
  /\ exec[w].job \in Reachers(p)
  /\ \/ exec[w].pc \in {"adopt"} \cup ResumePcs
     \/ exec[w].pc = "handler" /\ exec[w].run.journal[p].status = "absent"
     \/ /\ exec[w].pc = "commit" /\ exec[w].run.journal[p].status = "absent"
        /\ ~Reaches(exec[w].run.journal, p)

\* ... or the action of approval a.
OwesAct(w, a) == exec[w].pc \in {"check", "load", "act"} /\ Resuming(w) = a

Busy == {w \in Worker : exec[w].pc # "idle"}
Owing(p) == {w \in Worker : Owes(w, p)}
OwingAct(a) == {w \in Worker : OwesAct(w, a)}
ResumesOf(a) == {j \in Resumes : payload[j] = a}

\* What was done and what is still owed is covered by what was granted.
Covered ==
  /\ IsFiniteSet(GrantsOf(Job)) /\ IsFiniteSet(Busy)
  /\ \A p \in Step \ Gates : ran[p] + Cardinality(Owing(p)) <= Grants(Reachers(p))
  /\ \A g \in Gates : ran[g] = 0
  /\ \A a \in Approval : acted[a] + Cardinality(OwingAct(a)) <= Grants(ResumesOf(a))

Shapes == Shape(run) /\ \A c \in Client : Shape(api[c].run)
WInv == /\ IInv /\ Shapes /\ EnqueuedOnce /\ Covered
        /\ \A w \in Worker : WorkerShape(w) /\ InSpan(w)
-----------------------------------------------------------------------------
(* Sets of grants. *)

PairsOf(jobs, q) == UNION {{j} \X (1 .. q[j].attempts) : j \in jobs}

LEMMA PairMember ==
  ASSUME NEW jobs, NEW q, NEW g
  PROVE  g \in PairsOf(jobs, q) <=> \E j \in jobs : \E n \in 1 .. q[j].attempts : g = <<j, n>>
BY DEF PairsOf

\* Two queues with the same attempts grant the same, whatever else they hold.
LEMMA SamePairs ==
  ASSUME NEW jobs \in SUBSET Job, NEW jobs1 \in SUBSET Job, NEW q, NEW q1,
         \A j \in Job : q1[j].attempts = q[j].attempts,
         \A j \in Job : q[j].attempts > 0 => (j \in jobs1 <=> j \in jobs),
         \A j \in Job : q[j].attempts \in Nat
  PROVE  PairsOf(jobs1, q1) = PairsOf(jobs, q)
<1>1. ASSUME NEW g PROVE g \in PairsOf(jobs1, q1) <=> g \in PairsOf(jobs, q)
  <2>1. ASSUME NEW j \in Job, NEW n \in 1 .. q[j].attempts PROVE q[j].attempts > 0
    BY <2>1
  <2>2. (\E j \in jobs1 : \E n \in 1 .. q1[j].attempts : g = <<j, n>>) <=>
        (\E j \in jobs : \E n \in 1 .. q[j].attempts : g = <<j, n>>)
    BY <2>1
  <2> QED BY <2>2, PairMember
<1> QED BY <1>1

\* One more attempt of j is one more grant, of the sets that hold j.
LEMMA OneMorePair ==
  ASSUME NEW jobs \in SUBSET Job, NEW jobs1 \in SUBSET Job, NEW q, NEW q1, NEW j \in Job,
         \A k \in Job : q[k].attempts \in Nat,
         q1[j].attempts = q[j].attempts + 1,
         \A k \in Job \ {j} : q1[k].attempts = q[k].attempts,
         \A k \in Job : q1[k].attempts > 0 => (k \in jobs1 <=> k \in jobs),
         IsFiniteSet(PairsOf(jobs, q))
  PROVE  /\ IsFiniteSet(PairsOf(jobs1, q1))
         /\ Cardinality(PairsOf(jobs1, q1)) =
              Cardinality(PairsOf(jobs, q)) + (IF j \in jobs THEN 1 ELSE 0)
<1> DEFINE new == <<j, q[j].attempts + 1>>
<1>1. ASSUME NEW g
      PROVE  g \in PairsOf(jobs1, q1) <=> g \in PairsOf(jobs, q) \/ (j \in jobs /\ g = new)
  <2>1. ASSUME NEW k \in jobs1, NEW n \in 1 .. q1[k].attempts, g = <<k, n>>
        PROVE  g \in PairsOf(jobs, q) \/ (j \in jobs /\ g = new)
    <3>1. k \in Job /\ k \in jobs
      BY <2>1
    <3>2. CASE n \in 1 .. q[k].attempts
      BY <2>1, <3>1, <3>2, PairMember
    <3>3. CASE n \notin 1 .. q[k].attempts
      <4>1. k = j /\ n = q[j].attempts + 1
        BY <2>1, <3>1, <3>3
      <4> QED BY <2>1, <3>1, <4>1
    <3> QED BY <3>2, <3>3
  <2>2. ASSUME NEW k \in jobs, NEW n \in 1 .. q[k].attempts, g = <<k, n>>
        PROVE  k \in jobs1 /\ n \in 1 .. q1[k].attempts
    BY <2>2
  <2>3. ASSUME j \in jobs, g = new PROVE j \in jobs1 /\ q[j].attempts + 1 \in 1 .. q1[j].attempts
    BY <2>3
  <2> QED BY <2>1, <2>2, <2>3, PairMember
<1>2. new \notin PairsOf(jobs, q)
  <2>1. ASSUME NEW k \in jobs, NEW n \in 1 .. q[k].attempts, new = <<k, n>> PROVE FALSE
    BY <2>1
  <2> QED BY <2>1, PairMember
<1> HIDE DEF new
<1>3. CASE j \in jobs
  <2>1. PairsOf(jobs1, q1) = PairsOf(jobs, q) \cup {new}
    BY <1>1, <1>3
  <2> QED BY <1>2, <1>3, <2>1, FS_AddElement
<1>4. CASE j \notin jobs
  <2>1. PairsOf(jobs1, q1) = PairsOf(jobs, q)
    BY <1>1, <1>4
  <2> QED BY <1>4, <2>1, FS_CardinalityType
<1> QED BY <1>3, <1>4

LEMMA OneMore ==
  ASSUME NEW S, NEW x, IsFiniteSet(S)
  PROVE  /\ Cardinality(S) \in Nat
         /\ IsFiniteSet(S \cup {x}) /\ Cardinality(S \cup {x}) \in Nat
         /\ Cardinality(S \cup {x}) <= Cardinality(S) + 1
<1>1. Cardinality(S) \in Nat
  BY FS_CardinalityType
<1>2. /\ IsFiniteSet(S \cup {x})
      /\ Cardinality(S \cup {x}) = IF x \in S THEN Cardinality(S) ELSE Cardinality(S) + 1
  BY FS_AddElement
<1> QED BY <1>1, <1>2

LEMMA SomeGrants ==
  ASSUME IsFiniteSet(GrantsOf(Job)), NEW jobs \in SUBSET Job
  PROVE  IsFiniteSet(GrantsOf(jobs)) /\ Grants(jobs) \in Nat
<1>1. GrantsOf(jobs) \subseteq GrantsOf(Job)
  <2>1. \A g : g \in PairsOf(jobs, queue) => g \in PairsOf(Job, queue)
    BY PairMember
  <2> QED BY <2>1 DEF GrantsOf, PairsOf
<1> QED BY <1>1, FS_Subset, FS_CardinalityType DEF Grants

LEMMA SomeOwing ==
  ASSUME IsFiniteSet(Busy)
  PROVE  /\ \A p : IsFiniteSet(Owing(p)) /\ Cardinality(Owing(p)) \in Nat
         /\ \A a : IsFiniteSet(OwingAct(a)) /\ Cardinality(OwingAct(a)) \in Nat
<1>1. \A p : Owing(p) \subseteq Busy
  BY DEF Owing, Owes, Busy, ResumePcs
<1>2. \A a : OwingAct(a) \subseteq Busy
  BY DEF OwingAct, OwesAct, Busy
<1> QED BY <1>1, <1>2, FS_Subset, FS_CardinalityType
-----------------------------------------------------------------------------
(* What every step keeps of the grants. *)

SameAttempts == \A j \in Job : queue'[j].attempts = queue[j].attempts

\* Jobs that were granted once keep their span.
LEMMA SpanStays ==
  ASSUME IInv, StepKeeps, NEW j \in Job, queue[j].status # "absent"
  PROVE  /\ \A p \in Step : j \in Reachers(p)' <=> j \in Reachers(p)
         /\ \A a : j \in ResumesOf(a)' <=> j \in ResumesOf(a)
<1>1. payload'[j] = payload[j] BY DEF StepKeeps
<1>2. ASSUME j \in Resumes
      PROVE  /\ payload[j] \in Approval
             /\ approval'[payload[j]].gate = approval[payload[j]].gate
  BY <1>2 DEF IInv, TypeOK, Decisions, StepKeeps, Monotone
<1>3. ASSUME NEW p \in Step PROVE j \in Reachers(p)' <=> j \in Reachers(p)
  <2>1. CASE \A g \in Gates : g >= p
    BY <2>1 DEF Reachers
  <2>2. CASE ~(\A g \in Gates : g >= p) /\ j \in Resumes
    BY <1>1, <1>2, <2>2 DEF Reachers
  <2>3. CASE ~(\A g \in Gates : g >= p) /\ j \notin Resumes
    BY <2>3 DEF Reachers
  <2> QED BY <2>1, <2>2, <2>3
<1>4. ASSUME NEW a PROVE j \in ResumesOf(a)' <=> j \in ResumesOf(a)
  BY <1>1 DEF ResumesOf
<1> QED BY <1>3, <1>4

LEMMA SpansAreJobs == (\A p : Reachers(p) \subseteq Job) /\ \A a : ResumesOf(a) \subseteq Job
BY TurnAssumption DEF Reachers, ResumesOf, Resumes

LEMMA GrantedIsPresent ==
  ASSUME IInv, EnqueuedOnce, NEW j \in Job
  PROVE  queue[j].attempts \in Nat /\ (queue[j].attempts > 0 => queue[j].status # "absent")
BY DEF IInv, TypeOK, JobDoc, EnqueuedOnce

LEMMA GrantsStay ==
  ASSUME IInv, EnqueuedOnce, StepKeeps, SameAttempts
  PROVE  /\ \A p \in Step : Grants(Reachers(p))' = Grants(Reachers(p))
         /\ \A a : Grants(ResumesOf(a))' = Grants(ResumesOf(a))
         /\ GrantsOf(Job)' = GrantsOf(Job)
<1>1. \A j \in Job : queue[j].attempts \in Nat
  BY GrantedIsPresent
<1>2. (\A p : Reachers(p)' \subseteq Job) /\ \A a : ResumesOf(a)' \subseteq Job
  BY TurnAssumption DEF Reachers, ResumesOf, Resumes
<1>3. ASSUME NEW p \in Step PROVE PairsOf(Reachers(p)', queue') = PairsOf(Reachers(p), queue)
  <2> DEFINE jobs == Reachers(p)
             jobs1 == Reachers(p)'
  <2>1. jobs \in SUBSET Job /\ jobs1 \in SUBSET Job BY <1>2, SpansAreJobs
  <2>2. \A j \in Job : queue[j].attempts > 0 => (j \in jobs1 <=> j \in jobs)
    BY GrantedIsPresent, SpanStays
  <2> HIDE DEF jobs, jobs1
  <2>3. PairsOf(jobs1, queue') = PairsOf(jobs, queue)
    BY <1>1, <2>1, <2>2, SamePairs DEF SameAttempts
  <2> QED BY <2>3 DEF jobs, jobs1
<1>4. ASSUME NEW a PROVE PairsOf(ResumesOf(a)', queue') = PairsOf(ResumesOf(a), queue)
  <2> DEFINE jobs == ResumesOf(a)
             jobs1 == ResumesOf(a)'
  <2>1. jobs \in SUBSET Job /\ jobs1 \in SUBSET Job BY <1>2, SpansAreJobs
  <2>2. \A j \in Job : queue[j].attempts > 0 => (j \in jobs1 <=> j \in jobs)
    BY GrantedIsPresent, SpanStays
  <2> HIDE DEF jobs, jobs1
  <2>3. PairsOf(jobs1, queue') = PairsOf(jobs, queue)
    BY <1>1, <2>1, <2>2, SamePairs DEF SameAttempts
  <2> QED BY <2>3 DEF jobs, jobs1
<1>5. PairsOf(Job, queue') = PairsOf(Job, queue)
  BY <1>1, SamePairs DEF SameAttempts
<1> QED BY <1>3, <1>4, <1>5 DEF Grants, GrantsOf, PairsOf

\* Worker w takes on nothing it did not owe already.
OwesLess(w) ==
  /\ \A p \in Step : Owes(w, p)' => Owes(w, p)
  /\ \A a \in Approval : OwesAct(w, a)' => OwesAct(w, a)
  /\ exec'[w].pc # "idle" => exec[w].pc # "idle"

LEMMA SameWorkerOwes ==
  ASSUME IInv, StepKeeps, NEW w \in Worker, exec'[w] = exec[w]
  PROVE  OwesLess(w)
<1>1. CASE exec[w].pc = "idle"
  BY <1>1 DEF OwesLess, Owes, OwesAct, ResumePcs
<1>2. CASE exec[w].pc # "idle"
  <2>1. exec[w].job \in Job /\ queue[exec[w].job].status # "absent"
    BY <1>2 DEF IInv, WorkerOK
  <2>2. ASSUME NEW p \in Step, Owes(w, p)' PROVE Owes(w, p)
    <3>1. exec[w].job \in Reachers(p)
      BY <2>1, <2>2, SpanStays DEF Owes
    <3> QED BY <2>2, <3>1 DEF Owes
  <2>3. payload'[exec[w].job] = payload[exec[w].job]
    BY <2>1 DEF StepKeeps
  <2> QED BY <1>2, <2>2, <2>3 DEF OwesLess, OwesAct, Resuming
<1> QED BY <1>1, <1>2

\* Nothing is done and nothing more is owed.
LEMMA NothingDone ==
  ASSUME IInv, EnqueuedOnce, Covered, StepKeeps, SameAttempts, ran' = ran, acted' = acted,
         \A w \in Worker : OwesLess(w)
  PROVE  Covered'
<1>1. IsFiniteSet(GrantsOf(Job))' /\ IsFiniteSet(Busy)'
  <2>1. Busy' \subseteq Busy
    BY DEF Busy, OwesLess
  <2> QED BY <2>1, GrantsStay, FS_Subset DEF Covered
<1>2. /\ \A p : IsFiniteSet(Owing(p)) /\ Cardinality(Owing(p)) \in Nat
      /\ \A a : IsFiniteSet(OwingAct(a)) /\ Cardinality(OwingAct(a)) \in Nat
  BY SomeOwing DEF Covered
<1>3. ASSUME NEW p \in Step \ Gates
      PROVE  ran'[p] + Cardinality(Owing(p)') <= Grants(Reachers(p))'
  <2>1. Owing(p)' \subseteq Owing(p)
    BY DEF Owing, OwesLess
  <2>2. Cardinality(Owing(p)') \in Nat /\ Cardinality(Owing(p)') <= Cardinality(Owing(p))
    BY <1>2, <2>1, FS_Subset, FS_CardinalityType
  <2>3. Grants(Reachers(p))' = Grants(Reachers(p)) /\ Grants(Reachers(p)) \in Nat
    BY GrantsStay, SomeGrants, SpansAreJobs DEF Covered
  <2>4. ran[p] \in Nat /\ ran'[p] = ran[p] /\ ran[p] + Cardinality(Owing(p)) <= Grants(Reachers(p))
    BY DEF Covered, IInv, TypeOK
  <2> HIDE DEF Covered
  <2> QED BY <1>2, <2>2, <2>3, <2>4
<1>4. ASSUME NEW a \in Approval
      PROVE  acted'[a] + Cardinality(OwingAct(a)') <= Grants(ResumesOf(a))'
  <2>1. OwingAct(a)' \subseteq OwingAct(a)
    BY DEF OwingAct, OwesLess
  <2>2. Cardinality(OwingAct(a)') \in Nat /\ Cardinality(OwingAct(a)') <= Cardinality(OwingAct(a))
    BY <1>2, <2>1, FS_Subset, FS_CardinalityType
  <2>3. Grants(ResumesOf(a))' = Grants(ResumesOf(a)) /\ Grants(ResumesOf(a)) \in Nat
    BY GrantsStay, SomeGrants, SpansAreJobs DEF Covered
  <2>4. acted[a] \in Nat /\ acted'[a] = acted[a]
        /\ acted[a] + Cardinality(OwingAct(a)) <= Grants(ResumesOf(a))
    BY DEF Covered, IInv, TypeOK
  <2> QED BY <1>2, <2>2, <2>3, <2>4
<1>5. \A g \in Gates : ran'[g] = 0
  BY DEF Covered
<1> QED BY <1>1, <1>3, <1>4, <1>5 DEF Covered
-----------------------------------------------------------------------------
(* What the queue's steps do to the attempts. *)

LEMMA QueueAttempts ==
  ASSUME IInv
  PROVE  /\ \A w \in Worker : ClaimNothing(w) => SameAttempts
         /\ \A w \in Worker : exec[w].pc # "idle" /\ ReportFailed(w) => SameAttempts
         /\ \A w \in Worker : Report(w) => SameAttempts
         /\ \A j \in Job : LeaseRunsOut(j) \/ BecomesDue(j) => SameAttempts
         /\ \A w \in Worker, j \in Job : Claim(w, j) =>
              /\ queue'[j].attempts = queue[j].attempts + 1
              /\ \A k \in Job \ {j} : queue'[k].attempts = queue[k].attempts
<1>1. queue \in [Job -> JobDoc] BY DEF IInv, TypeOK
<1>2. ASSUME NEW j \in Job PROVE ReapedQueue[j] \in JobDoc /\ ReapedQueue[j].attempts = queue[j].attempts
  <2>1. ReapedQueue[j] \in JobDoc BY <1>1, ReapedQueueTyped
  <2>2. queue[j] \in JobDoc BY <1>1
  <2>3. Requeued(queue[j]).attempts = queue[j].attempts
    BY <2>2 DEF Requeued, JobDoc
  <2>4. DeadLettered(queue[j]).attempts = queue[j].attempts
    BY <2>2 DEF DeadLettered, JobDoc
  <2> QED BY <2>1, <2>3, <2>4 DEF ReapedQueue
<1>3. \A d \in JobDoc, j \in Job : Completed(d).attempts = d.attempts /\ Failed(j, d).attempts = d.attempts
  BY DEF Completed, Failed, JobDoc
<1>4. ASSUME NEW w \in Worker, exec[w].pc # "idle" PROVE exec[w].job \in Job
  BY <1>4 DEF IInv, WorkerOK
<1>5. ASSUME NEW w \in Worker, ClaimNothing(w) PROVE SameAttempts
  BY <1>2, <1>5 DEF ClaimNothing, SameAttempts
<1>6. ASSUME NEW w \in Worker, exec[w].pc # "idle", ReportFailed(w) PROVE SameAttempts
  BY <1>1, <1>3, <1>4, <1>6 DEF ReportFailed, SameAttempts
<1>7. ASSUME NEW w \in Worker, Report(w) PROVE SameAttempts
  BY <1>1, <1>3, <1>4, <1>7 DEF Report, SameAttempts
<1>8. ASSUME NEW j \in Job, LeaseRunsOut(j) \/ BecomesDue(j) PROVE SameAttempts
  BY <1>1, <1>8 DEF LeaseRunsOut, BecomesDue, SameAttempts, JobDoc
<1>9. ASSUME NEW w \in Worker, NEW j \in Job, Claim(w, j)
      PROVE  /\ queue'[j].attempts = queue[j].attempts + 1
             /\ \A k \in Job \ {j} : queue'[k].attempts = queue[k].attempts
  <2>1. queue' = [ReapedQueue EXCEPT ![j] = Claimed(ReapedQueue[j], w)]
    BY <1>9 DEF Claim
  <2>2. ReapedQueue \in [Job -> JobDoc] BY <1>1, ReapedQueueTyped
  <2>3. Claimed(ReapedQueue[j], w).attempts = ReapedQueue[j].attempts + 1
    BY <1>2 DEF Claimed, JobDoc
  <2>4. queue'[j] = Claimed(ReapedQueue[j], w) /\ \A k \in Job \ {j} : queue'[k] = ReapedQueue[k]
    BY <2>1, <2>2
  <2> QED BY <1>2, <2>3, <2>4
<1> QED BY <1>5, <1>6, <1>7, <1>8, <1>9
-----------------------------------------------------------------------------
(* Shapes of the run. *)

LEMMA EmptyShape == Shape(AbsentRun) /\ Shape([status |-> "running", journal |-> EmptyJournal])
                    /\ Shape([status |-> "queued", journal |-> EmptyJournal])
<1>1. Reaches(EmptyJournal, 1)
  BY HandlerAssumption DEF Reaches, EmptyJournal, NoEntry, Memoized, Step
<1>2. 1 \in 1 .. N + 1 /\ \A q \in Step : EmptyJournal[q] = NoEntry
  BY HandlerAssumption DEF EmptyJournal
<1> QED BY <1>1, <1>2 DEF Shape, AbsentRun, NoEntry

\* The handler leaves: its journal stays, and it waits only at a gate that is pending.
LEMMA LeftShape ==
  ASSUME NEW r \in RunDoc, Shape(r), r.status # "rejected", NEW status \in RunStatus,
         status = "waiting_approval" =>
           \E p \in Gates : Reaches(r.journal, p) /\ r.journal[p].status = "pending"
  PROVE  Shape([r EXCEPT !.status = status])
<1> DEFINE r1 == [r EXCEPT !.status = status]
<1>1. r1.status = status /\ r1.journal = r.journal
  BY DEF RunDoc
<1> HIDE DEF r1
<1>2. PICK p \in 1 .. N + 1 :
        /\ Reaches(r.journal, p)
        /\ \A q \in Step : q > p => r.journal[q] = NoEntry
        /\ p \in Step => r.journal[p].status \in {"absent", "pending"}
  BY DEF Shape
<1>3. status = "waiting_approval" => p \in Gates /\ r.journal[p].status = "pending"
  BY <1>2, ReachesOne
<1>4. Shape(r1)
  BY <1>1, <1>2, <1>3 DEF Shape
<1> QED BY <1>4 DEF r1

\* The journal a worker goes on with once the step it had reached is memoized.
LEMMA NextReached ==
  ASSUME NEW log \in [Step -> Entry], NEW journal1 \in [Step -> Entry], NEW p \in Step,
         Reaches(log, p), \A q \in Step : q > p => log[q] = NoEntry,
         Memoized(journal1[p]), \A q \in Step \ {p} : journal1[q] = log[q]
  PROVE  /\ Reaches(journal1, p + 1)
         /\ \A q \in Step : q > p + 1 => journal1[q] = NoEntry
         /\ p + 1 \in Step => journal1[p + 1] = NoEntry
<1>1. N \in Nat \ {0} /\ p \in 1 .. N
  BY HandlerAssumption DEF Step
<1>2. p + 1 \in 1 .. N + 1 BY <1>1
<1>3. \A q \in 1 .. p : q \in Step /\ (q = p \/ q \in 1 .. (p - 1))
  BY <1>1 DEF Step
<1>4. \A q \in 1 .. ((p + 1) - 1) : Memoized(journal1[q])
  <2>1. (p + 1) - 1 = p BY <1>1
  <2> QED BY <1>3, <2>1 DEF Reaches
<1>5. p + 1 \in Step => journal1[p + 1] = NoEntry
  BY <1>1
<1>6. p + 1 <= N => ~Memoized(journal1[p + 1])
  BY <1>1, <1>5 DEF Step, NoEntry, Memoized
<1>7. \A q \in Step : q > p + 1 => journal1[q] = NoEntry
  BY <1>1 DEF Step
<1> QED BY <1>2, <1>4, <1>5, <1>6, <1>7 DEF Reaches

LEMMA CommittedShape ==
  ASSUME NEW r \in RunDoc, Shape(r), r.status # "rejected", NEW p \in Step \ Gates,
         Reaches(r.journal, p), r.status # "waiting_approval"
  PROVE  LET r1 == [r EXCEPT !.journal = [@ EXCEPT ![p] = [status |-> "done", approval |-> NoApproval]]]
         IN  /\ r1 \in RunDoc /\ r1.status = r.status /\ Shape(r1)
             /\ \A q \in Step : r1.journal[q].status = "absent" => q # p /\ r.journal[q].status = "absent"
             /\ Reaches(r1.journal, p + 1)
<1> DEFINE done == [status |-> "done", approval |-> NoApproval]
           journal1 == [r.journal EXCEPT ![p] = done]
           r1 == [r EXCEPT !.journal = [@ EXCEPT ![p] = done]]
<1>1. r.journal \in [Step -> Entry] /\ p \in Step
  BY DEF RunDoc
<1>2. done \in Entry /\ Memoized(done) /\ done.status # "absent"
  BY DEF Entry, Memoized
<1>3. journal1 \in [Step -> Entry] /\ journal1[p] = done /\ \A q \in Step \ {p} : journal1[q] = r.journal[q]
  BY <1>1, <1>2
<1>4. r1 \in RunDoc /\ r1.status = r.status /\ r1.journal = journal1
  BY <1>3 DEF RunDoc
<1> HIDE DEF journal1, done, r1
<1>5. \A q \in Step : q > p => r.journal[q] = NoEntry
  BY ReachesOne DEF Shape
<1>6. /\ Reaches(journal1, p + 1)
      /\ \A q \in Step : q > p + 1 => journal1[q] = NoEntry
      /\ p + 1 \in Step => journal1[p + 1] = NoEntry
  BY <1>1, <1>2, <1>3, <1>5, NextReached
<1>7. p + 1 \in 1 .. N + 1
  BY <1>6 DEF Reaches
<1>8. Shape(r1)
  BY <1>4, <1>6, <1>7 DEF Shape, NoEntry
<1>9. \A q \in Step : journal1[q].status = "absent" => q # p /\ r.journal[q].status = "absent"
  BY <1>2, <1>3
<1> QED BY <1>4, <1>6, <1>8, <1>9 DEF r1, done

LEMMA AskedShape ==
  ASSUME NEW r \in RunDoc, Shape(r), r.status # "rejected", NEW p \in Gates, NEW a \in Approval,
         Reaches(r.journal, p)
  PROVE  Shape([status |-> "waiting_approval",
                journal |-> [r.journal EXCEPT ![p] = [status |-> "pending", approval |-> a]]])
<1> DEFINE journal1 == [r.journal EXCEPT ![p] = [status |-> "pending", approval |-> a]]
<1>1. p \in Step /\ N \in Nat /\ p \in 1 .. N + 1 /\ r.journal \in [Step -> Entry]
  BY HandlerAssumption DEF Step, RunDoc
<1>2. \A q \in Step : q > p => r.journal[q] = NoEntry
  BY ReachesOne DEF Shape
<1>3. journal1[p].status = "pending" /\ \A q \in Step \ {p} : journal1[q] = r.journal[q]
  BY <1>1
<1> HIDE DEF journal1
<1>4. \A q \in 1 .. (p - 1) : q \in Step \ {p}
  BY <1>1 DEF Step
<1>5. Reaches(journal1, p)
  BY <1>1, <1>3, <1>4 DEF Reaches, Memoized
<1>6. \A q \in Step : q > p => journal1[q] = NoEntry
  BY <1>1, <1>2, <1>3 DEF Step
<1> QED BY <1>1, <1>3, <1>5, <1>6 DEF Shape, journal1

\* A resumed run: the handler is replayed up to its next gate, if it waited for
\* this approval, and up to the gate it waits at, if it waited for another one.
LEMMA ResumedShape ==
  ASSUME NEW r \in RunDoc, Shape(r), r.status = "waiting_approval",
         JournalOK(r.journal, approval, acted), NEW a \in Approval
  PROVE  LET journal1 == Resolve(r.journal, a, "approved") IN
         /\ Shape([status |-> "running", journal |-> journal1])
         /\ \A p \in Step \ Gates : Reaches(journal1, p) =>
              /\ \E g \in Gates : approval[a].gate = g /\ g < p
              /\ \A g \in Gates : g < p => g <= approval[a].gate
<1> DEFINE journal1 == Resolve(r.journal, a, "approved")
           r1 == [status |-> "running", journal |-> journal1]
<1>1. r.journal \in [Step -> Entry] /\ N \in Nat \ {0} /\ Step = 1 .. N
  BY HandlerAssumption DEF RunDoc, Step
<1>2. PICK p \in 1 .. N + 1 :
        /\ Reaches(r.journal, p)
        /\ \A q \in Step : q > p => r.journal[q] = NoEntry
        /\ p \in Gates /\ r.journal[p].status = "pending"
  BY DEF Shape
<1>3. p \in Step /\ journal1 \in [Step -> Entry]
  BY <1>1, <1>2, HandlerAssumption, ResolveTyped DEF Step
<1>4. \A q \in Step : journal1[q] = IF r.journal[q].approval = a
                                    THEN [r.journal[q] EXCEPT !.status = "approved"] ELSE r.journal[q]
  BY DEF Resolve
<1>5. \A q \in Step : q > p => r.journal[q].approval # a
  BY <1>2, NoApprovalAssumption DEF NoEntry
<1>6. \A q \in 1 .. (p - 1) : q \in Step /\ Memoized(r.journal[q])
  BY <1>1, <1>2, <1>3 DEF Reaches
<1>7. r1.status = "running" /\ r1.journal = journal1
  OBVIOUS
<1> HIDE DEF journal1, r1
<1>8. \A q \in 1 .. (p - 1) : Memoized(journal1[q])
  <2> SUFFICES ASSUME NEW q \in 1 .. (p - 1) PROVE Memoized(journal1[q])
    OBVIOUS
  <2>1. CASE r.journal[q].approval = a
    <3>1. r.journal[q] \in Entry BY <1>1, <1>6
    <3>2. journal1[q].status = "approved" BY <1>4, <1>6, <2>1, <3>1 DEF Entry
    <3> QED BY <3>2 DEF Memoized
  <2>2. CASE r.journal[q].approval # a
    BY <1>4, <1>6, <2>2
  <2> QED BY <2>1, <2>2
<1>9. CASE r.journal[p].approval = a
  <2>1. approval[a].gate = p
    BY <1>2, <1>3, <1>9 DEF JournalOK
  <2>2. Memoized(journal1[p])
    <3>1. r.journal[p] \in Entry BY <1>1, <1>3
    <3>2. journal1[p].status = "approved" BY <1>3, <1>4, <1>9, <3>1 DEF Entry
    <3> QED BY <3>2 DEF Memoized
  <2>3. \A q \in Step : q > p => journal1[q] = NoEntry
    BY <1>2, <1>4, <1>5
  <2>4. CASE p = N
    <3>1. Reaches(journal1, N + 1)
      <4>1. \A q \in 1 .. ((N + 1) - 1) : Memoized(journal1[q])
        BY <1>1, <1>8, <2>2, <2>4
      <4> QED BY <1>1, <4>1 DEF Reaches
    <3>2. ~(N + 1 \in Step) /\ N + 1 \in 1 .. N + 1 /\ \A q \in Step : ~(q > N + 1)
      BY <1>1
    <3>3. Shape(r1)
      BY <1>7, <3>1, <3>2 DEF Shape
    <3>4. \A q \in Step : ~Reaches(journal1, q)
      BY <3>1, <3>2, ReachesOne
    <3> QED BY <3>3, <3>4 DEF journal1, r1
  <2>5. CASE p # N
    <3>1. p + 1 \in Step /\ p + 1 \in 1 .. N + 1
      BY <1>1, <1>3, <2>5
    <3>2. journal1[p + 1] = NoEntry
      BY <1>1, <1>3, <2>3, <3>1
    <3>3. Reaches(journal1, p + 1)
      <4>1. \A q \in 1 .. ((p + 1) - 1) : Memoized(journal1[q])
        BY <1>1, <1>3, <1>8, <2>2
      <4> QED BY <3>1, <3>2, <4>1 DEF Reaches, NoEntry, Memoized
    <3>4. \A q \in Step : q > p + 1 => journal1[q] = NoEntry
      BY <1>1, <1>3, <2>3
    <3>5. Shape(r1)
      BY <1>7, <3>1, <3>2, <3>3, <3>4 DEF Shape, NoEntry
    <3>6. \A q \in Step \ Gates : Reaches(journal1, q) =>
            /\ \E g \in Gates : approval[a].gate = g /\ g < q
            /\ \A g \in Gates : g < q => g <= approval[a].gate
      <4> SUFFICES ASSUME NEW q \in Step \ Gates, Reaches(journal1, q)
                   PROVE  p < q /\ \A g \in Gates : g < q => g <= p
        BY <1>2, <2>1
      <4>1. q = p + 1 BY <3>3, ReachesOne
      <4> QED BY <1>1, <1>3, <4>1, HandlerAssumption
    <3> QED BY <3>5, <3>6 DEF journal1, r1
  <2> QED BY <2>4, <2>5
<1>10. CASE r.journal[p].approval # a
  <2>1. journal1[p] = r.journal[p]
    BY <1>3, <1>4, <1>10
  <2>2. \A q \in Step : q > p => journal1[q] = NoEntry
    BY <1>2, <1>4, <1>5
  <2>3. Reaches(journal1, p)
    BY <1>2, <1>8, <2>1 DEF Reaches, Memoized
  <2>4. Shape(r1)
    BY <1>2, <1>7, <2>1, <2>2, <2>3 DEF Shape
  <2>5. \A q \in Step \ Gates : ~Reaches(journal1, q)
    BY <1>2, <2>3, ReachesOne
  <2> QED BY <2>4, <2>5 DEF journal1, r1
<1> QED BY <1>9, <1>10
-----------------------------------------------------------------------------
(* Every step keeps the strengthening. *)

LEMMA SlotIs ==
  ASSUME IInv, NEW w \in Worker, NEW pc, NEW r, Goes(w, pc, r)
  PROVE  /\ exec'[w].pc = pc /\ exec'[w].run = r /\ exec'[w].job = exec[w].job
         /\ \A v \in Worker \ {w} : exec'[v] = exec[v]
BY DEF Goes, IInv, TypeOK

\* A step that leaves approvals, payloads and executions of actions alone.
LEMMA KeepsByQueue ==
  ASSUME QueueKept, UNCHANGED <<approval, payload, acted, decided>>
  PROVE  StepKeeps
BY DEF StepKeeps, Monotone, QueueKept

LEMMA SameQueue ==
  ASSUME IInv, queue' = queue
  PROVE  QueueKept /\ SameAttempts
BY DEF IInv, TypeOK, QueueKept, SameAttempts

LEMMA OnceStays ==
  ASSUME EnqueuedOnce, QueueKept, SameAttempts, api' = api,
         run.status # "absent" => run'.status # "absent"
  PROVE  EnqueuedOnce'
BY TurnAssumption DEF EnqueuedOnce, QueueKept, SameAttempts

\* What the other workers' copies and spans say stays true.
LEMMA OthersStay ==
  ASSUME IInv, StepKeeps, NEW v \in Worker, WorkerShape(v), InSpan(v), exec'[v] = exec[v]
  PROVE  WorkerShape(v)' /\ InSpan(v)'
<1>1. WorkerShape(v)' BY DEF WorkerShape
<1>2. CASE exec[v].pc \in {"handler", "commit"}
  <2>1. exec[v].job \in Job /\ queue[exec[v].job].status # "absent"
    BY <1>2 DEF IInv, WorkerOK
  <2>2. \A p \in Step : exec[v].job \in Reachers(p)' <=> exec[v].job \in Reachers(p)
    BY <2>1, SpanStays
  <2> QED BY <1>1, <2>2 DEF InSpan
<1>3. CASE exec[v].pc \notin {"handler", "commit"}
  BY <1>1, <1>3 DEF InSpan
<1> QED BY <1>1, <1>2, <1>3

\* A step of worker w that neither is granted a job nor executes anything.
LEMMA WByWorker ==
  ASSUME WInv, IInv', NEW w \in Worker, StepKeeps, QueueKept, SameAttempts,
         api' = api, ran' = ran, acted' = acted,
         \A v \in Worker \ {w} : exec'[v] = exec[v],
         Shape(run'), run.status # "absent" => run'.status # "absent",
         WorkerShape(w)', InSpan(w)', OwesLess(w)
  PROVE  WInv'
<1>1. Covered'
  BY SameWorkerOwes, NothingDone DEF WInv
<1>2. EnqueuedOnce'
  BY OnceStays DEF WInv
<1>3. \A v \in Worker : WorkerShape(v)' /\ InSpan(v)'
  BY OthersStay DEF WInv
<1>4. Shapes'
  BY DEF Shapes, WInv
<1> QED BY <1>1, <1>2, <1>3, <1>4 DEF WInv

\* A worker that lets go of its job owes nothing.
LEMMA IdleOwesNothing ==
  ASSUME IInv, NEW w \in Worker, IdlesWorker(w)
  PROVE  /\ WorkerShape(w)' /\ InSpan(w)' /\ OwesLess(w)
         /\ \A v \in Worker \ {w} : exec'[v] = exec[v]
<1>1. exec'[w] = IdleWorker /\ \A v \in Worker \ {w} : exec'[v] = exec[v]
  BY DEF IdlesWorker, IInv, TypeOK
<1>2. exec'[w].pc = "idle" /\ exec'[w].run = AbsentRun
  BY <1>1 DEF IdleWorker
<1>3. WorkerShape(w)'
  BY <1>2, EmptyShape DEF WorkerShape, AbsentRun
<1>4. InSpan(w)' /\ OwesLess(w)
  BY <1>2 DEF InSpan, OwesLess, Owes, OwesAct, ResumePcs
<1> QED BY <1>1, <1>3, <1>4

\* What worker w may still execute when it goes on under the same grant.
LEMMA OwesWhenMoved ==
  ASSUME IInv, StepKeeps, NEW w \in Worker, NEW pc, NEW r, Goes(w, pc, r), exec[w].pc # "idle",
         \A p \in Step :
           \/ ~(\/ pc \in {"adopt"} \cup ResumePcs
                \/ pc = "handler" /\ r.journal[p].status = "absent"
                \/ pc = "commit" /\ r.journal[p].status = "absent" /\ ~Reaches(r.journal, p))
           \/ exec[w].pc \in {"adopt"} \cup ResumePcs
           \/ exec[w].pc = "handler" /\ exec[w].run.journal[p].status = "absent"
           \/ exec[w].pc = "commit" /\ exec[w].run.journal[p].status = "absent"
              /\ ~Reaches(exec[w].run.journal, p),
         pc \in {"check", "load", "act"} => exec[w].pc \in {"check", "load", "act"}
  PROVE  OwesLess(w)
<1>1. exec'[w].pc = pc /\ exec'[w].run = r /\ exec'[w].job = exec[w].job
  BY SlotIs
<1>2. exec[w].job \in Job /\ queue[exec[w].job].status # "absent"
  BY DEF IInv, WorkerOK
<1>3. \A p \in Step : exec[w].job \in Reachers(p)' <=> exec[w].job \in Reachers(p)
  BY <1>2, SpanStays
<1>4. payload'[exec[w].job] = payload[exec[w].job]
  BY <1>2 DEF StepKeeps
<1>5. ASSUME NEW p \in Step, Owes(w, p)' PROVE Owes(w, p)
  BY <1>1, <1>3, <1>5 DEF Owes
<1> QED BY <1>1, <1>4, <1>5 DEF OwesLess, OwesAct, Resuming
-----------------------------------------------------------------------------
(* The steps of a worker. *)

\* Letting go of the job: a report, a refused or failed resume, a death.
LEMMA WLetsGo ==
  ASSUME WInv, IInv', NEW w \in Worker,
         Report(w) \/ RefuseResume(w) \/ ActFails(w) \/ WorkRaises(w) \/ WorkerDies(w)
  PROVE  WInv'
<1>1. QueueKept /\ SameAttempts
  <2>1. CASE WorkerDies(w)
    BY <2>1, SameQueue DEF WorkerDies, WInv
  <2>2. CASE ~WorkerDies(w)
    BY <2>2, QueueSteps, QueueAttempts
       DEF WInv, IInv, RefuseResume, ActFails, WorkRaises, Report
  <2> QED BY <2>1, <2>2
<1>2. UNCHANGED <<run, approval, payload, api, ran, acted, decided>> /\ IdlesWorker(w)
  BY DEF RefuseResume, ActFails, WorkRaises, Report, ReportFailed, WorkerDies
<1> QED BY <1>1, <1>2, KeepsByQueue, IdleOwesNothing, WByWorker DEF WInv, Shapes

LEMMA WClaimsNothing ==
  ASSUME WInv, IInv', NEW w \in Worker, ClaimNothing(w)
  PROVE  WInv'
<1>1. QueueKept /\ SameAttempts
  BY QueueSteps, QueueAttempts DEF WInv, IInv
<1>2. UNCHANGED <<run, approval, payload, exec, api, ran, acted, decided>>
  BY DEF ClaimNothing
<1>3. StepKeeps BY <1>1, <1>2, KeepsByQueue
<1>4. WorkerShape(w)' /\ InSpan(w)' /\ OwesLess(w)
  BY <1>2, <1>3, OthersStay, SameWorkerOwes DEF WInv
<1> QED BY <1>1, <1>2, <1>3, <1>4, WByWorker DEF WInv, Shapes

\* A grant: worker w takes on what job j's span holds, and j has one grant more.
LEMMA WClaims ==
  ASSUME WInv, IInv', NEW w \in Worker, NEW j \in Job, Claim(w, j)
  PROVE  WInv'
<1>1. QueueKept
  BY QueueSteps DEF WInv, IInv
<1>2. /\ queue'[j].attempts = queue[j].attempts + 1
      /\ \A k \in Job \ {j} : queue'[k].attempts = queue[k].attempts
      /\ \A k \in Job : queue[k].attempts \in Nat
  BY QueueAttempts, GrantedIsPresent DEF WInv
<1>3. UNCHANGED <<run, approval, payload, api, ran, acted, decided>> /\ exec[w].pc = "idle"
  BY DEF Claim
<1>4. StepKeeps BY <1>1, <1>3, KeepsByQueue
<1>5. /\ exec'[w].pc = (IF j = Turn THEN "adopt" ELSE "check")
      /\ exec'[w].job = j /\ exec'[w].run = exec[w].run
      /\ \A v \in Worker \ {w} : exec'[v] = exec[v]
  BY DEF Claim, WInv, IInv, TypeOK
<1>6. queue'[j].status # "absent" /\ queue[j].status # "absent"
  BY <1>1, QueueSteps DEF WInv, IInv, QueueKept
<1>7. \A k \in Job : queue'[k].attempts > 0 => queue[k].status # "absent"
  BY <1>2, <1>6, GrantedIsPresent DEF WInv
<1>8. (\A p : Reachers(p)' \subseteq Job) /\ \A a : ResumesOf(a)' \subseteq Job
  BY TurnAssumption DEF Reachers, ResumesOf, Resumes
<1>9. IsFiniteSet(GrantsOf(Job)) /\ IsFiniteSet(Busy)
  BY DEF WInv, Covered
<1>10. IsFiniteSet(GrantsOf(Job))'
  <2>1. IsFiniteSet(PairsOf(Job, queue))
    BY <1>9 DEF GrantsOf, PairsOf
  <2>2. IsFiniteSet(PairsOf(Job, queue'))
    BY <1>2, <2>1, OneMorePair
  <2> QED BY <2>2 DEF GrantsOf, PairsOf
<1>11. IsFiniteSet(Busy)'
  <2>1. Busy' \subseteq Busy \cup {w}
    BY <1>5 DEF Busy
  <2>2. IsFiniteSet(Busy \cup {w})
    BY <1>9, FS_AddElement
  <2> QED BY <2>1, <2>2, FS_Subset
<1>12. \A v \in Worker \ {w} : OwesLess(v)
  BY <1>4, <1>5, SameWorkerOwes DEF WInv
<1>13. ASSUME NEW p \in Step \ Gates
       PROVE  ran'[p] + Cardinality(Owing(p)') <= Grants(Reachers(p))'
  <2> DEFINE jobs == Reachers(p)
             jobs1 == Reachers(p)'
             owing == Owing(p)
             owing1 == Owing(p)'
             more == IF j \in jobs THEN 1 ELSE 0
  <2>1. jobs \in SUBSET Job /\ jobs1 \in SUBSET Job BY <1>8, SpansAreJobs
  <2>2. \A k \in Job : queue'[k].attempts > 0 => (k \in jobs1 <=> k \in jobs)
    BY <1>4, <1>7, SpanStays DEF WInv
  <2>3. IsFiniteSet(PairsOf(jobs, queue)) /\ Grants(jobs) \in Nat
    BY <1>9, <2>1, SomeGrants DEF GrantsOf, PairsOf
  <2>4. /\ Grants(jobs) = Cardinality(PairsOf(jobs, queue))
        /\ Grants(Reachers(p))' = Cardinality(PairsOf(jobs1, queue'))
    BY DEF Grants, GrantsOf, PairsOf
  <2>5. j \in jobs1 <=> j \in jobs
    BY <1>4, <1>6, SpanStays DEF WInv
  <2>6. owing1 \subseteq IF j \in jobs THEN owing \cup {w} ELSE owing
    BY <1>5, <1>12, <2>5 DEF Owing, OwesLess, Owes
  <2>7. IsFiniteSet(owing) /\ Cardinality(owing) \in Nat
    BY <1>9, SomeOwing
  <2> HIDE DEF jobs, jobs1, owing, owing1
  <2>8. /\ IsFiniteSet(owing \cup {w}) /\ Cardinality(owing \cup {w}) \in Nat
        /\ Cardinality(owing \cup {w}) <= Cardinality(owing) + 1
    BY <2>7, OneMore
  <2>9. Cardinality(owing1) \in Nat /\ Cardinality(owing1) <= Cardinality(owing) + more
    <3>1. CASE j \in jobs
      <4>1. Cardinality(owing1) \in Nat /\ Cardinality(owing1) <= Cardinality(owing \cup {w})
        BY <2>6, <2>8, <3>1, FS_Subset, FS_CardinalityType
      <4> QED BY <2>7, <2>8, <3>1, <4>1
    <3>2. CASE j \notin jobs
      <4>1. Cardinality(owing1) \in Nat /\ Cardinality(owing1) <= Cardinality(owing)
        BY <2>6, <2>7, <3>2, FS_Subset, FS_CardinalityType
      <4> QED BY <2>7, <3>2, <4>1
    <3> QED BY <3>1, <3>2
  <2>10. Cardinality(PairsOf(jobs1, queue')) = Cardinality(PairsOf(jobs, queue)) + more
    BY <1>2, <2>1, <2>2, <2>3, OneMorePair
  <2>11. ran[p] \in Nat /\ ran'[p] = ran[p] /\ ran[p] + Cardinality(owing) <= Grants(jobs)
    BY <1>3 DEF WInv, Covered, IInv, TypeOK, owing, jobs
  <2>12. ran'[p] + Cardinality(owing1) <= Grants(jobs) + more
    BY <2>3, <2>7, <2>9, <2>11
  <2> QED BY <2>4, <2>10, <2>12 DEF owing1
<1>14. ASSUME NEW a \in Approval
       PROVE  acted'[a] + Cardinality(OwingAct(a)') <= Grants(ResumesOf(a))'
  <2> DEFINE jobs == ResumesOf(a)
             jobs1 == ResumesOf(a)'
             owing == OwingAct(a)
             owing1 == OwingAct(a)'
             more == IF j \in jobs THEN 1 ELSE 0
  <2>1. jobs \in SUBSET Job /\ jobs1 \in SUBSET Job BY <1>8, SpansAreJobs
  <2>2. \A k \in Job : queue'[k].attempts > 0 => (k \in jobs1 <=> k \in jobs)
    BY <1>4, <1>7, SpanStays DEF WInv
  <2>3. IsFiniteSet(PairsOf(jobs, queue)) /\ Grants(jobs) \in Nat
    BY <1>9, <2>1, SomeGrants DEF GrantsOf, PairsOf
  <2>4. /\ Grants(jobs) = Cardinality(PairsOf(jobs, queue))
        /\ Grants(ResumesOf(a))' = Cardinality(PairsOf(jobs1, queue'))
    BY DEF Grants, GrantsOf, PairsOf
  <2>5. owing1 \subseteq IF j \in jobs THEN owing \cup {w} ELSE owing
    <3>1. OwesAct(w, a)' => j \in jobs
      BY <1>3, <1>5 DEF OwesAct, Resuming, ResumesOf, Resumes
    <3> QED BY <1>12, <3>1 DEF OwingAct, OwesLess
  <2>6. IsFiniteSet(owing) /\ Cardinality(owing) \in Nat
    BY <1>9, SomeOwing
  <2> HIDE DEF jobs, jobs1, owing, owing1
  <2>7. /\ IsFiniteSet(owing \cup {w}) /\ Cardinality(owing \cup {w}) \in Nat
        /\ Cardinality(owing \cup {w}) <= Cardinality(owing) + 1
    BY <2>6, OneMore
  <2>8. Cardinality(owing1) \in Nat /\ Cardinality(owing1) <= Cardinality(owing) + more
    <3>1. CASE j \in jobs
      <4>1. Cardinality(owing1) \in Nat /\ Cardinality(owing1) <= Cardinality(owing \cup {w})
        BY <2>5, <2>7, <3>1, FS_Subset, FS_CardinalityType
      <4> QED BY <2>6, <2>7, <3>1, <4>1
    <3>2. CASE j \notin jobs
      <4>1. Cardinality(owing1) \in Nat /\ Cardinality(owing1) <= Cardinality(owing)
        BY <2>5, <2>6, <3>2, FS_Subset, FS_CardinalityType
      <4> QED BY <2>6, <3>2, <4>1
    <3> QED BY <3>1, <3>2
  <2>9. Cardinality(PairsOf(jobs1, queue')) = Cardinality(PairsOf(jobs, queue)) + more
    BY <1>2, <2>1, <2>2, <2>3, OneMorePair
  <2>10. acted[a] \in Nat /\ acted'[a] = acted[a] /\ acted[a] + Cardinality(owing) <= Grants(jobs)
    BY <1>3 DEF WInv, Covered, IInv, TypeOK, owing, jobs
  <2>11. acted'[a] + Cardinality(owing1) <= Grants(jobs) + more
    BY <2>3, <2>6, <2>8, <2>10
  <2> QED BY <2>4, <2>9, <2>11 DEF owing1
<1>15. Covered'
  BY <1>3, <1>10, <1>11, <1>13, <1>14 DEF WInv, Covered
<1>16. EnqueuedOnce'
  <2>1. \A k \in Job : queue'[k].status = "absent" => queue'[k].attempts = 0
    BY <1>1, <1>2, <1>6 DEF WInv, EnqueuedOnce, QueueKept
  <2> QED BY <1>1, <1>3, <2>1, TurnAssumption DEF WInv, EnqueuedOnce, QueueKept
<1>17. WorkerShape(w)' /\ InSpan(w)'
  BY <1>5 DEF WInv, WorkerShape, InSpan
<1>18. \A v \in Worker : WorkerShape(v)' /\ InSpan(v)'
  BY <1>4, <1>5, <1>17, OthersStay DEF WInv
<1> QED BY <1>3, <1>15, <1>16, <1>18 DEF WInv, Shapes
-----------------------------------------------------------------------------
\* A step on which worker w moves on under the grant it has, executing nothing.
LEMMA WMoves ==
  ASSUME WInv, IInv', NEW w \in Worker, NEW pc, NEW r, Goes(w, pc, r), exec[w].pc # "idle",
         pc # "adopt", StepKeeps, QueueKept, SameAttempts, api' = api, ran' = ran, acted' = acted,
         Shape(run'), run.status # "absent" => run'.status # "absent",
         Shape(r), r.status # "rejected",
         pc \in {"act", "approved", "resume"} => r.status = "waiting_approval",
         pc \in {"handler", "commit"} => r.status = "running",
         pc \in {"ask", "settle", "report"} => r.status # "absent",
         pc \in {"handler", "commit"} =>
           \A p \in Step \ Gates : Reaches(r.journal, p) => exec[w].job \in Reachers(p),
         \A p \in Step :
           \/ ~(\/ pc \in {"adopt"} \cup ResumePcs
                \/ pc = "handler" /\ r.journal[p].status = "absent"
                \/ pc = "commit" /\ r.journal[p].status = "absent" /\ ~Reaches(r.journal, p))
           \/ exec[w].pc \in {"adopt"} \cup ResumePcs
           \/ exec[w].pc = "handler" /\ exec[w].run.journal[p].status = "absent"
           \/ exec[w].pc = "commit" /\ exec[w].run.journal[p].status = "absent"
              /\ ~Reaches(exec[w].run.journal, p),
         pc \in {"check", "load", "act"} => exec[w].pc \in {"check", "load", "act"}
  PROVE  WInv'
<1>1. /\ exec'[w].pc = pc /\ exec'[w].run = r /\ exec'[w].job = exec[w].job
      /\ \A v \in Worker \ {w} : exec'[v] = exec[v]
  BY SlotIs DEF WInv
<1>2. WorkerShape(w)'
  BY <1>1 DEF WorkerShape
<1>3. exec[w].job \in Job /\ queue[exec[w].job].status # "absent"
  BY DEF WInv, IInv, WorkerOK
<1>4. \A p \in Step : exec[w].job \in Reachers(p)' <=> exec[w].job \in Reachers(p)
  BY <1>3, SpanStays DEF WInv
<1>5. InSpan(w)'
  BY <1>1, <1>4 DEF InSpan
<1>6. OwesLess(w)
  BY OwesWhenMoved DEF WInv
<1> QED BY <1>1, <1>2, <1>5, <1>6, WByWorker

LEMMA WorkerFacts ==
  ASSUME WInv, NEW w \in Worker
  PROVE  /\ WorkerShape(w) /\ InSpan(w) /\ Shape(run) /\ run \in RunDoc
         /\ exec[w].run \in RunDoc /\ exec[w].run.journal \in [Step -> Entry]
         /\ exec[w].pc \in ResumePcs =>
              /\ Resuming(w) \in Approval /\ exec[w].job \in Resumes
              /\ payload[exec[w].job] = Resuming(w)
BY ResumingDecided DEF WInv, Shapes, IInv, TypeOK, WorkerDoc, ClientDoc, RunDoc, Resuming

LEMMA WAdopts ==
  ASSUME WInv, IInv', NEW w \in Worker, Adopt(w)
  PROVE  WInv'
<1> DEFINE r == [status |-> "running", journal |-> EmptyJournal]
<1>1. QueueKept /\ SameAttempts /\ StepKeeps
  BY SameQueue, KeepsByQueue DEF Adopt, WInv
<1>2. Goes(w, "handler", r) /\ run' = r /\ exec[w].pc = "adopt"
  BY DEF Adopt
<1>3. Shape(r) /\ r.status = "running"
  BY EmptyShape
<1>4. exec[w].job = Turn
  BY <1>2 DEF WInv, WorkerShape
<1>5. \A p \in Step \ Gates : Reaches(r.journal, p) => exec[w].job \in Reachers(p)
  <2> SUFFICES ASSUME NEW p \in Step \ Gates, Reaches(r.journal, p)
               PROVE  Turn \in Reachers(p)
    BY <1>4
  <2>1. p = 1
    <3>1. Reaches(EmptyJournal, 1)
      BY HandlerAssumption DEF Reaches, EmptyJournal, NoEntry, Memoized, Step
    <3> QED BY <3>1, ReachesOne
  <2>2. \A g \in Gates : g >= p
    BY <2>1, HandlerAssumption
  <2> QED BY <2>2 DEF Reachers
<1> QED
  BY <1>1, <1>2, <1>3, <1>5, WMoves DEF Adopt, ResumePcs

LEMMA WResumes ==
  ASSUME WInv, IInv', NEW w \in Worker,
         CheckApproval(w) \/ LoadPaused(w) \/ SaveApproved(w) \/ SaveResumed(w)
  PROVE  WInv'
<1>1. QueueKept /\ SameAttempts
  BY SameQueue DEF CheckApproval, LoadPaused, SaveApproved, SaveResumed, WInv
<1>2. /\ WorkerShape(w) /\ InSpan(w) /\ Shape(run) /\ run \in RunDoc
      /\ exec[w].run \in RunDoc /\ exec[w].run.journal \in [Step -> Entry]
  BY WorkerFacts
<1>3. CASE CheckApproval(w)
  <2>1. StepKeeps BY <1>1, <1>3, KeepsByQueue DEF CheckApproval
  <2> QED BY <1>1, <1>2, <1>3, <2>1, WMoves DEF CheckApproval, WorkerShape, ResumePcs
<1>4. CASE LoadPaused(w)
  <2>1. StepKeeps BY <1>1, <1>4, KeepsByQueue DEF LoadPaused
  <2> QED BY <1>1, <1>2, <1>4, <2>1, WMoves DEF LoadPaused, ResumePcs
<1>5. CASE SaveApproved(w)
  <2>1. Resuming(w) \in Approval /\ approval[Resuming(w)] \in ApprovalDoc
    BY <1>5, WorkerFacts DEF SaveApproved, ResumePcs, WInv, IInv, TypeOK
  <2>2. StepKeeps
    BY <1>1, <1>5, <2>1
       DEF SaveApproved, StepKeeps, Monotone, QueueKept, WInv, IInv, TypeOK, ApprovalDoc
  <2> QED BY <1>1, <1>2, <1>5, <2>2, WMoves DEF SaveApproved, WorkerShape, ResumePcs
<1>6. CASE SaveResumed(w)
  <2> DEFINE journal1 == Resolve(exec[w].run.journal, Resuming(w), "approved")
             r == [status |-> "running", journal |-> journal1]
  <2>1. StepKeeps BY <1>1, <1>6, KeepsByQueue DEF SaveResumed
  <2>2. Goes(w, "handler", r) /\ run' = r /\ exec[w].pc = "resume"
    BY <1>6 DEF SaveResumed
  <2>3. /\ Resuming(w) \in Approval /\ exec[w].job \in Resumes
        /\ payload[exec[w].job] = Resuming(w)
    BY <2>2, WorkerFacts DEF ResumePcs
  <2>4. /\ Shape(r)
        /\ \A p \in Step \ Gates : Reaches(journal1, p) =>
             /\ \E g \in Gates : approval[Resuming(w)].gate = g /\ g < p
             /\ \A g \in Gates : g < p => g <= approval[Resuming(w)].gate
    BY <1>2, <2>2, <2>3, ResumedShape DEF WorkerShape, WInv, IInv, WorkerOK
  <2>5. \A p \in Step \ Gates : Reaches(r.journal, p) => exec[w].job \in Reachers(p)
    <3> SUFFICES ASSUME NEW p \in Step \ Gates, Reaches(journal1, p)
                 PROVE  exec[w].job \in Reachers(p)
      OBVIOUS
    <3>1. PICK g \in Gates : approval[Resuming(w)].gate = g /\ g < p
      BY <2>4
    <3>2. ~(\A h \in Gates : h >= p)
      BY <3>1, HandlerAssumption DEF Step
    <3> QED BY <2>3, <2>4, <3>1, <3>2, NoApprovalAssumption DEF Reachers
  <2>6. r.status = "running"
    OBVIOUS
  <2> HIDE DEF r
  <2> QED BY <1>1, <1>6, <2>1, <2>2, <2>4, <2>5, <2>6, WMoves DEF SaveResumed, ResumePcs
<1> QED BY <1>3, <1>4, <1>5, <1>6
-----------------------------------------------------------------------------
\* The steps that save or leave the copy the handler works on.
LEMMA WDrives ==
  ASSUME WInv, IInv', NEW w \in Worker, NEW p \in Step,
         \/ CommitStep(w, p) \/ PauseAgain(w, p) \/ SavePause(w) \/ HandlerReturns(w) \/ Settle(w)
         \/ HandlerRaises(w)
  PROVE  WInv'
<1>1. QueueKept /\ SameAttempts
  BY SameQueue
     DEF CommitStep, PauseAgain, SavePause, HandlerReturns, Settle, HandlerRaises, Leave, WInv
<1>2. /\ WorkerShape(w) /\ InSpan(w) /\ Shape(run) /\ run \in RunDoc
      /\ exec[w].run \in RunDoc /\ exec[w].run.journal \in [Step -> Entry]
  BY WorkerFacts
<1>3. StepKeeps
  BY <1>1, KeepsByQueue
     DEF CommitStep, PauseAgain, SavePause, HandlerReturns, Settle, HandlerRaises, Leave
<1>4. CASE CommitStep(w, p)
  <2> DEFINE r1 == [exec[w].run EXCEPT
                      !.journal = [@ EXCEPT ![p] = [status |-> "done", approval |-> NoApproval]]]
  <2>1. /\ exec[w].pc = "commit" /\ Reaches(exec[w].run.journal, p)
        /\ run' = r1 /\ Goes(w, "handler", r1)
    BY <1>4 DEF CommitStep
  <2>2. exec[w].run.status = "running" /\ p \in Step \ Gates
    BY <1>2, <2>1 DEF WorkerShape, WInv, IInv, WorkerOK, Reaches
  <2>3. /\ r1 \in RunDoc /\ r1.status = exec[w].run.status /\ Shape(r1)
        /\ \A q \in Step : r1.journal[q].status = "absent" =>
             q # p /\ exec[w].run.journal[q].status = "absent"
        /\ Reaches(r1.journal, p + 1)
    BY <1>2, <2>1, <2>2, CommittedShape DEF WorkerShape
  <2> HIDE DEF r1
  <2>4. \A q \in Step \ Gates : Reaches(r1.journal, q) => exec[w].job \in Reachers(q)
    <3> SUFFICES ASSUME NEW q \in Step \ Gates, Reaches(r1.journal, q)
                 PROVE  exec[w].job \in Reachers(q)
      OBVIOUS
    <3>1. q = p + 1 BY <2>3, ReachesOne
    <3>2. exec[w].job \in Reachers(p)
      BY <1>2, <2>1, <2>2 DEF InSpan
    <3>3. ASSUME NEW g \in Gates PROVE (g >= p <=> g >= q) /\ (g < p <=> g < q)
      BY <2>2, <3>1, HandlerAssumption DEF Step
    <3>4. \A j \in Resumes :
            payload[j] # NoApproval /\ approval[payload[j]].gate < p
              => approval[payload[j]].gate < q
      BY <2>2, <3>1, HandlerAssumption DEF WInv, IInv, TypeOK, ApprovalDoc, Resumes, Step
    <3>5. CASE \A g \in Gates : g >= p
      BY <3>2, <3>3, <3>5 DEF Reachers
    <3>6. CASE ~(\A g \in Gates : g >= p)
      <4>1. ~(\A g \in Gates : g >= q) BY <3>3, <3>6
      <4>2. /\ exec[w].job \in Resumes /\ payload[exec[w].job] # NoApproval
            /\ \A g \in Gates : g < p => g <= approval[payload[exec[w].job]].gate
            /\ approval[payload[exec[w].job]].gate < p
        BY <3>2, <3>6 DEF Reachers
      <4>3. approval[payload[exec[w].job]].gate < q
        BY <3>4, <4>2
      <4>4. \A g \in Gates : g < q => g <= approval[payload[exec[w].job]].gate
        BY <3>3, <4>2
      <4> QED BY <4>1, <4>2, <4>3, <4>4 DEF Reachers
    <3> QED BY <3>5, <3>6
  <2>5. ASSUME NEW q \in Step, r1.journal[q].status = "absent"
        PROVE  exec[w].run.journal[q].status = "absent" /\ ~Reaches(exec[w].run.journal, q)
    BY <2>1, <2>3, <2>5, ReachesOne
  <2> QED
    BY <1>1, <1>2, <1>3, <1>4, <2>1, <2>2, <2>3, <2>4, <2>5, WMoves DEF CommitStep, WorkerShape, ResumePcs
<1>5. ASSUME NEW status \in {"waiting_approval", "failed", "completed"},
             exec[w].pc \in {"handler", "commit", "ask"}, Leave(w, status),
             status = "waiting_approval" =>
               \E g \in Gates : Reaches(exec[w].run.journal, g)
                                /\ exec[w].run.journal[g].status = "pending"
      PROVE  WInv'
  <2> DEFINE r1 == [exec[w].run EXCEPT !.status = status]
  <2>1. Goes(w, "settle", r1) /\ UNCHANGED <<run, approval, queue, payload, api, ran, acted, decided>>
    BY <1>5 DEF Leave
  <2>2. r1.status = status /\ status \in RunStatus
    BY <1>2 DEF RunDoc, RunStatus, Finished
  <2>3. Shape(r1)
    BY <1>2, <1>5, <2>2, LeftShape DEF WorkerShape
  <2> HIDE DEF r1
  <2> QED BY <1>1, <1>2, <1>3, <1>5, <2>1, <2>2, <2>3, WMoves DEF ResumePcs
<1>6. CASE PauseAgain(w, p)
  BY <1>5, <1>6 DEF PauseAgain, At
<1>7. CASE HandlerReturns(w)
  BY <1>5, <1>7 DEF HandlerReturns, At
<1>8. CASE HandlerRaises(w)
  BY <1>5, <1>8 DEF HandlerRaises
<1>9. CASE SavePause(w)
  BY <1>1, <1>2, <1>3, <1>9, WMoves DEF SavePause, WorkerShape, ResumePcs
<1>10. CASE Settle(w)
  BY <1>1, <1>2, <1>3, <1>10, WMoves DEF Settle, WorkerShape, ResumePcs
<1> QED BY <1>4, <1>6, <1>7, <1>8, <1>9, <1>10

LEMMA WAsks ==
  ASSUME WInv, IInv', NEW w \in Worker, NEW p \in Gates, NEW a \in Approval, AskApproval(w, p, a)
  PROVE  WInv'
<1> DEFINE r1 == [status |-> "waiting_approval",
                  journal |-> [exec[w].run.journal EXCEPT
                                 ![p] = [status |-> "pending", approval |-> a]]]
<1>1. QueueKept /\ SameAttempts
  BY SameQueue DEF AskApproval, WInv
<1>2. /\ WorkerShape(w) /\ InSpan(w) /\ Shape(run) /\ run \in RunDoc
      /\ exec[w].run \in RunDoc /\ exec[w].run.journal \in [Step -> Entry]
  BY WorkerFacts
<1>3. StepKeeps
  BY DEF AskApproval, StepKeeps, Monotone, WInv, IInv, TypeOK
<1>4. exec[w].pc = "handler" /\ Goes(w, "ask", r1) /\ Reaches(exec[w].run.journal, p)
  BY DEF AskApproval, At
<1>5. r1.status = "waiting_approval" /\ Shape(r1)
  BY <1>2, <1>4, AskedShape DEF WorkerShape
<1> HIDE DEF r1
<1> QED BY <1>1, <1>2, <1>3, <1>4, <1>5, WMoves DEF AskApproval, ResumePcs

\* An execution: worker w owed it, and owes it no more.
LEMMA Executed ==
  ASSUME NEW owing, NEW owing1, NEW w, NEW n \in Nat, NEW grants \in Nat,
         IsFiniteSet(owing), w \in owing, owing1 \subseteq owing \ {w},
         n + Cardinality(owing) <= grants
  PROVE  (n + 1) + Cardinality(owing1) <= grants
<1>1. Cardinality(owing) \in Nat /\ Cardinality(owing \ {w}) = Cardinality(owing) - 1
      /\ IsFiniteSet(owing \ {w})
  BY FS_CardinalityType, FS_RemoveElement
<1>2. Cardinality(owing1) \in Nat /\ Cardinality(owing1) <= Cardinality(owing \ {w})
  BY <1>1, FS_Subset, FS_CardinalityType
<1> QED BY <1>1, <1>2

LEMMA NoMoreOwed ==
  ASSUME NEW owing, NEW owing1, NEW n \in Nat, NEW grants \in Nat,
         IsFiniteSet(owing), owing1 \subseteq owing, n + Cardinality(owing) <= grants
  PROVE  n + Cardinality(owing1) <= grants
<1>1. Cardinality(owing) \in Nat /\ Cardinality(owing1) \in Nat
      /\ Cardinality(owing1) <= Cardinality(owing)
  BY FS_Subset, FS_CardinalityType
<1> QED BY <1>1

LEMMA WRuns ==
  ASSUME WInv, IInv', NEW w \in Worker, NEW p \in Step, RunStep(w, p)
  PROVE  WInv'
<1>1. QueueKept /\ SameAttempts
  BY SameQueue DEF RunStep, WInv
<1>2. /\ WorkerShape(w) /\ InSpan(w) /\ Shape(run) /\ run \in RunDoc
      /\ exec[w].run \in RunDoc /\ exec[w].run.journal \in [Step -> Entry]
  BY WorkerFacts
<1>3. StepKeeps
  BY <1>1, KeepsByQueue DEF RunStep
<1>4. /\ exec[w].pc = "handler" /\ Reaches(exec[w].run.journal, p) /\ p \in Step \ Gates
      /\ Goes(w, "commit", exec[w].run) /\ ran' = [ran EXCEPT ![p] = @ + 1]
      /\ UNCHANGED <<run, approval, queue, payload, api, acted, decided>>
  BY DEF RunStep, At
<1>5. /\ exec'[w].pc = "commit" /\ exec'[w].run = exec[w].run /\ exec'[w].job = exec[w].job
      /\ \A v \in Worker \ {w} : exec'[v] = exec[v]
  BY <1>4, SlotIs DEF WInv
<1>6. exec[w].job \in Job /\ queue[exec[w].job].status # "absent"
  BY <1>4 DEF WInv, IInv, WorkerOK
<1>7. \A q \in Step : exec[w].job \in Reachers(q)' <=> exec[w].job \in Reachers(q)
  BY <1>3, <1>6, SpanStays DEF WInv
<1>8. WorkerShape(w)' /\ InSpan(w)'
  BY <1>2, <1>4, <1>5, <1>7 DEF WorkerShape, InSpan
<1>9. OwesLess(w)
  BY <1>3, <1>4, OwesWhenMoved DEF WInv, ResumePcs
<1>10. \A v \in Worker : OwesLess(v)
  BY <1>3, <1>5, <1>9, SameWorkerOwes DEF WInv
<1>11. Owes(w, p) /\ ~Owes(w, p)'
  <2>1. exec[w].job \in Reachers(p)
    BY <1>2, <1>4 DEF InSpan
  <2>2. exec[w].run.journal[p].status = "absent"
    <3>1. ~Memoized(exec[w].run.journal[p])
      BY <1>4, HandlerAssumption DEF Reaches, Step
    <3> QED BY <1>4, <3>1 DEF Memoized, WInv, IInv, WorkerOK, JournalOK
  <2> QED BY <1>4, <1>5, <2>1, <2>2 DEF Owes, ResumePcs
<1>12. IsFiniteSet(GrantsOf(Job)) /\ IsFiniteSet(Busy)
  BY DEF WInv, Covered
<1>13. /\ \A q \in Step : Grants(Reachers(q))' = Grants(Reachers(q)) /\ Grants(Reachers(q)) \in Nat
       /\ \A a : Grants(ResumesOf(a))' = Grants(ResumesOf(a)) /\ Grants(ResumesOf(a)) \in Nat
       /\ GrantsOf(Job)' = GrantsOf(Job)
  BY <1>1, <1>3, <1>12, GrantsStay, SomeGrants, SpansAreJobs DEF WInv
<1>14. /\ \A q \in Step : Owing(q)' \subseteq Owing(q)
       /\ \A a \in Approval : OwingAct(a)' \subseteq OwingAct(a)
       /\ Busy' \subseteq Busy
  BY <1>10 DEF Owing, OwingAct, Busy, OwesLess
<1>15. ASSUME NEW q \in Step \ Gates
       PROVE  ran'[q] + Cardinality(Owing(q)') <= Grants(Reachers(q))'
  <2>1. ran[q] \in Nat /\ ran[q] + Cardinality(Owing(q)) <= Grants(Reachers(q)) /\ ran \in [Step -> Nat]
    BY DEF WInv, Covered, IInv, TypeOK
  <2>2. IsFiniteSet(Owing(q)) BY <1>12, SomeOwing
  <2>3. CASE q = p
    <3>1. w \in Owing(q) /\ Owing(q)' \subseteq Owing(q) \ {w}
      BY <1>11, <1>14, <2>3 DEF Owing
    <3>2. ran'[q] = ran[q] + 1 BY <1>4, <2>1, <2>3
    <3>3. (ran[q] + 1) + Cardinality(Owing(q)') <= Grants(Reachers(q))
      BY <1>13, <2>1, <2>2, <3>1, Executed
    <3> QED BY <1>13, <3>2, <3>3
  <2>4. CASE q # p
    <3>1. ran'[q] = ran[q] BY <1>4, <2>1, <2>4
    <3>2. ran[q] + Cardinality(Owing(q)') <= Grants(Reachers(q))
      BY <1>13, <1>14, <2>1, <2>2, NoMoreOwed
    <3> QED BY <1>13, <3>1, <3>2
  <2> QED BY <2>3, <2>4
<1>16. ASSUME NEW a \in Approval
       PROVE  acted'[a] + Cardinality(OwingAct(a)') <= Grants(ResumesOf(a))'
  <2>1. acted[a] \in Nat /\ acted'[a] = acted[a]
        /\ acted[a] + Cardinality(OwingAct(a)) <= Grants(ResumesOf(a))
    BY <1>4 DEF WInv, Covered, IInv, TypeOK
  <2>2. IsFiniteSet(OwingAct(a)) BY <1>12, SomeOwing
  <2>3. acted[a] + Cardinality(OwingAct(a)') <= Grants(ResumesOf(a))
    BY <1>13, <1>14, <2>1, <2>2, NoMoreOwed
  <2> QED BY <1>13, <2>1, <2>3
<1>17. Covered'
  <2>1. IsFiniteSet(GrantsOf(Job))' /\ IsFiniteSet(Busy)'
    BY <1>12, <1>13, <1>14, FS_Subset
  <2>2. \A g \in Gates : ran'[g] = 0
    BY <1>4, HandlerAssumption DEF WInv, Covered, IInv, TypeOK, Step
  <2> QED BY <1>15, <1>16, <2>1, <2>2 DEF Covered
<1>18. EnqueuedOnce'
  BY <1>1, <1>4, OnceStays DEF WInv
<1>19. \A v \in Worker : WorkerShape(v)' /\ InSpan(v)'
  BY <1>3, <1>5, <1>8, OthersStay DEF WInv
<1> QED BY <1>4, <1>17, <1>18, <1>19 DEF WInv, Shapes

LEMMA WActs ==
  ASSUME WInv, IInv', NEW w \in Worker, Act(w)
  PROVE  WInv'
<1> DEFINE b == Resuming(w)
<1>1. QueueKept /\ SameAttempts
  BY SameQueue DEF Act, WInv
<1>2. /\ WorkerShape(w) /\ InSpan(w) /\ Shape(run) /\ run \in RunDoc
      /\ exec[w].run \in RunDoc /\ exec[w].run.journal \in [Step -> Entry]
  BY WorkerFacts
<1>3. b \in Approval /\ exec[w].pc = "act"
  BY WorkerFacts DEF Act, ResumePcs
<1>4. /\ Goes(w, "approved", exec[w].run) /\ acted' = [acted EXCEPT ![b] = @ + 1]
      /\ UNCHANGED <<run, approval, queue, payload, api, ran, decided>>
  BY DEF Act
<1>5. StepKeeps
  BY <1>1, <1>3, <1>4 DEF StepKeeps, Monotone, QueueKept, WInv, IInv, TypeOK
<1>6. /\ exec'[w].pc = "approved" /\ exec'[w].run = exec[w].run /\ exec'[w].job = exec[w].job
      /\ \A v \in Worker \ {w} : exec'[v] = exec[v]
  BY <1>4, SlotIs DEF WInv
<1>7. WorkerShape(w)' /\ InSpan(w)'
  BY <1>2, <1>3, <1>6 DEF WorkerShape, InSpan
<1>8. OwesLess(w)
  BY <1>3, <1>4, <1>5, OwesWhenMoved DEF WInv, ResumePcs
<1>9. \A v \in Worker : OwesLess(v)
  BY <1>5, <1>6, <1>8, SameWorkerOwes DEF WInv
<1>10. OwesAct(w, b) /\ \A a : ~OwesAct(w, a)'
  BY <1>3, <1>6 DEF OwesAct
<1> HIDE DEF b
<1>11. IsFiniteSet(GrantsOf(Job)) /\ IsFiniteSet(Busy)
  BY DEF WInv, Covered
<1>12. /\ \A q \in Step : Grants(Reachers(q))' = Grants(Reachers(q)) /\ Grants(Reachers(q)) \in Nat
       /\ \A a : Grants(ResumesOf(a))' = Grants(ResumesOf(a)) /\ Grants(ResumesOf(a)) \in Nat
       /\ GrantsOf(Job)' = GrantsOf(Job)
  BY <1>1, <1>5, <1>11, GrantsStay, SomeGrants, SpansAreJobs DEF WInv
<1>13. /\ \A q \in Step : Owing(q)' \subseteq Owing(q)
       /\ \A a \in Approval : OwingAct(a)' \subseteq OwingAct(a)
       /\ Busy' \subseteq Busy
  BY <1>9 DEF Owing, OwingAct, Busy, OwesLess
<1>14. ASSUME NEW q \in Step \ Gates
       PROVE  ran'[q] + Cardinality(Owing(q)') <= Grants(Reachers(q))'
  <2>1. ran[q] \in Nat /\ ran'[q] = ran[q] /\ ran[q] + Cardinality(Owing(q)) <= Grants(Reachers(q))
    BY <1>4 DEF WInv, Covered, IInv, TypeOK
  <2>2. IsFiniteSet(Owing(q)) BY <1>11, SomeOwing
  <2>3. ran[q] + Cardinality(Owing(q)') <= Grants(Reachers(q))
    BY <1>12, <1>13, <2>1, <2>2, NoMoreOwed
  <2> QED BY <1>12, <2>1, <2>3
<1>15. ASSUME NEW a \in Approval
       PROVE  acted'[a] + Cardinality(OwingAct(a)') <= Grants(ResumesOf(a))'
  <2>1. acted[a] \in Nat /\ acted[a] + Cardinality(OwingAct(a)) <= Grants(ResumesOf(a))
        /\ acted \in [Approval -> Nat]
    BY DEF WInv, Covered, IInv, TypeOK
  <2>2. IsFiniteSet(OwingAct(a)) BY <1>11, SomeOwing
  <2>3. CASE a = b
    <3>1. w \in OwingAct(a) /\ OwingAct(a)' \subseteq OwingAct(a) \ {w}
      BY <1>10, <1>13, <2>3 DEF OwingAct
    <3>2. acted'[a] = acted[a] + 1 BY <1>4, <2>1, <2>3
    <3>3. (acted[a] + 1) + Cardinality(OwingAct(a)') <= Grants(ResumesOf(a))
      BY <1>12, <2>1, <2>2, <3>1, Executed
    <3> QED BY <1>12, <3>2, <3>3
  <2>4. CASE a # b
    <3>1. acted'[a] = acted[a] BY <1>4, <2>1, <2>4
    <3>2. acted[a] + Cardinality(OwingAct(a)') <= Grants(ResumesOf(a))
      BY <1>12, <1>13, <2>1, <2>2, NoMoreOwed
    <3> QED BY <1>12, <3>1, <3>2
  <2> QED BY <2>3, <2>4
<1>16. Covered'
  <2>1. IsFiniteSet(GrantsOf(Job))' /\ IsFiniteSet(Busy)'
    BY <1>11, <1>12, <1>13, FS_Subset
  <2>2. \A g \in Gates : ran'[g] = 0
    BY <1>4 DEF WInv, Covered
  <2> QED BY <1>14, <1>15, <2>1, <2>2 DEF Covered
<1>17. EnqueuedOnce'
  BY <1>1, <1>4, OnceStays DEF WInv
<1>18. \A v \in Worker : WorkerShape(v)' /\ InSpan(v)'
  BY <1>5, <1>6, <1>7, OthersStay DEF WInv
<1> QED BY <1>4, <1>16, <1>17, <1>18 DEF WInv, Shapes
-----------------------------------------------------------------------------
(* The steps of a client, and time. *)

\* A step no worker takes part in.
LEMMA WByOthers ==
  ASSUME WInv, IInv', StepKeeps, SameAttempts, exec' = exec, ran' = ran, acted' = acted,
         Shape(run'), \A c \in Client : Shape(api'[c].run), EnqueuedOnce'
  PROVE  WInv'
<1>1. \A w \in Worker : WorkerShape(w)' /\ InSpan(w)'
  BY OthersStay DEF WInv
<1>2. Covered'
  BY SameWorkerOwes, NothingDone DEF WInv
<1> QED BY <1>1, <1>2 DEF WInv, Shapes

\* A client's step that leaves the run and the queue alone.
LEMMA WByClient ==
  ASSUME WInv, IInv', NEW c \in Client, StepKeeps, UNCHANGED <<run, queue, exec, ran, acted>>,
         \A d \in Client \ {c} : api'[d] = api[d],
         api'[c].pc # "enqueue", Shape(api'[c].run)
  PROVE  WInv'
<1>1. SameAttempts BY SameQueue DEF WInv
<1>2. EnqueuedOnce' BY DEF WInv, EnqueuedOnce
<1> QED BY <1>1, <1>2, WByOthers DEF WInv, Shapes

LEMMA WClient ==
  ASSUME WInv, IInv', NEW c \in Client, Ask(c) \/ Serve(c) \/ ClientDies(c) \/ EnqueueRefused(c)
  PROVE  WInv'
<1>1. /\ Shape(run) /\ \A d \in Client : Shape(api[d].run)
      /\ Shape(AbsentRun) /\ IdleClient.run = AbsentRun /\ IdleClient.pc = "idle"
  BY EmptyShape DEF WInv, Shapes, IdleClient
<1>2. api \in [Client -> [pc: {"idle", "enqueue", "look", "approve", "resume", "load",
                              "reject", "stop"},
                         approval: Approval \cup {NoApproval}, run: RunDoc]]
  BY DEF WInv, IInv, TypeOK, WorkerDoc, ClientDoc
<1>3. /\ TypeOK /\ Decisions /\ queue \in [Job -> JobDoc]
      /\ approval \in [Approval -> ApprovalDoc]
  BY DEF WInv, IInv, TypeOK
<1>4. CASE CreateRun(c)
  <2>1. StepKeeps /\ SameAttempts
    BY <1>4, SameQueue, KeepsByQueue DEF CreateRun, WInv
  <2>2. queue[Turn].status = "absent" /\ \A d \in Client : api[d].pc # "enqueue"
    BY <1>4 DEF CreateRun, WInv, EnqueuedOnce
  <2>3. /\ api'[c].pc = "enqueue" /\ api'[c].run = api[c].run
        /\ \A d \in Client \ {c} : api'[d] = api[d]
        /\ run' = [status |-> "queued", journal |-> EmptyJournal] /\ queue' = queue
    BY <1>2, <1>4 DEF CreateRun
  <2>4. EnqueuedOnce'
    BY <2>2, <2>3 DEF WInv, EnqueuedOnce
  <2>5. Shape(run') /\ \A d \in Client : Shape(api'[d].run)
    BY <1>1, <2>3, EmptyShape
  <2> QED BY <1>4, <2>1, <2>4, <2>5, WByOthers DEF CreateRun
<1>5. CASE EnqueueTurn(c)
  <2>1. /\ queue' = [queue EXCEPT ![Turn] = Enqueued("due")] /\ api' = [api EXCEPT ![c] = IdleClient]
        /\ UNCHANGED <<run, approval, payload, exec, ran, acted, decided>> /\ api[c].pc = "enqueue"
    BY <1>5 DEF EnqueueTurn
  <2>2. queue[Turn].status = "absent" /\ queue[Turn].attempts = 0 /\ run.status # "absent"
    BY <2>1, TurnAssumption DEF WInv, EnqueuedOnce
  <2>3. Enqueued("due").status = "pending" /\ Enqueued("due").attempts = 0
    BY DEF Enqueued, Blank
  <2>4. queue'[Turn] = Enqueued("due") /\ \A j \in Job \ {Turn} : queue'[j] = queue[j]
    BY <1>3, <2>1, TurnAssumption
  <2>5. SameAttempts
    BY <2>2, <2>3, <2>4 DEF SameAttempts
  <2>6. StepKeeps
    BY <2>1, <2>2, <2>4 DEF StepKeeps, Monotone
  <2>7. api'[c] = IdleClient /\ \A d \in Client \ {c} : api'[d] = api[d] /\ api[d].pc # "enqueue"
    BY <1>2, <2>1 DEF WInv, EnqueuedOnce
  <2>8. EnqueuedOnce'
    BY <1>1, <2>1, <2>2, <2>3, <2>4, <2>7 DEF WInv, EnqueuedOnce
  <2> QED BY <1>1, <2>1, <2>5, <2>6, <2>7, <2>8, WByOthers
<1>6. ASSUME NEW j \in Resumes, EnqueueResume(c, j) PROVE WInv'
  <2>1. /\ queue' = [queue EXCEPT ![j] = Enqueued("due")] /\ api' = [api EXCEPT ![c] = IdleClient]
        /\ payload' = [payload EXCEPT ![j] = api[c].approval]
        /\ UNCHANGED <<run, approval, exec, ran, acted, decided>>
        /\ queue[j].status = "absent" /\ j \in Job /\ j # Turn
    BY <1>6 DEF EnqueueResume, Resumes
  <2>2. queue[j].attempts = 0
    BY <2>1 DEF WInv, EnqueuedOnce
  <2>3. Enqueued("due").status = "pending" /\ Enqueued("due").attempts = 0
    BY DEF Enqueued, Blank
  <2>4. queue'[j] = Enqueued("due") /\ \A k \in Job \ {j} : queue'[k] = queue[k]
    BY <1>3, <2>1
  <2>5. SameAttempts
    BY <2>2, <2>3, <2>4 DEF SameAttempts
  <2>6. StepKeeps
    BY <1>3, <2>1, <2>4 DEF StepKeeps, Monotone, TypeOK
  <2>7. api'[c] = IdleClient /\ \A d \in Client \ {c} : api'[d] = api[d]
    BY <1>2, <2>1
  <2>8. EnqueuedOnce'
    BY <1>1, <2>1, <2>3, <2>4, <2>7, TurnAssumption DEF WInv, EnqueuedOnce
  <2> QED BY <1>1, <2>1, <2>5, <2>6, <2>7, <2>8, WByOthers
<1>7. ASSUME NEW a \in Approval, BeginApprove(c, a) \/ BeginReject(c, a) PROVE WInv'
  <2>1. StepKeeps
    BY <1>7, SameQueue, KeepsByQueue DEF BeginApprove, BeginReject, WInv
  <2>2. /\ api'[c].pc # "enqueue" /\ api'[c].run = api[c].run
        /\ \A d \in Client \ {c} : api'[d] = api[d]
    BY <1>2, <1>7 DEF BeginApprove, BeginReject
  <2> QED BY <1>1, <1>7, <2>1, <2>2, WByClient DEF BeginApprove, BeginReject
<1>8. CASE CheckPaused(c) \/ ClientDies(c) \/ EnqueueRefused(c)
  <2>1. StepKeeps
    BY <1>8, SameQueue, KeepsByQueue DEF CheckPaused, ClientDies, EnqueueRefused, WInv
  <2>2. /\ api'[c].pc # "enqueue" /\ api'[c].run \in {api[c].run, AbsentRun}
        /\ \A d \in Client \ {c} : api'[d] = api[d]
    BY <1>1, <1>2, <1>8 DEF CheckPaused, ClientDies, EnqueueRefused
  <2> QED BY <1>1, <1>8, <2>1, <2>2, WByClient DEF CheckPaused, ClientDies, EnqueueRefused
<1>9. CASE LoadRejected(c)
  <2>1. StepKeeps
    BY <1>9, SameQueue, KeepsByQueue DEF LoadRejected, WInv
  <2>2. /\ api'[c].pc # "enqueue" /\ api'[c].run = run
        /\ \A d \in Client \ {c} : api'[d] = api[d]
    BY <1>2, <1>9 DEF LoadRejected
  <2> QED BY <1>1, <1>9, <2>1, <2>2, WByClient DEF LoadRejected
<1>10. CASE SaveApproving(c) \/ SaveRejected(c)
  <2>1. api[c].approval \in Approval
    BY <1>10 DEF SaveApproving, SaveRejected, WInv, IInv, ClientOK, DecisionPcs
  <2>2. StepKeeps
    BY <1>3, <1>10, <2>1 DEF SaveApproving, SaveRejected, StepKeeps, Monotone, ApprovalDoc, TypeOK
  <2>3. /\ api'[c].pc # "enqueue" /\ api'[c].run = api[c].run
        /\ \A d \in Client \ {c} : api'[d] = api[d]
    BY <1>2, <1>10 DEF SaveApproving, SaveRejected
  <2> QED BY <1>1, <1>10, <2>2, <2>3, WByClient DEF SaveApproving, SaveRejected
<1>11. CASE SaveStopped(c)
  <2>1. /\ api' = [api EXCEPT ![c] = IdleClient] /\ run'.status = "rejected" /\ api[c].pc = "stop"
        /\ UNCHANGED <<approval, queue, payload, exec, ran, acted, decided>>
    BY <1>11 DEF SaveStopped
  <2>2. StepKeeps /\ SameAttempts
    BY <2>1, SameQueue, KeepsByQueue DEF WInv
  <2>3. api'[c] = IdleClient /\ \A d \in Client \ {c} : api'[d] = api[d]
    BY <1>2, <2>1
  <2>4. EnqueuedOnce'
    BY <1>1, <2>1, <2>3 DEF WInv, EnqueuedOnce
  <2>5. Shape(run')
    BY <2>1 DEF Shape
  <2> QED BY <1>1, <2>1, <2>2, <2>3, <2>4, <2>5, WByOthers
<1> QED
  BY <1>4, <1>5, <1>6, <1>7, <1>8, <1>9, <1>10, <1>11 DEF Ask, Serve

LEMMA WTime ==
  ASSUME WInv, IInv', NEW j \in Job, LeaseRunsOut(j) \/ BecomesDue(j)
  PROVE  WInv'
<1>1. QueueKept /\ SameAttempts
  BY QueueSteps, QueueAttempts DEF WInv, IInv
<1>2. UNCHANGED <<run, approval, payload, exec, api, ran, acted, decided>>
  BY DEF LeaseRunsOut, BecomesDue
<1>3. StepKeeps BY <1>1, <1>2, KeepsByQueue
<1>4. EnqueuedOnce' BY <1>1, <1>2, OnceStays DEF WInv
<1> QED BY <1>1, <1>2, <1>3, <1>4, WByOthers DEF WInv, Shapes

LEMMA InitWInv == Init => WInv
<1> SUFFICES ASSUME Init PROVE WInv
  OBVIOUS
<1>1. IInv BY InitIInv
<1>2. Shapes /\ \A w \in Worker : WorkerShape(w) /\ InSpan(w)
  BY EmptyShape DEF Init, Shapes, WorkerShape, InSpan, IdleWorker, IdleClient, AbsentRun
<1>3. EnqueuedOnce
  BY TurnAssumption DEF Init, EnqueuedOnce, AbsentDoc, Blank, IdleClient
<1>4. \A j \in Job : queue[j].attempts = 0
  BY DEF Init, AbsentDoc, Blank
<1>5. ASSUME NEW jobs \in SUBSET Job PROVE GrantsOf(jobs) = {} /\ Grants(jobs) = 0
  <2>1. \A g : g \notin PairsOf(jobs, queue)
    <3>1. \A j \in jobs : \A n \in 1 .. queue[j].attempts : FALSE
      BY <1>4
    <3> QED BY <3>1, PairMember
  <2>2. GrantsOf(jobs) = {}
    BY <2>1 DEF GrantsOf, PairsOf
  <2> QED BY <2>2, FS_EmptySet DEF Grants
<1>6. Busy = {} /\ (\A p : Owing(p) = {}) /\ \A a : OwingAct(a) = {}
  BY DEF Init, Busy, Owing, OwingAct, Owes, OwesAct, IdleWorker, ResumePcs
<1>7. Covered
  <2>1. \A p \in Step : ran[p] = 0
    BY DEF Init
  <2>2. \A a \in Approval : acted[a] = 0
    BY DEF Init
  <2>3. \A g \in Gates : g \in Step
    BY HandlerAssumption DEF Step
  <2>4. IsFiniteSet(GrantsOf(Job)) /\ IsFiniteSet(Busy)
    BY <1>5, <1>6, FS_EmptySet
  <2>5. (\A p \in Step : Grants(Reachers(p)) = 0) /\ \A a : Grants(ResumesOf(a)) = 0
    BY <1>5, SpansAreJobs
  <2>6. (\A p : Cardinality(Owing(p)) = 0) /\ \A a : Cardinality(OwingAct(a)) = 0
    BY <1>6, FS_EmptySet
  <2> QED BY <2>1, <2>2, <2>3, <2>4, <2>5, <2>6 DEF Covered
<1> QED BY <1>1, <1>2, <1>3, <1>7 DEF WInv

LEMMA NextWInv == WInv /\ [Next]_vars => WInv'
<1> SUFFICES ASSUME WInv, [Next]_vars PROVE WInv'
  OBVIOUS
<1>1. IInv'
  BY NextIInv DEF WInv
<1>2. ASSUME NEW c \in Client, Ask(c) \/ Serve(c) \/ ClientDies(c) \/ EnqueueRefused(c) PROVE WInv'
  BY <1>1, <1>2, WClient
<1>3. ASSUME NEW w \in Worker, Poll(w) \/ Work(w) \/ Fails(w) \/ WorkerDies(w) \/ WorkRaises(w)
      PROVE  WInv'
  <2>1. 1 \in Step BY HandlerAssumption DEF Step
  <2>2. CASE Poll(w)
    BY <1>1, <2>2, WClaimsNothing, WClaims DEF Poll
  <2>3. CASE Drive(w)
    BY <1>1, <2>1, <2>3, WRuns, WDrives, WAsks DEF Drive, Step
  <2>4. CASE Resume(w)
    BY <1>1, <2>4, WResumes, WLetsGo, WActs DEF Resume
  <2>5. CASE Adopt(w) \/ Report(w)
    BY <1>1, <2>5, WAdopts, WLetsGo
  <2>6. CASE Fails(w) \/ WorkerDies(w) \/ WorkRaises(w)
    BY <1>1, <2>1, <2>6, WDrives, WLetsGo DEF Fails
  <2> QED BY <1>3, <2>2, <2>3, <2>4, <2>5, <2>6 DEF Work
<1>4. ASSUME NEW j \in Job, LeaseRunsOut(j) \/ BecomesDue(j) PROVE WInv'
  BY <1>1, <1>4, WTime
<1>5. CASE UNCHANGED vars
  <2>1. UNCHANGED <<run, approval, queue, payload, exec, api, ran, acted, decided>>
    BY <1>5 DEF vars
  <2>2. StepKeeps /\ SameAttempts
    BY <2>1, SameQueue, KeepsByQueue DEF WInv
  <2>3. EnqueuedOnce'
    BY <2>1 DEF WInv, EnqueuedOnce
  <2> QED BY <1>1, <2>1, <2>2, <2>3, WByOthers DEF WInv, Shapes
<1> QED BY <1>2, <1>3, <1>4, <1>5 DEF Next, Working

LEMMA CoveredWork == WInv => WorkPerGrant
<1> SUFFICES ASSUME WInv PROVE WorkPerGrant
  OBVIOUS
<1>1. IsFiniteSet(GrantsOf(Job)) /\ IsFiniteSet(Busy) /\ TypeOK
  BY DEF WInv, Covered, IInv
<1>2. ASSUME NEW p \in Step PROVE ran[p] <= Grants(Reachers(p))
  <2>1. Grants(Reachers(p)) \in Nat
    BY <1>1, SomeGrants, SpansAreJobs
  <2>2. CASE p \in Gates
    <3>1. ran[p] = 0 BY <2>2 DEF WInv, Covered
    <3> QED BY <2>1, <3>1
  <2>3. CASE p \notin Gates
    <3>1. ran[p] + Cardinality(Owing(p)) <= Grants(Reachers(p)) /\ ran[p] \in Nat
      BY <1>1, <2>3 DEF WInv, Covered, TypeOK
    <3>2. Cardinality(Owing(p)) \in Nat BY <1>1, SomeOwing
    <3> QED BY <2>1, <3>1, <3>2
  <2> QED BY <2>2, <2>3
<1>3. ASSUME NEW a \in Approval PROVE acted[a] <= Grants({j \in Resumes : payload[j] = a})
  <2>1. Grants(ResumesOf(a)) \in Nat /\ Cardinality(OwingAct(a)) \in Nat
    BY <1>1, SomeGrants, SomeOwing, SpansAreJobs
  <2>2. acted[a] + Cardinality(OwingAct(a)) <= Grants(ResumesOf(a)) /\ acted[a] \in Nat
    BY <1>1 DEF WInv, Covered, TypeOK
  <2>3. acted[a] <= Grants(ResumesOf(a))
    BY <2>1, <2>2
  <2> QED BY <2>3 DEF ResumesOf
<1> QED BY <1>2, <1>3 DEF WorkPerGrant

\* No effect is executed more often than a worker was granted a job that starts
\* behind it, and no approved action more often than its resumes were granted: for
\* every handler, any number of workers, requests, approvals and attempts.
THEOREM WorkIsGranted == Spec => []WorkPerGrant
<1> QED BY InitWInv, NextWInv, CoveredWork, PTL DEF Spec

LEMMA ShapeInOrder ==
  ASSUME NEW r \in RunDoc, Shape(r), JournalOK(r.journal, approval, acted)
  PROVE  InOrder(r)
<1> SUFFICES ASSUME r.status # "rejected"
             PROVE  \E p \in 1 .. N + 1 :
      /\ \A q \in 1 .. (p - 1) : r.journal[q].status = IF q \in Gates THEN "approved" ELSE "done"
      /\ \A q \in p .. N : q > p \/ q \notin Gates => r.journal[q] = NoEntry
      /\ r.status = "waiting_approval" => p \in Gates /\ r.journal[p].status # "absent"
      /\ \A q \in Gates : r.journal[q].status # "absent" =>
           approval[r.journal[q].approval].gate = q
      /\ \A q \in Gates : r.journal[q].status = "approved" => acted[r.journal[q].approval] > 0
  BY DEF InOrder
<1>1. PICK p \in 1 .. N + 1 :
        /\ Reaches(r.journal, p)
        /\ \A q \in Step : q > p => r.journal[q] = NoEntry
        /\ p \in Step => r.journal[p].status \in {"absent", "pending"}
        /\ r.status = "waiting_approval" => p \in Gates /\ r.journal[p].status = "pending"
  BY DEF Shape
<1>2. N \in Nat \ {0} /\ Gates \subseteq 1 .. N /\ Step = 1 .. N /\ r.journal \in [Step -> Entry]
  BY HandlerAssumption DEF Step, RunDoc
<1>3. ASSUME NEW q \in 1 .. (p - 1)
      PROVE  r.journal[q].status = IF q \in Gates THEN "approved" ELSE "done"
  <2>1. q \in Step /\ Memoized(r.journal[q]) BY <1>1, <1>2 DEF Reaches
  <2> QED BY <2>1 DEF Memoized, JournalOK
<1>4. ASSUME NEW q \in p .. N, q > p \/ q \notin Gates PROVE r.journal[q] = NoEntry
  <2>1. q \in Step BY <1>1, <1>2
  <2>2. CASE q > p BY <1>1, <2>1, <2>2
  <2>3. CASE ~(q > p)
    <3>1. q = p /\ q \notin Gates BY <1>1, <1>2, <1>4, <2>3
    <3>2. r.journal[q] \in Entry /\ r.journal[q].status = "absent" /\ r.journal[q].approval = NoApproval
      BY <1>1, <1>2, <2>1, <3>1 DEF JournalOK
    <3> QED BY <3>2 DEF Entry, NoEntry
  <2> QED BY <2>2, <2>3
<1>5. \A q \in Gates : q \in Step BY <1>2
<1>6. \A q \in Gates : r.journal[q].status # "absent" => approval[r.journal[q].approval].gate = q
  BY <1>5 DEF JournalOK
<1>7. \A q \in Gates : r.journal[q].status = "approved" => acted[r.journal[q].approval] > 0
  BY <1>5 DEF JournalOK
<1> QED BY <1>1, <1>3, <1>4, <1>6, <1>7

\* Every journal a replay could be given, stored or half written, is results, then
\* at most one gate that is not granted, then nothing, and its gates name the
\* approvals asked there.
THEOREM JournalsStayInOrder == Spec => []JournalsInOrder
<1>1. WInv => JournalsInOrder
  <2> SUFFICES ASSUME WInv PROVE JournalsInOrder
    OBVIOUS
  <2>1. InOrder(run)
    BY ShapeInOrder DEF WInv, Shapes, IInv, TypeOK
  <2>2. \A w \in Worker : InOrder(exec[w].run)
    BY ShapeInOrder DEF WInv, WorkerShape, IInv, WorkerOK, TypeOK, WorkerDoc, ClientDoc
  <2>3. \A c \in Client : InOrder(api[c].run)
    BY ShapeInOrder DEF WInv, Shapes, IInv, ClientOK, TypeOK, WorkerDoc, ClientDoc
  <2> QED BY <2>1, <2>2, <2>3 DEF JournalsInOrder
<1> QED BY <1>1, InitWInv, NextWInv, PTL DEF Spec
-----------------------------------------------------------------------------

\* However workers, requests, deaths and expiring leases interleave, every stored
\* row, every copy and every counter stays well typed.
THEOREM RunsTypeCorrect == Spec => []TypeOK
<1>1. IInv => TypeOK BY DEF IInv
<1> QED BY <1>1, InitIInv, NextIInv, PTL DEF Spec

\* No effect past a gate ever happens unless a human granted an approval asked at
\* that gate and its action was executed: for every handler, any number of
\* workers and requests, any attempt budget, with deaths and zombies.
THEOREM NoStepPassesItsGate == Spec => []GateHolds
<1>1. IInv => GateHolds BY DEF IInv
<1> QED BY <1>1, InitIInv, NextIInv, PTL DEF Spec
-----------------------------------------------------------------------------
(* The kill switches and the loops that heed them. *)

\* What an api process that is about to write has read.
Edit == [pc : {"idle", "write"}, tool : Tool \cup {Free.tool},
         to : Permission \cup {"unset"}, map : Switches, cut : BOOLEAN]
Places == Ended \cup {"start", "model", "wait", "fallback", "commit", "meter", "tools", "backend"}
Place == [pc : Places, offered : SUBSET Tool, at : Nat, step : Nat, todo : Seq(Tool), tries : Nat,
          fixed : BOOLEAN, perm : Permission, fell : BOOLEAN]
LoopEntry == [kind : {"llm", "tool"}, perm : Permission \cup {"none"}, calls : Seq(Tool)]

\* A loop is never ahead of the journal, and at its end when it does what is new.
AtTheEnd == {"wait", "fallback", "commit", "backend"}
Fits(l, j) ==
  /\ l.at <= Len(j)
  /\ l.pc \in AtTheEnd => l.at = Len(j)
  /\ l.pc = "meter" => l.at < Len(j)
  /\ l.pc \in {"tools", "backend"} => l.todo # <<>>

LoopsTyped ==
  /\ conf \in [mediated : BOOLEAN, legacy : Switches]
  /\ policy \in [is : BOOLEAN, map : Switches]
  /\ req \in [Api -> Edit] /\ acked \in Switches /\ raced \in BOOLEAN
  /\ loop \in [Run -> Place] /\ journal \in [Run -> Seq(LoopEntry)]
  /\ \A r \in Run : Fits(loop[r], journal[r])

\* Unless two operators were at it at once, what an operator was told is in force, and
\* whoever is about to write has read it, or is overtaken.
SwitchInv ==
  ~raced => /\ ReadKillswitches = acked
            /\ \A a \in Api : req[a].pc = "write" /\ ~req[a].cut => req[a].map = acked

\* A loop moves on; one that calls a tool has asked for the permission in force.
Moves(r) ==
  /\ \E l \in Place :
       /\ Set(r, l) /\ Fits(l, journal'[r])
       /\ loop[r].pc = "tools" /\ l.pc = "backend"
            => EffectivePermission(Head(loop[r].todo)) # "disabled"
  /\ journal' \in [Run -> Seq(LoopEntry)]
  /\ \A q \in Run : q # r => journal'[q] = journal[q]

\* Where a loop starts, and what it is when it has chosen its offer.
LEMMA FreshIs ==
  /\ Fresh \in Place /\ Fresh.at = 0 /\ Fresh.pc = "start"
  /\ \A o \in SUBSET Tool : LET l == [Fresh EXCEPT !.pc = "model", !.offered = o] IN
       l \in Place /\ l.at = 0 /\ l.pc = "model"
<1>1. <<>> \in Seq(Tool) OBVIOUS
<1> QED BY <1>1 DEF Fresh, Place, Places, Permission

LEMMA GoesTo ==
  ASSUME LoopsTyped, NEW r \in Run, UNCHANGED journal, NEW x \in Places \ {"meter", "tools", "backend"},
         x \in AtTheEnd => loop[r].at = Len(journal[r]), LoopGoes(r, x)
  PROVE  Moves(r)
<1> DEFINE l == [loop[r] EXCEPT !.pc = x]
<1>1. loop[r] \in Place /\ loop[r].at <= Len(journal[r]) /\ journal \in [Run -> Seq(LoopEntry)]
  BY DEF LoopsTyped, Fits
<1>2. l \in Place /\ l.pc = x /\ l.at = loop[r].at BY <1>1 DEF Place
<1>3. Set(r, l) BY DEF LoopGoes
<1> HIDE DEF l
<1> QED BY <1>1, <1>2, <1>3 DEF Moves, Fits

LEMMA HeardFits ==
  ASSUME LoopsTyped, NEW r \in Run, NEW c \in Seq(Tool), NEW j \in Seq(LoopEntry),
         loop[r].at < Len(j)
  PROVE  LET l == Heard(r, c) IN l \in Place /\ Fits(l, j) /\ l.pc \in {"done", "tools"}
<1> DEFINE x == IF c = <<>> THEN "done" ELSE "tools"
           l == [loop[r] EXCEPT !.pc = x, !.at = loop[r].at + 1, !.step = loop[r].step + 1, !.todo = c]
<1>1. loop[r] \in Place BY DEF LoopsTyped
<1>2. x \in Places BY DEF Places, Ended
<1>3. loop[r].at + 1 \in Nat /\ loop[r].step + 1 \in Nat /\ loop[r].at + 1 <= Len(j)
  <2>1. loop[r].at \in Nat /\ loop[r].step \in Nat BY <1>1 DEF Place
  <2>2. Len(j) \in Nat OBVIOUS
  <2> QED BY <2>1, <2>2
<1>4. x = "tools" => c # <<>> OBVIOUS
<1>5. x \in {"done", "tools"} OBVIOUS
<1> HIDE DEF x
<1>6. l \in Place /\ l.pc = x /\ l.at = loop[r].at + 1 /\ l.todo = c
  BY <1>1, <1>2, <1>3 DEF Place
<1>7. Heard(r, c) = l BY DEF Heard, x
<1> HIDE DEF l
<1>8. Fits(l, j) BY <1>3, <1>4, <1>5, <1>6 DEF Fits, AtTheEnd
<1> QED BY <1>5, <1>6, <1>7, <1>8

LEMMA ThenFits ==
  ASSUME LoopsTyped, NEW r \in Run, loop[r].todo # <<>>, NEW j \in Seq(LoopEntry), loop[r].at < Len(j)
  PROVE  LET l == Then(r, loop[r]) IN l \in Place /\ Fits(l, j) /\ l.pc \in {"model", "tools"}
<1> DEFINE c == Tail(loop[r].todo)
           x == IF c = <<>> THEN "model" ELSE "tools"
           l == [loop[r] EXCEPT !.pc = x, !.at = loop[r].at + 1, !.todo = c]
<1>1. loop[r] \in Place BY DEF LoopsTyped
<1>2. x \in Places BY DEF Places
<1>3. loop[r].at + 1 \in Nat /\ loop[r].at + 1 <= Len(j)
  <2>1. loop[r].at \in Nat BY <1>1 DEF Place
  <2>2. Len(j) \in Nat OBVIOUS
  <2> QED BY <2>1, <2>2
<1>4. c \in Seq(Tool) BY <1>1 DEF Place
<1>5. x = "tools" => c # <<>> OBVIOUS
<1>6. x \in {"model", "tools"} OBVIOUS
<1>7. Then(r, loop[r]) = l BY DEF Then
<1> HIDE DEF x, c
<1>8. l \in Place /\ l.pc = x /\ l.at = loop[r].at + 1 /\ l.todo = c
  BY <1>1, <1>2, <1>3, <1>4 DEF Place
<1> HIDE DEF l
<1>9. Fits(l, j) BY <1>3, <1>5, <1>6, <1>8 DEF Fits, AtTheEnd
<1> QED BY <1>6, <1>7, <1>8, <1>9

\* What is new is recorded at the end of the journal.
LEMMA RecordIs ==
  ASSUME LoopsTyped, NEW r \in Run, loop[r].at = Len(journal[r]), NEW e \in LoopEntry, Record(r, e)
  PROVE  /\ journal' \in [Run -> Seq(LoopEntry)] /\ loop[r].at < Len(journal'[r])
         /\ Len(journal'[r]) = Len(journal[r]) + 1 /\ journal'[r][Len(journal[r]) + 1] = e
         /\ \A i \in 1 .. Len(journal[r]) : journal'[r][i] = journal[r][i]
         /\ \A q \in Run : q # r => journal'[q] = journal[q]
<1> DEFINE j == journal[r]
           n == Max({loop[r].at + 1, Len(j)})
           k == [i \in 1 .. n |-> IF i = loop[r].at + 1 THEN e ELSE j[i]]
<1>1. j \in Seq(LoopEntry) /\ Len(j) \in Nat /\ loop[r].at = Len(j) BY DEF LoopsTyped
<1>2. n = Len(j) + 1
  <2> HIDE DEF j
  <2> QED BY <1>1 DEF Max
<1>3. journal' = [journal EXCEPT ![r] = k] BY DEF Record
<1>4. k = [i \in 1 .. Len(j) + 1 |-> IF i = Len(j) + 1 THEN e ELSE j[i]] BY <1>1, <1>2
<1> HIDE DEF k, n, j
<1>5. k \in Seq(LoopEntry) /\ Len(k) = Len(j) + 1 /\ k[Len(j) + 1] = e
  BY <1>1, <1>4
<1>6. \A i \in 1 .. Len(j) : k[i] = j[i] BY <1>1, <1>4
<1> QED BY <1>1, <1>3, <1>5, <1>6 DEF LoopsTyped, j

LEMMA DisappointedMoves ==
  ASSUME LoopsTyped, NEW r \in Run, UNCHANGED journal, loop[r].at = Len(journal[r]),
         Disappointed(r)
  PROVE  Moves(r)
<1> DEFINE l == [loop[r] EXCEPT !.pc = "fallback", !.fell = TRUE]
<1>1. CASE LoopGoes(r, "raised") \/ LoopGoes(r, "nokey")
  BY <1>1, GoesTo DEF Places, Ended
<1>2. CASE Set(r, l)
  <2>1. loop[r] \in Place /\ loop[r].at <= Len(journal[r]) /\ journal \in [Run -> Seq(LoopEntry)]
    BY DEF LoopsTyped, Fits
  <2>2. l \in Place /\ l.pc = "fallback" /\ l.at = loop[r].at BY <2>1 DEF Place, Places
  <2> HIDE DEF l
  <2> QED BY <1>2, <2>1, <2>2 DEF Moves, Fits
<1> QED BY <1>1, <1>2 DEF Disappointed

LEMMA BeginMoves ==
  ASSUME LoopsTyped, NEW r \in Run, NEW b \in BOOLEAN, Begin(r, b)
  PROVE  Moves(r)
<1> DEFINE o == {t \in Tool : b /\ r \notin Responding /\ EffectivePermission(t) \in Callable}
           l == [Fresh EXCEPT !.pc = "model", !.offered = o]
<1>1. o \in SUBSET Tool OBVIOUS
<1>2. l \in Place /\ l.at = 0 /\ l.pc = "model"
  <2> HIDE DEF o
  <2> QED BY <1>1, FreshIs
<1>3. Set(r, l) /\ UNCHANGED journal BY DEF Begin
<1>4. journal \in [Run -> Seq(LoopEntry)] /\ Len(journal[r]) \in Nat BY DEF LoopsTyped
<1> HIDE DEF l
<1> QED BY <1>2, <1>3, <1>4 DEF Moves, Fits, AtTheEnd

LEMMA RecallMoves ==
  ASSUME LoopsTyped, NEW r \in Run, RecallModel(r)
  PROVE  Moves(r)
<1> DEFINE a == loop[r].at
           c == journal[r][a + 1].calls
           l == Heard(r, c)
<1>1. journal \in [Run -> Seq(LoopEntry)] /\ journal[r] \in Seq(LoopEntry) /\ a \in Nat
  BY DEF LoopsTyped, Place
<1>2. a < Len(journal[r]) /\ UNCHANGED journal /\ Set(r, l)
  BY DEF RecallModel, Recorded
<1>3. c \in Seq(Tool)
  <2> HIDE DEF a
  <2>1. journal[r][a + 1] \in LoopEntry BY <1>1, <1>2
  <2> QED BY <2>1 DEF LoopEntry
<1>4. l \in Place /\ Fits(l, journal[r]) /\ l.pc # "backend"
  <2> HIDE DEF c
  <2> QED BY <1>1, <1>2, <1>3, HeardFits
<1> HIDE DEF l
<1> QED BY <1>1, <1>2, <1>4 DEF Moves

LEMMA AnswerMoves ==
  ASSUME LoopAssumption, LoopsTyped, NEW r \in Run, NEW c \in Answers, Answer(r, c)
  PROVE  Moves(r)
<1>1. journal \in [Run -> Seq(LoopEntry)] /\ loop \in [Run -> Place] /\ Fits(loop[r], journal[r])
  BY DEF LoopsTyped
<1>2. UNCHANGED journal BY DEF Answer
<1>3. CASE loop[r].pc = "wait" /\ Set(r, [loop[r] EXCEPT !.pc = "commit", !.todo = c])
  <2> DEFINE l == [loop[r] EXCEPT !.pc = "commit", !.todo = c]
  <2>1. c \in Seq(Tool) BY DEF LoopAssumption
  <2>2. loop[r] \in Place /\ loop[r].at = Len(journal[r])
    BY <1>1, <1>3 DEF Fits, AtTheEnd
  <2>3. l \in Place /\ l.pc = "commit" /\ l.at = loop[r].at BY <2>1, <2>2 DEF Place, Places
  <2>4. Set(r, l) BY <1>3
  <2> HIDE DEF l
  <2>5. Fits(l, journal[r]) BY <2>2, <2>3 DEF Fits, AtTheEnd
  <2> QED BY <1>1, <1>2, <2>3, <2>4, <2>5 DEF Moves
<1>4. CASE UNCHANGED loop
  <2>1. Set(r, loop[r]) BY <1>1, <1>4 DEF Set
  <2>2. loop[r] \in Place BY <1>1
  <2>3. loop[r].pc = "tools" => loop[r].pc # "backend" OBVIOUS
  <2> QED BY <1>1, <1>2, <2>1, <2>2, <2>3 DEF Moves
<1> QED BY <1>3, <1>4 DEF Answer, ForItself

LEMMA CallFailsMoves ==
  ASSUME LoopsTyped, NEW r \in Run, CallFails(r)
  PROVE  Moves(r)
<1>1. journal \in [Run -> Seq(LoopEntry)] /\ loop \in [Run -> Place] /\ Fits(loop[r], journal[r])
  BY DEF LoopsTyped
<1>2. UNCHANGED journal BY DEF CallFails
<1>3. CASE loop[r].pc = "wait" /\ Disappointed(r)
  BY <1>1, <1>2, <1>3, DisappointedMoves DEF Fits, AtTheEnd
<1>4. CASE UNCHANGED loop
  <2>1. Set(r, loop[r]) BY <1>1, <1>4 DEF Set
  <2>2. loop[r] \in Place BY <1>1
  <2>3. loop[r].pc = "tools" => loop[r].pc # "backend" OBVIOUS
  <2> QED BY <1>1, <1>2, <2>1, <2>2, <2>3 DEF Moves
<1> QED BY <1>3, <1>4 DEF CallFails, ForItself

LEMMA CommitMoves ==
  ASSUME LoopsTyped, NEW r \in Run, CommitModel(r)
  PROVE  Moves(r)
<1> DEFINE e == ModelStep(loop[r].todo)
<1>1. loop[r] \in Place /\ loop[r].todo \in Seq(Tool) BY DEF LoopsTyped, Place
<1>2. e \in LoopEntry BY <1>1 DEF LoopEntry, ModelStep
<1>3. /\ journal' \in [Run -> Seq(LoopEntry)] /\ loop[r].at < Len(journal'[r])
      /\ \A q \in Run : q # r => journal'[q] = journal[q]
  <2>1. Record(r, e) /\ loop[r].at = Len(journal[r])
    BY DEF CommitModel, LoopsTyped, Fits, AtTheEnd
  <2> HIDE DEF e
  <2> QED BY <1>2, <2>1, RecordIs
<1>4. CASE LoopGoes(r, "meter")
  <2> DEFINE l == [loop[r] EXCEPT !.pc = "meter"]
  <2>1. l \in Place /\ l.pc = "meter" /\ l.at = loop[r].at BY <1>1 DEF Place, Places
  <2>2. Set(r, l) BY <1>4 DEF LoopGoes
  <2>3. loop[r].at \in Nat /\ Len(journal'[r]) \in Nat BY <1>1, <1>3 DEF Place
  <2> HIDE DEF l
  <2>4. Fits(l, journal'[r]) BY <1>3, <2>1, <2>3 DEF Fits, AtTheEnd
  <2> QED BY <1>3, <2>1, <2>2, <2>4 DEF Moves
<1>5. CASE Set(r, Heard(r, loop[r].todo))
  <2> DEFINE l == Heard(r, loop[r].todo)
  <2>1. journal'[r] \in Seq(LoopEntry) BY <1>3
  <2>2. l \in Place /\ Fits(l, journal'[r]) /\ l.pc # "backend"
    BY <1>1, <1>3, <2>1, HeardFits
  <2>3. Set(r, l) BY <1>5
  <2> HIDE DEF l
  <2> QED BY <1>3, <2>2, <2>3 DEF Moves
<1> QED BY <1>4, <1>5 DEF CommitModel

LEMMA MeterMoves ==
  ASSUME LoopsTyped, NEW r \in Run, Meter(r)
  PROVE  Moves(r)
<1> DEFINE l == Heard(r, loop[r].todo)
<1>1. loop[r].todo \in Seq(Tool) BY DEF LoopsTyped, Place
<1>2. journal \in [Run -> Seq(LoopEntry)] /\ journal[r] \in Seq(LoopEntry) /\ UNCHANGED journal
  BY DEF LoopsTyped, Meter
<1>3. loop[r].at < Len(journal[r]) BY DEF LoopsTyped, Fits, Meter
<1>4. l \in Place /\ Fits(l, journal[r]) /\ l.pc # "backend" BY <1>1, <1>2, <1>3, HeardFits
<1>5. Set(r, l) BY DEF Meter
<1> HIDE DEF l
<1> QED BY <1>2, <1>4, <1>5 DEF Moves

LEMMA ReturnMoves ==
  ASSUME LoopsTyped, NEW r \in Run, ToolReturns(r)
  PROVE  Moves(r)
<1> DEFINE e == ToolStep(loop[r].perm)
           l == Then(r, loop[r])
<1>1. loop[r] \in Place /\ loop[r].todo # <<>> BY DEF LoopsTyped, Fits, ToolReturns
<1>2. e \in LoopEntry
  <2>1. loop[r].perm \in Permission BY <1>1 DEF Place
  <2>2. <<>> \in Seq(Tool) OBVIOUS
  <2> QED BY <2>1, <2>2 DEF LoopEntry, ToolStep
<1>3. /\ journal' \in [Run -> Seq(LoopEntry)] /\ loop[r].at < Len(journal'[r])
      /\ \A q \in Run : q # r => journal'[q] = journal[q]
  <2>1. Record(r, e) /\ loop[r].at = Len(journal[r])
    BY DEF ToolReturns, LoopsTyped, Fits, AtTheEnd
  <2> HIDE DEF e
  <2> QED BY <1>2, <2>1, RecordIs
<1>4. l \in Place /\ Fits(l, journal'[r]) /\ l.pc # "backend"
  <2>1. journal'[r] \in Seq(LoopEntry) BY <1>3
  <2> QED BY <1>1, <1>3, <2>1, ThenFits
<1>5. Set(r, l) BY DEF ToolReturns
<1> HIDE DEF l
<1> QED BY <1>3, <1>4, <1>5 DEF Moves

\* The permission a call is made under is the one in force, whatever was offered.
LEMMA CallToolMoves ==
  ASSUME LoopsTyped, NEW r \in Run, NEW b \in BOOLEAN, CallTool(r, b)
  PROVE  Moves(r)
<1> DEFINE p == PermissionNow(r, Head(loop[r].todo), b)
<1>1. loop[r] \in Place /\ loop[r].todo # <<>> /\ loop[r].at <= Len(journal[r])
  BY DEF LoopsTyped, Fits, CallTool
<1>2. journal \in [Run -> Seq(LoopEntry)] /\ journal[r] \in Seq(LoopEntry) /\ UNCHANGED journal
  BY DEF LoopsTyped, CallTool
<1>3. loop[r].at \in Nat /\ Len(journal[r]) \in Nat BY <1>1, <1>2 DEF Place
<1>4. CASE LoopGoes(r, "raised") BY <1>2, <1>4, GoesTo DEF Places, Ended, AtTheEnd
<1>5. CASE /\ p \in Callable /\ ~Recorded(r)
           /\ Set(r, [loop[r] EXCEPT !.pc = "backend", !.perm = p, !.tries = 0, !.fixed = FALSE])
  <2> DEFINE l == [loop[r] EXCEPT !.pc = "backend", !.perm = p, !.tries = 0, !.fixed = FALSE]
  <2>1. p \in Permission /\ EffectivePermission(Head(loop[r].todo)) # "disabled"
    BY <1>5 DEF PermissionNow, Callable, Permission
  <2> HIDE DEF p
  <2>2. l \in Place /\ l.pc = "backend" /\ l.at = loop[r].at /\ l.todo = loop[r].todo
    BY <1>1, <2>1 DEF Place, Places
  <2>3. Set(r, l) BY <1>5
  <2> HIDE DEF l
  <2>4. Fits(l, journal[r]) BY <1>1, <1>3, <1>5, <2>2 DEF Fits, Recorded
  <2> QED BY <1>2, <2>1, <2>2, <2>3, <2>4 DEF Moves
<1>6. CASE Recorded(r) /\ Set(r, Then(r, loop[r]))
  <2> DEFINE l == Then(r, loop[r])
  <2>1. l \in Place /\ Fits(l, journal[r]) /\ l.pc # "backend"
    BY <1>1, <1>2, <1>6, ThenFits DEF Recorded
  <2>2. Set(r, l) BY <1>6
  <2> HIDE DEF l
  <2> QED BY <1>2, <2>1, <2>2 DEF Moves
<1> QED BY <1>4, <1>5, <1>6 DEF CallTool

LEMMA ToolFailsMoves ==
  ASSUME LoopsTyped, NEW r \in Run, NEW b \in BOOLEAN, ToolFails(r, b)
  PROVE  Moves(r)
<1>1. /\ loop[r] \in Place /\ loop[r].todo # <<>> /\ loop[r].at <= Len(journal[r])
      /\ loop[r].at = Len(journal[r]) /\ loop[r].pc = "backend"
  BY DEF LoopsTyped, Fits, AtTheEnd, ToolFails
<1>2. journal \in [Run -> Seq(LoopEntry)] /\ UNCHANGED journal BY DEF LoopsTyped, ToolFails
<1>3. ASSUME NEW l \in Place, Set(r, l), l.pc = "backend", l.at = loop[r].at, l.todo = loop[r].todo
      PROVE  Moves(r)
  <2>1. Fits(l, journal[r]) BY <1>1, <1>3 DEF Fits
  <2> QED BY <1>1, <1>2, <1>3, <2>1 DEF Moves
<1>4. CASE Set(r, [loop[r] EXCEPT !.tries = loop[r].tries + 1])
  <2> DEFINE l == [loop[r] EXCEPT !.tries = loop[r].tries + 1]
  <2>1. loop[r].tries + 1 \in Nat BY <1>1 DEF Place
  <2>2. l \in Place /\ l.pc = "backend" /\ l.at = loop[r].at /\ l.todo = loop[r].todo
    BY <1>1, <2>1 DEF Place
  <2>3. Set(r, l) BY <1>4
  <2> HIDE DEF l
  <2> QED BY <1>3, <2>2, <2>3
<1>5. CASE Set(r, [loop[r] EXCEPT !.fixed = TRUE])
  <2> DEFINE l == [loop[r] EXCEPT !.fixed = TRUE]
  <2>1. l \in Place /\ l.pc = "backend" /\ l.at = loop[r].at /\ l.todo = loop[r].todo
    BY <1>1 DEF Place
  <2>2. Set(r, l) BY <1>5
  <2> HIDE DEF l
  <2> QED BY <1>3, <2>1, <2>2
<1>6. CASE LoopGoes(r, "raised") BY <1>2, <1>6, GoesTo DEF Places, Ended, AtTheEnd
<1> QED BY <1>4, <1>5, <1>6 DEF ToolFails

LEMMA DieMoves ==
  ASSUME LoopsTyped, NEW r \in Run, Die(r)
  PROVE  Moves(r)
<1>1. journal \in [Run -> Seq(LoopEntry)] /\ Len(journal[r]) \in Nat BY DEF LoopsTyped
<1>2. Set(r, Fresh) /\ UNCHANGED journal BY DEF Die
<1>3. Fresh \in Place /\ Fresh.at = 0 /\ Fresh.pc = "start" BY FreshIs
<1>4. Fits(Fresh, journal[r]) BY <1>1, <1>3 DEF Fits, AtTheEnd
<1> QED BY <1>1, <1>2, <1>3, <1>4 DEF Moves

LEMMA NewIsAtTheEnd ==
  ASSUME LoopsTyped, NEW r \in Run, ~Recorded(r) \/ loop[r].pc \in AtTheEnd
  PROVE  loop[r].at = Len(journal[r])
<1>1. Fits(loop[r], journal[r]) /\ loop[r].at \in Nat /\ Len(journal[r]) \in Nat
  BY DEF LoopsTyped, Place
<1> QED BY <1>1 DEF Fits, Recorded

\* Every step of a run, its death included, moves its loop and leaves the switches alone.
LEMMA RunMoves ==
  ASSUME LoopAssumption, LoopsTyped, NEW r \in Run, LoopWork(r) \/ Die(r)
  PROVE  Moves(r) /\ UNCHANGED <<conf, policy, req, acked, raced>>
<1>1. ASSUME NEW b \in BOOLEAN, Begin(r, b)
      PROVE  Moves(r) /\ UNCHANGED <<conf, policy, req, acked, raced>>
  BY <1>1, BeginMoves DEF Begin, Quiet, governance
<1>2. ASSUME NEW b \in BOOLEAN, CallTool(r, b)
      PROVE  Moves(r) /\ UNCHANGED <<conf, policy, req, acked, raced>>
  BY <1>2, CallToolMoves DEF CallTool, Quiet, governance
<1>3. ASSUME NEW b \in BOOLEAN, ToolFails(r, b)
      PROVE  Moves(r) /\ UNCHANGED <<conf, policy, req, acked, raced>>
  BY <1>3, ToolFailsMoves DEF ToolFails, Quiet, governance
<1>4. ASSUME NEW c \in Answers, Answer(r, c)
      PROVE  Moves(r) /\ UNCHANGED <<conf, policy, req, acked, raced>>
  BY <1>4, AnswerMoves DEF Answer, Quiet, governance
<1>5. CASE RecallModel(r) BY <1>5, RecallMoves DEF RecallModel, Quiet, governance
<1>6. CASE AskModel(r)
  <2>1. UNCHANGED journal /\ LoopGoes(r, "wait") /\ UNCHANGED <<conf, policy, req, acked, raced>>
    BY <1>6 DEF AskModel, Sent, Quiet, governance
  <2> QED BY <1>6, <2>1, NewIsAtTheEnd, GoesTo DEF Places, AskModel
<1>7. CASE RefuseModel(r)
  <2>1. UNCHANGED journal /\ Disappointed(r) /\ UNCHANGED <<conf, policy, req, acked, raced>>
    BY <1>7 DEF RefuseModel, Quiet, governance
  <2> QED BY <1>7, <2>1, NewIsAtTheEnd, DisappointedMoves DEF RefuseModel
<1>8. CASE RefuseRoute(r)
  <2>1. UNCHANGED journal /\ Disappointed(r) /\ UNCHANGED <<conf, policy, req, acked, raced>>
    BY <1>8 DEF RefuseRoute, Quiet, governance
  <2> QED BY <1>8, <2>1, NewIsAtTheEnd, DisappointedMoves DEF RefuseRoute
<1>9. CASE AskFallback(r)
  <2>1. UNCHANGED journal /\ LoopGoes(r, "wait") /\ UNCHANGED <<conf, policy, req, acked, raced>>
    BY <1>9 DEF AskFallback, Sent, Quiet, governance
  <2> QED BY <1>9, <2>1, NewIsAtTheEnd, GoesTo DEF Places, AskFallback, AtTheEnd
<1>10. CASE StepsOut(r)
  <2>1. UNCHANGED journal /\ LoopGoes(r, "done") /\ UNCHANGED <<conf, policy, req, acked, raced>>
    BY <1>10 DEF StepsOut, Quiet, governance
  <2> QED BY <2>1, GoesTo DEF Places, Ended, AtTheEnd
<1>11. CASE CallFails(r) BY <1>11, CallFailsMoves DEF CallFails, Quiet, governance
<1>12. CASE GivesUp(r)
  <2>1. UNCHANGED journal /\ Disappointed(r) /\ UNCHANGED <<conf, policy, req, acked, raced>>
    BY <1>12 DEF GivesUp, Quiet, governance
  <2> QED BY <1>12, <2>1, NewIsAtTheEnd, DisappointedMoves DEF GivesUp, AtTheEnd
<1>13. CASE CommitModel(r) BY <1>13, CommitMoves DEF CommitModel, Quiet, governance
<1>14. CASE Meter(r) BY <1>14, MeterMoves DEF Meter, Quiet, governance
<1>15. CASE ToolReturns(r) BY <1>15, ReturnMoves DEF ToolReturns, Quiet, governance
<1>16. CASE Die(r) BY <1>16, DieMoves DEF Die, governance
<1> QED BY <1>1, <1>2, <1>3, <1>4, <1>5, <1>6, <1>7, <1>8, <1>9, <1>10, <1>11, <1>12, <1>13,
           <1>14, <1>15, <1>16 DEF LoopWork

LEMMA LoopsStartTyped ==
  ASSUME LoopAssumption, LoopInit
  PROVE  LoopsTyped /\ SwitchInv
<1>1. NoSwitches \in Switches /\ \A t \in Tool : [NoSwitches EXCEPT ![t] = "disabled"] \in Switches
  BY DEF NoSwitches, Switches, Permission
<1>2. conf \in [mediated : BOOLEAN, legacy : Switches] BY <1>1 DEF LoopInit
<1>3. policy \in [is : BOOLEAN, map : Switches] BY <1>1 DEF LoopInit
<1>4. Free \in Edit /\ Free.pc = "idle" BY <1>1 DEF Free, Edit
<1>5. req \in [Api -> Edit] /\ \A a \in Api : req[a].pc = "idle" BY <1>4 DEF LoopInit
<1>6. acked \in Switches /\ raced \in BOOLEAN BY <1>2 DEF LoopInit
<1>7. loop \in [Run -> Place] /\ \A r \in Run : loop[r] = Fresh BY FreshIs DEF LoopInit
<1>8. journal \in [Run -> Seq(LoopEntry)] /\ \A r \in Run : journal[r] = <<>>
  <2>1. <<>> \in Seq(LoopEntry) OBVIOUS
  <2> QED BY <2>1 DEF LoopInit
<1>9. ASSUME NEW r \in Run PROVE Fits(loop[r], journal[r])
  <2>1. loop[r].at = 0 /\ loop[r].pc = "start" BY <1>7, FreshIs
  <2>2. Len(journal[r]) = 0 BY <1>8
  <2> QED BY <2>1, <2>2 DEF Fits
<1>10. ReadKillswitches = acked BY DEF LoopInit, ReadKillswitches
<1> QED BY <1>2, <1>3, <1>5, <1>6, <1>7, <1>8, <1>9, <1>10 DEF LoopsTyped, SwitchInv

LEMMA ReadsKeep ==
  ASSUME LoopsTyped, SwitchInv, NEW a \in Api, NEW t \in Tool, NEW p \in {"unset", "disabled", "allowed"},
         ReadSwitches(a, t, p)
  PROVE  LoopsTyped' /\ SwitchInv'
<1> DEFINE q == [pc |-> "write", tool |-> t, to |-> p, map |-> ReadKillswitches, cut |-> FALSE]
<1>1. ReadKillswitches \in Switches BY DEF LoopsTyped, ReadKillswitches
<1>2. UNCHANGED <<conf, policy, loop, journal, acked, raced>> /\ req' = [req EXCEPT ![a] = q]
  BY DEF ReadSwitches
<1>3. q \in Edit /\ q.map = ReadKillswitches BY <1>1 DEF Edit, Permission
<1> HIDE DEF q
<1>4. req' \in [Api -> Edit] /\ req'[a] = q /\ \A b \in Api : b # a => req'[b] = req[b]
  BY <1>2, <1>3 DEF LoopsTyped
<1>5. ReadKillswitches' = ReadKillswitches BY <1>2 DEF ReadKillswitches
<1>6. LoopsTyped' BY <1>2, <1>4 DEF LoopsTyped
<1>7. SwitchInv' BY <1>2, <1>3, <1>4, <1>5 DEF SwitchInv
<1> QED BY <1>6, <1>7

\* A write that another overtook is a race; any other changes what is in force.
LEMMA WritesKeep ==
  ASSUME LoopsTyped, SwitchInv, NEW a \in Api, WriteSwitches(a)
  PROVE  LoopsTyped' /\ SwitchInv'
<1> DEFINE q == req[a]
<1>1. q \in Edit /\ q.pc = "write" /\ acked \in Switches BY DEF LoopsTyped, WriteSwitches
<1>2. /\ UNCHANGED <<conf, loop, journal>>
      /\ policy' = [is |-> TRUE, map |-> Written(q)]
      /\ acked' = [acked EXCEPT ![q.tool] = q.to]
      /\ raced' = (raced \/ q.cut)
      /\ req' = [b \in Api |-> IF b = a THEN Free
                               ELSE [req[b] EXCEPT !.cut = req[b].pc = "write"]]
  BY DEF WriteSwitches
<1>3. q.map \in Switches /\ q.to \in Permission \cup {"unset"} /\ q.cut \in BOOLEAN BY <1>1 DEF Edit
<1>4. Written(q) \in Switches /\ acked' \in Switches
  <2> HIDE DEF q
  <2> QED BY <1>1, <1>2, <1>3 DEF Written, Switches
<1>5. Free \in Edit /\ Free.pc = "idle" BY DEF Free, Edit, NoSwitches, Switches
<1>6. ASSUME NEW b \in Api
      PROVE  req'[b] \in Edit /\ (req'[b].pc = "write" => req'[b].cut)
  <2>1. CASE b = a BY <1>2, <1>5, <2>1
  <2>2. CASE b # a
    <3> DEFINE w == req[b].pc = "write"
    <3>1. req'[b] = [req[b] EXCEPT !.cut = w] BY <1>2, <2>2
    <3>2. req[b] \in Edit /\ w \in BOOLEAN BY DEF LoopsTyped
    <3>3. req'[b] \in Edit BY <3>1, <3>2 DEF Edit
    <3>4. req'[b].pc = req[b].pc /\ req'[b].cut = w BY <3>1, <3>2 DEF Edit
    <3> QED BY <3>3, <3>4
  <2> QED BY <2>1, <2>2
<1>7. req' \in [Api -> Edit] BY <1>2, <1>6
<1>8. raced' \in BOOLEAN /\ policy' \in [is : BOOLEAN, map : Switches]
  BY <1>2, <1>3, <1>4 DEF LoopsTyped
<1>9. LoopsTyped' BY <1>2, <1>4, <1>7, <1>8 DEF LoopsTyped
<1>10. ASSUME ~raced' PROVE ReadKillswitches' = acked'
  <2>1. ~raced /\ ~q.cut BY <1>2, <1>10
  <2>2. q.map = acked BY <1>1, <2>1 DEF SwitchInv
  <2> HIDE DEF q
  <2> QED BY <1>2, <2>2 DEF ReadKillswitches, Written
<1> QED BY <1>6, <1>9, <1>10 DEF SwitchInv

LEMMA RunsKeep ==
  ASSUME LoopAssumption, LoopsTyped, SwitchInv, NEW r \in Run, LoopWork(r) \/ Die(r)
  PROVE  LoopsTyped' /\ SwitchInv'
<1>1. Moves(r) /\ UNCHANGED <<conf, policy, req, acked, raced>> BY RunMoves
<1>2. PICK l \in Place : Set(r, l) /\ Fits(l, journal'[r]) BY <1>1 DEF Moves
<1>3. journal' \in [Run -> Seq(LoopEntry)] /\ \A s \in Run : s # r => journal'[s] = journal[s]
  BY <1>1 DEF Moves
<1>4. loop' \in [Run -> Place] /\ loop'[r] = l /\ \A s \in Run : s # r => loop'[s] = loop[s]
  BY <1>2 DEF Set, LoopsTyped
<1>5. \A s \in Run : Fits(loop'[s], journal'[s]) BY <1>2, <1>3, <1>4 DEF LoopsTyped
<1>6. LoopsTyped' BY <1>1, <1>3, <1>4, <1>5 DEF LoopsTyped
<1>7. ReadKillswitches' = ReadKillswitches BY <1>1 DEF ReadKillswitches
<1>8. SwitchInv' BY <1>1, <1>7 DEF SwitchInv
<1> QED BY <1>6, <1>8

\* The invariant of loops and switches is inductive.
LEMMA LoopsKeep ==
  ASSUME LoopAssumption, LoopsTyped, SwitchInv, [LoopNext]_loopVars
  PROVE  LoopsTyped' /\ SwitchInv'
<1>1. CASE UNCHANGED loopVars
  <2>1. UNCHANGED <<conf, policy, req, acked, raced, loop, journal>> BY <1>1 DEF loopVars, governance
  <2>2. ReadKillswitches' = ReadKillswitches BY <2>1 DEF ReadKillswitches
  <2> QED BY <2>1, <2>2 DEF LoopsTyped, SwitchInv
<1>2. ASSUME NEW a \in Api, WriteSwitches(a) PROVE LoopsTyped' /\ SwitchInv'
  BY <1>2, WritesKeep
<1>3. ASSUME NEW a \in Api, NEW t \in Tool, NEW p \in {"unset", "disabled", "allowed"},
             ReadSwitches(a, t, p)
      PROVE  LoopsTyped' /\ SwitchInv'
  BY <1>3, ReadsKeep
<1>4. ASSUME NEW r \in Run, LoopWork(r) \/ Die(r) PROVE LoopsTyped' /\ SwitchInv'
  BY <1>4, RunsKeep
<1> QED BY <1>1, <1>2, <1>3, <1>4 DEF LoopNext

\* What an operator was told is in force, the overrides of the old scope included, unless
\* two wrote at once (context.py read_killswitches, api/app.py _set_tool_permission).
THEOREM OverridesSurvive == LoopAssumption => (LoopSpec => []SwitchesSurvive)
<1> SUFFICES ASSUME LoopAssumption PROVE LoopSpec => []SwitchesSurvive OBVIOUS
<1>1. LoopInit => LoopsTyped /\ SwitchInv BY LoopsStartTyped
<1>2. LoopsTyped /\ SwitchInv /\ [LoopNext]_loopVars => LoopsTyped' /\ SwitchInv' BY LoopsKeep
<1>3. SwitchInv => SwitchesSurvive BY DEF SwitchInv, SwitchesSurvive
<1> QED BY <1>1, <1>2, <1>3, PTL DEF LoopSpec

\* Only a call that asked for its permission moves from the tools to a backend.
LEMMA CallsStartGranted ==
  ASSUME LoopAssumption, LoopsTyped, SwitchInv, [LoopNext]_loopVars
  PROVE  StartsAreGranted
<1> SUFFICES ASSUME NEW s \in Run, loop[s].pc = "tools", loop'[s].pc = "backend", ~raced
             PROVE  acked[Head(loop[s].todo)] # "disabled"
  BY DEF StartsAreGranted
<1>1. loop' # loop OBVIOUS
<1>2. PICK r \in Run : LoopWork(r) \/ Die(r)
  BY <1>1 DEF LoopNext, ReadSwitches, WriteSwitches, loopVars
<1>3. Moves(r) BY <1>2, RunMoves
<1>4. PICK l \in Place :
        Set(r, l) /\ (loop[r].pc = "tools" /\ l.pc = "backend"
                        => EffectivePermission(Head(loop[r].todo)) # "disabled")
  BY <1>3 DEF Moves
<1>5. loop'[r] = l /\ \A q \in Run : q # r => loop'[q] = loop[q]
  BY <1>4 DEF Set, LoopsTyped
<1>6. s = r BY <1>5
<1>7. EffectivePermission(Head(loop[s].todo)) # "disabled" BY <1>4, <1>5, <1>6
<1>8. ReadKillswitches = acked BY DEF SwitchInv
<1> QED BY <1>7, <1>8 DEF EffectivePermission

\* However old the offer of tools a loop works from, it starts none an operator has since
\* disabled (context.py _effective_tool_permission, _Tools.prepare).
THEOREM KillsHold == LoopAssumption => (LoopSpec => KilledToolsStayKilled)
<1> SUFFICES ASSUME LoopAssumption PROVE LoopSpec => KilledToolsStayKilled OBVIOUS
<1>1. LoopInit => LoopsTyped /\ SwitchInv BY LoopsStartTyped
<1>2. LoopsTyped /\ SwitchInv /\ [LoopNext]_loopVars => LoopsTyped' /\ SwitchInv' BY LoopsKeep
<1>3. LoopsTyped /\ SwitchInv /\ [LoopNext]_loopVars => StartsAreGranted BY CallsStartGranted
<1> QED BY <1>1, <1>2, <1>3, PTL DEF LoopSpec, KilledToolsStayKilled

-----------------------------------------------------------------------------
(* What a tenant spends. *)

\* A counter of each run is a set of units of it.
LEMMA UnitsFacts ==
  ASSUME IsFiniteSet(Run), NEW f \in [Run -> Nat]
  PROVE  /\ IsFiniteSet(Units(f)) /\ Total(f) \in Nat
         /\ \A q, i : <<q, i>> \in Units(f) <=> q \in Run /\ i \in 1 .. f[q]
         /\ \A x \in Units(f) : \E q \in Run : \E i \in 1 .. f[q] : x = <<q, i>>
<1> DEFINE g == [q \in Run |-> {q} \X (1 .. f[q])]
           T == {{q} \X (1 .. f[q]) : q \in Run}
<1>1. Units(f) = UNION T BY DEF Units
<1>2. IsFiniteSet(T)
  <2>1. g \in Surjection(Run, T) BY DEF Surjection
  <2> QED BY <2>1, FS_Surjection
<1>3. ASSUME NEW q \in Run PROVE IsFiniteSet({q} \X (1 .. f[q]))
  <2>1. IsFiniteSet({q}) BY FS_Singleton
  <2>2. 1 \in Int /\ f[q] \in Int OBVIOUS
  <2>3. IsFiniteSet(1 .. f[q]) BY <2>2, FS_Interval
  <2> QED BY <2>1, <2>3, FS_Product
<1>4. IsFiniteSet(Units(f))
  <2>1. \A t \in T : IsFiniteSet(t) BY <1>3
  <2> HIDE DEF T
  <2> QED BY <1>1, <1>2, <2>1, FS_UNION
<1>5. Total(f) \in Nat BY <1>4, FS_CardinalityType DEF Total
<1>6. \A q, i : <<q, i>> \in Units(f) <=> q \in Run /\ i \in 1 .. f[q] BY <1>1
<1>7. \A x \in Units(f) : \E q \in Run : \E i \in 1 .. f[q] : x = <<q, i>> BY <1>1
<1> QED BY <1>4, <1>5, <1>6, <1>7

\* One more of one run is one more in all.
LEMMA OneUnitMore ==
  ASSUME IsFiniteSet(Run), NEW f \in [Run -> Nat], NEW g \in [Run -> Nat], NEW r \in Run,
         g[r] = f[r] + 1, \A q \in Run : q # r => g[q] = f[q]
  PROVE  Total(g) = Total(f) + 1
<1> DEFINE x == <<r, g[r]>>
<1>1. \A q \in Run : \A i : i \in 1 .. g[q] <=> i \in 1 .. f[q] \/ (q = r /\ i = g[r])
  OBVIOUS
<1>2. Units(g) = Units(f) \cup {x}
  <2>1. ASSUME NEW y \in Units(g) PROVE y \in Units(f) \cup {x}
    <3>1. PICK q \in Run : \E i \in 1 .. g[q] : y = <<q, i>> BY UnitsFacts
    <3>2. PICK i \in 1 .. g[q] : y = <<q, i>> BY <3>1
    <3>3. i \in 1 .. f[q] \/ (q = r /\ i = g[r]) BY <1>1
    <3> QED BY <3>2, <3>3, UnitsFacts
  <2>2. ASSUME NEW y \in Units(f) PROVE y \in Units(g)
    <3>1. PICK q \in Run : \E i \in 1 .. f[q] : y = <<q, i>> BY UnitsFacts
    <3>2. PICK i \in 1 .. f[q] : y = <<q, i>> BY <3>1
    <3>3. i \in 1 .. g[q] BY <1>1
    <3> QED BY <3>2, <3>3, UnitsFacts
  <2>3. x \in Units(g)
    <3>1. g[r] \in 1 .. g[r] OBVIOUS
    <3> QED BY <3>1, UnitsFacts
  <2> QED BY <2>1, <2>2, <2>3
<1>3. x \notin Units(f)
  <2>1. ~(g[r] \in 1 .. f[r]) OBVIOUS
  <2> QED BY <2>1, UnitsFacts
<1>4. IsFiniteSet(Units(f)) BY UnitsFacts
<1> HIDE DEF x
<1>5. Cardinality(Units(g)) = Cardinality(Units(f)) + 1 BY <1>2, <1>3, <1>4, FS_AddElement
<1> QED BY <1>5 DEF Total

\* At most one more of every run is at most as many more as there are runs.
LEMMA OneUnitMoreEach ==
  ASSUME IsFiniteSet(Run), NEW f \in [Run -> Nat], NEW g \in [Run -> Nat],
         \A q \in Run : g[q] <= f[q] + 1
  PROVE  Cardinality(Run) \in Nat /\ Total(g) <= Total(f) + Cardinality(Run)
<1> DEFINE A == Run \X {0}
           h == [x \in Units(g) |-> <<x[1], x[2] - 1>>]
<1>1. Cardinality(Run) \in Nat BY FS_CardinalityType
<1>2. IsFiniteSet(A) /\ Cardinality(A) = Cardinality(Run)
  <2>1. IsFiniteSet({0}) /\ Cardinality({0}) = 1 BY FS_Singleton
  <2>2. Cardinality(A) = Cardinality(Run) * Cardinality({0}) /\ IsFiniteSet(A)
    BY <2>1, FS_Product
  <2> QED BY <1>1, <2>1, <2>2
<1>3. IsFiniteSet(Units(f)) /\ IsFiniteSet(Units(g)) BY UnitsFacts
<1>4. ASSUME NEW x \in Units(g) PROVE h[x] \in Units(f) \cup A
  <2>1. PICK q \in Run : \E i \in 1 .. g[q] : x = <<q, i>> BY UnitsFacts
  <2>2. PICK i \in 1 .. g[q] : x = <<q, i>> BY <2>1
  <2>3. i - 1 \in 1 .. f[q] \/ i - 1 = 0 OBVIOUS
  <2>4. h[x] = <<q, i - 1>> BY <2>2
  <2> QED BY <2>3, <2>4, UnitsFacts
<1>5. ASSUME NEW x \in Units(g), NEW y \in Units(g), h[x] = h[y] PROVE x = y
  <2>1. PICK q \in Run : \E i \in 1 .. g[q] : x = <<q, i>> BY UnitsFacts
  <2>2. PICK i \in 1 .. g[q] : x = <<q, i>> BY <2>1
  <2>3. PICK p \in Run : \E k \in 1 .. g[p] : y = <<p, k>> BY UnitsFacts
  <2>4. PICK k \in 1 .. g[p] : y = <<p, k>> BY <2>3
  <2>5. h[x] = <<q, i - 1>> /\ h[y] = <<p, k - 1>> BY <2>2, <2>4
  <2>6. q = p /\ i - 1 = k - 1 BY <1>5, <2>5
  <2>7. i = k BY <2>6
  <2> QED BY <2>2, <2>4, <2>6, <2>7
<1>6. h \in Injection(Units(g), Units(f) \cup A)
  <2> HIDE DEF A
  <2>1. h \in [Units(g) -> Units(f) \cup A] BY <1>4
  <2> HIDE DEF h
  <2> QED BY <1>5, <2>1 DEF Injection, IsInjective
<1> HIDE DEF A, h
<1>7. /\ IsFiniteSet(Units(f) \cup A)
      /\ Cardinality(Units(f) \cup A)
           = Cardinality(Units(f)) + Cardinality(A) - Cardinality(Units(f) \cap A)
  BY <1>2, <1>3, FS_Union
<1>8. Cardinality(Units(f) \cap A) \in Nat
  BY <1>3, FS_Intersection, FS_CardinalityType
<1>9. Cardinality(Units(g)) <= Cardinality(Units(f) \cup A) BY <1>6, <1>7, FS_Injection
<1>10. Cardinality(Units(f)) \in Nat /\ Cardinality(Units(g)) \in Nat BY <1>3, FS_CardinalityType
<1> QED BY <1>1, <1>2, <1>7, <1>8, <1>9, <1>10 DEF Total

\* The model steps of a journal are a number, one more for each that is recorded.
LEMMA ModelStepsCount ==
  ASSUME LoopsTyped, NEW r \in Run
  PROVE  ModelSteps(r) \in Nat
<1> DEFINE S == {i \in DOMAIN journal[r] : IsModelStep(journal[r][i])}
<1>1. journal[r] \in Seq(LoopEntry) BY DEF LoopsTyped
<1>2. DOMAIN journal[r] = 1 .. Len(journal[r]) /\ Len(journal[r]) \in Nat BY <1>1
<1>3. IsFiniteSet(1 .. Len(journal[r])) BY <1>2, FS_Interval
<1>4. S \in SUBSET (1 .. Len(journal[r])) BY <1>2
<1> HIDE DEF S
<1>5. Cardinality(S) \in Nat BY <1>3, <1>4, FS_Subset, FS_CardinalityType
<1> QED BY <1>5 DEF ModelSteps, S

LEMMA RecordCounts ==
  ASSUME LoopsTyped, NEW r \in Run, loop[r].at = Len(journal[r]), NEW e \in LoopEntry, Record(r, e)
  PROVE  ModelSteps(r)' = ModelSteps(r) + (IF IsModelStep(e) THEN 1 ELSE 0)
<1> DEFINE j == journal[r]
           k == journal'[r]
           n == Len(j)
           S == {i \in DOMAIN j : IsModelStep(j[i])}
           T == {i \in DOMAIN k : IsModelStep(k[i])}
<1>1. j \in Seq(LoopEntry) BY DEF LoopsTyped
<1>2. /\ k \in Seq(LoopEntry) /\ Len(k) = n + 1 /\ k[n + 1] = e
      /\ \A i \in 1 .. n : k[i] = j[i]
  BY RecordIs
<1> HIDE DEF j, k
<1>3. DOMAIN j = 1 .. n /\ DOMAIN k = 1 .. n + 1 /\ n \in Nat BY <1>1, <1>2
<1>4. T = IF IsModelStep(e) THEN S \cup {n + 1} ELSE S
  <2>1. \A i \in 1 .. n + 1 : i \in 1 .. n \/ i = n + 1 BY <1>3
  <2>2. n + 1 \in 1 .. n + 1 /\ 1 .. n \subseteq 1 .. n + 1 /\ n + 1 \notin 1 .. n BY <1>3
  <2> HIDE DEF n
  <2> QED BY <1>2, <1>3, <2>1, <2>2
<1>5. n + 1 \notin S BY <1>3
<1>6. IsFiniteSet(S) /\ Cardinality(S) \in Nat
  <2>1. IsFiniteSet(1 .. n) BY <1>3, FS_Interval
  <2>2. S \in SUBSET (1 .. n) BY <1>3
  <2> HIDE DEF S, n
  <2> QED BY <2>1, <2>2, FS_Subset, FS_CardinalityType
<1> HIDE DEF S, T
<1>7. Cardinality(T) = Cardinality(S) + (IF IsModelStep(e) THEN 1 ELSE 0)
  <2>1. CASE IsModelStep(e) BY <1>4, <1>5, <1>6, <2>1, FS_AddElement
  <2>2. CASE ~IsModelStep(e) BY <1>4, <1>6, <2>2
  <2> QED BY <2>1, <2>2
<1> QED BY <1>7 DEF ModelSteps, S, T, j, k

\* What is said of one run: its place pc, the calls that fly, were paid and were billed, its
\* deaths and its model steps.  What flies, or is paid and not yet a step, is the call of
\* a loop that waits, or one that a dead or impatient caller left behind.
One(b) == IF b THEN 1 ELSE 0
Balanced(m, pc, fl, pd, bl, dt, ms) ==
  /\ fl <= dt + One(pc \in {"wait", "raised", "nokey"})
  /\ pd + fl <= ms + dt + One(pc \in {"wait", "commit", "raised", "nokey"})
  /\ m => pc \notin {"fallback", "meter"} /\ bl = pd /\ (Limit = 0 => fl = 0 /\ pd = 0)
  /\ ~m => bl + One(pc \in {"commit", "meter"}) <= pd /\ ms <= bl + dt + One(pc = "meter")

IsBalanced(r) == Balanced(conf.mediated, loop[r].pc, flying[r], paid[r], rows[r] + lost[r],
                          deaths[r], ModelSteps(r))

\* The limit, and a call more for every run and for every death.
Bounded ==
  conf.mediated =>
    /\ Total(paid) = Total(rows) + Total(lost)
    /\ Limit > 0 => Total(rows) + Total(flying) < Limit + Cardinality(Run) + Total(deaths)

Counters ==
  /\ flying \in [Run -> Nat] /\ paid \in [Run -> Nat] /\ rows \in [Run -> Nat]
  /\ lost \in [Run -> Nat] /\ deaths \in [Run -> Nat]
BooksInv == Counters /\ (\A r \in Run : IsBalanced(r)) /\ Bounded

\* Nothing changes of the others.
Others(r) == \A q \in Run \ {r} :
  /\ loop'[q] = loop[q] /\ journal'[q] = journal[q] /\ flying'[q] = flying[q]
  /\ paid'[q] = paid[q] /\ rows'[q] = rows[q] /\ lost'[q] = lost[q] /\ deaths'[q] = deaths[q]

LEMMA OtherBooksStay ==
  ASSUME BooksInv, NEW r \in Run, conf' = conf, Others(r), IsBalanced(r)'
  PROVE  \A q \in Run : IsBalanced(q)'
<1> SUFFICES ASSUME NEW q \in Run, q # r PROVE IsBalanced(q)' OBVIOUS
<1>1. /\ loop'[q] = loop[q] /\ journal'[q] = journal[q] /\ flying'[q] = flying[q]
      /\ paid'[q] = paid[q] /\ rows'[q] = rows[q] /\ lost'[q] = lost[q] /\ deaths'[q] = deaths[q]
  BY DEF Others
<1>2. ModelSteps(q)' = ModelSteps(q) BY <1>1 DEF ModelSteps
<1>3. IsBalanced(q) BY DEF BooksInv
<1> QED BY <1>1, <1>2, <1>3 DEF IsBalanced

\* A step that costs nothing, after which nothing more is owed and nothing is allowed less.
Calm(r) ==
  /\ UNCHANGED money /\ UNCHANGED deaths /\ ModelSteps(r)' = ModelSteps(r)
  /\ \/ /\ loop[r].pc \in {"start", "model", "tools", "backend"}
        /\ loop'[r].pc \notin {"fallback", "commit", "meter"}
     \/ loop[r].pc = "wait" /\ loop'[r].pc \in {"raised", "nokey"}

LEMMA CalmKeeps ==
  ASSUME LoopsTyped, BooksInv, NEW r \in Run, Moves(r), conf' = conf, Calm(r)
  PROVE  BooksInv'
<1>1. UNCHANGED <<flying, paid, rows, lost, deaths>> BY DEF Calm, money
<1>2. Others(r) BY <1>1 DEF Moves, Others, Set, LoopsTyped
<1>3. /\ flying[r] \in Nat /\ paid[r] \in Nat /\ rows[r] \in Nat /\ lost[r] \in Nat
      /\ deaths[r] \in Nat /\ IsBalanced(r)
  BY DEF BooksInv, Counters
<1>4. ModelSteps(r) \in Nat BY ModelStepsCount
<1>5. IsBalanced(r)'
  BY <1>1, <1>3, <1>4 DEF Calm, IsBalanced, Balanced, One
<1>6. Counters' BY <1>1 DEF BooksInv, Counters
<1>7. Bounded' BY <1>1 DEF BooksInv, Bounded, Total, Units
<1> QED BY <1>2, <1>5, <1>6, <1>7, OtherBooksStay DEF BooksInv

\* Where a loop is once it has been set.
LEMMA SetIs ==
  ASSUME LoopsTyped, NEW r \in Run, NEW l, Set(r, l)
  PROVE  loop'[r] = l
BY DEF Set, LoopsTyped

LEMMA GoesIs ==
  ASSUME LoopsTyped, NEW r \in Run, NEW x, LoopGoes(r, x)
  PROVE  loop'[r].pc = x
<1> DEFINE l == [loop[r] EXCEPT !.pc = x]
<1>1. loop[r] \in Place BY DEF LoopsTyped
<1>2. l.pc = x BY <1>1 DEF Place
<1>3. Set(r, l) BY DEF LoopGoes
<1> HIDE DEF l
<1> QED BY <1>2, <1>3, SetIs

\* A refusal ends the loop; without mediation it may lead to the fallback.
LEMMA DisappointedIs ==
  ASSUME LoopsTyped, NEW r \in Run, Disappointed(r)
  PROVE  loop'[r].pc \in {"raised", "nokey"} \/ (~conf.mediated /\ loop'[r].pc = "fallback")
<1> DEFINE l == [loop[r] EXCEPT !.pc = "fallback", !.fell = TRUE]
<1>1. CASE LoopGoes(r, "raised") \/ LoopGoes(r, "nokey") BY <1>1, GoesIs
<1>2. CASE ~conf.mediated /\ Set(r, l)
  <2>1. loop[r] \in Place BY DEF LoopsTyped
  <2>2. l.pc = "fallback" BY <2>1 DEF Place
  <2> HIDE DEF l
  <2> QED BY <1>2, <2>2, SetIs
<1> QED BY <1>1, <1>2 DEF Disappointed

LEMMA CalmSteps ==
  ASSUME LoopsTyped, NEW r \in Run,
         \/ RecallModel(r) \/ RefuseModel(r) \/ RefuseRoute(r) \/ StepsOut(r) \/ GivesUp(r)
         \/ ToolReturns(r)
         \/ \E b \in BOOLEAN : Begin(r, b) \/ CallTool(r, b) \/ ToolFails(r, b)
  PROVE  Calm(r)
<1>0. loop[r] \in Place /\ journal[r] \in Seq(LoopEntry) BY DEF LoopsTyped
<1>1. UNCHANGED journal => ModelSteps(r)' = ModelSteps(r) BY DEF ModelSteps
<1>2. CASE RecallModel(r)
  <2> DEFINE c == journal[r][loop[r].at + 1].calls
             l == Heard(r, c)
  <2>1. l.pc \in {"done", "tools"} BY <1>0 DEF Heard, Place
  <2>2. loop'[r] = l BY <1>2, SetIs DEF RecallModel
  <2> HIDE DEF l
  <2> QED BY <1>1, <1>2, <2>1, <2>2 DEF Calm, RecallModel, Quiet
<1>3. CASE RefuseModel(r)
  BY <1>1, <1>3, DisappointedIs DEF Calm, RefuseModel, Quiet
<1>4. CASE RefuseRoute(r)
  BY <1>1, <1>4, DisappointedIs DEF Calm, RefuseRoute, Quiet
<1>5. CASE StepsOut(r)
  <2>1. loop'[r].pc = "done" BY <1>5, GoesIs DEF StepsOut
  <2> QED BY <1>1, <1>5, <2>1 DEF Calm, StepsOut, Quiet
<1>6. CASE GivesUp(r)
  BY <1>1, <1>6, DisappointedIs DEF Calm, GivesUp, Quiet
<1>7. CASE ToolReturns(r)
  <2> DEFINE e == ToolStep(loop[r].perm)
             l == Then(r, loop[r])
  <2>1. e \in LoopEntry /\ ~IsModelStep(e)
    <3>1. loop[r].perm \in Permission BY <1>0 DEF Place
    <3>2. <<>> \in Seq(Tool) OBVIOUS
    <3> QED BY <3>1, <3>2 DEF LoopEntry, ToolStep, IsModelStep
  <2>2. loop[r].at = Len(journal[r]) BY <1>7 DEF ToolReturns, LoopsTyped, Fits, AtTheEnd
  <2>3. ModelSteps(r) \in Nat BY ModelStepsCount
  <2>4. ModelSteps(r)' = ModelSteps(r)
    <3>1. Record(r, e) BY <1>7 DEF ToolReturns
    <3> HIDE DEF e
    <3> QED BY <2>1, <2>2, <2>3, <3>1, RecordCounts
  <2>5. l.pc \in {"model", "tools"} BY <1>0 DEF Then, Place
  <2>6. loop'[r] = l BY <1>7, SetIs DEF ToolReturns
  <2> HIDE DEF l
  <2> QED BY <1>7, <2>4, <2>5, <2>6 DEF Calm, ToolReturns, Quiet
<1>8. ASSUME NEW b \in BOOLEAN, Begin(r, b) PROVE Calm(r)
  <2> DEFINE o == {t \in Tool : b /\ r \notin Responding /\ EffectivePermission(t) \in Callable}
             l == [Fresh EXCEPT !.pc = "model", !.offered = o]
  <2>1. o \in SUBSET Tool OBVIOUS
  <2>2. l.pc = "model"
    <3> HIDE DEF o
    <3> QED BY <2>1, FreshIs
  <2>3. loop'[r] = l BY <1>8, SetIs DEF Begin
  <2> HIDE DEF l
  <2> QED BY <1>1, <1>8, <2>2, <2>3 DEF Calm, Begin, Quiet
<1>9. ASSUME NEW b \in BOOLEAN, CallTool(r, b) PROVE Calm(r)
  <2> DEFINE p == PermissionNow(r, Head(loop[r].todo), b)
             l == [loop[r] EXCEPT !.pc = "backend", !.perm = p, !.tries = 0, !.fixed = FALSE]
             m == Then(r, loop[r])
  <2>1. l.pc = "backend" /\ m.pc \in {"model", "tools"} BY <1>0 DEF Then, Place
  <2>2. LoopGoes(r, "raised") \/ Set(r, l) \/ Set(r, m) BY <1>9 DEF CallTool
  <2> HIDE DEF l, m
  <2>3. loop'[r].pc \in {"raised", "backend", "model", "tools"}
    BY <2>1, <2>2, SetIs, GoesIs
  <2> QED BY <1>1, <1>9, <2>3 DEF Calm, CallTool, Quiet
<1>10. ASSUME NEW b \in BOOLEAN, ToolFails(r, b) PROVE Calm(r)
  <2> DEFINE l == [loop[r] EXCEPT !.tries = @ + 1]
             m == [loop[r] EXCEPT !.fixed = TRUE]
  <2>1. l.pc = "backend" /\ m.pc = "backend" BY <1>0, <1>10 DEF Place, ToolFails
  <2>2. LoopGoes(r, "raised") \/ Set(r, l) \/ Set(r, m) BY <1>10 DEF ToolFails
  <2> HIDE DEF l, m
  <2>3. loop'[r].pc \in {"raised", "backend"} BY <2>1, <2>2, SetIs, GoesIs
  <2> QED BY <1>1, <1>10, <2>3 DEF Calm, ToolFails, Quiet
<1> QED BY <1>2, <1>3, <1>4, <1>5, <1>6, <1>7, <1>8, <1>9, <1>10

\* A counter that changes at one run only.
LEMMA BumpIs ==
  ASSUME NEW f \in [Run -> Nat], NEW r \in Run, NEW n \in Nat
  PROVE  LET g == [f EXCEPT ![r] = n] IN
           g \in [Run -> Nat] /\ g[r] = n /\ \A q \in Run : q # r => g[q] = f[q]
OBVIOUS

\* What a row of the meter adds to what was billed, whether it was written or lost.
LEMMA MeterRowIs ==
  ASSUME Counters, NEW r \in Run, MeterRow(r)
  PROVE  /\ rows' \in [Run -> Nat] /\ lost' \in [Run -> Nat]
         /\ rows'[r] + lost'[r] = rows[r] + lost[r] + 1
         /\ \A q \in Run : q # r => rows'[q] = rows[q] /\ lost'[q] = lost[q]
         /\ \/ rows'[r] = rows[r] + 1 /\ lost' = lost
            \/ lost'[r] = lost[r] + 1 /\ rows' = rows
<1>0. rows[r] \in Nat /\ lost[r] \in Nat BY DEF Counters
<1>1. CASE rows' = [rows EXCEPT ![r] = rows[r] + 1] /\ UNCHANGED lost
  <2>1. /\ rows' \in [Run -> Nat] /\ rows'[r] = rows[r] + 1
        /\ \A q \in Run : q # r => rows'[q] = rows[q]
    BY <1>0, <1>1 DEF Counters
  <2> QED BY <1>0, <1>1, <2>1 DEF Counters
<1>2. CASE lost' = [lost EXCEPT ![r] = lost[r] + 1] /\ UNCHANGED rows
  <2>1. /\ lost' \in [Run -> Nat] /\ lost'[r] = lost[r] + 1
        /\ \A q \in Run : q # r => lost'[q] = lost[q]
    BY <1>0, <1>2 DEF Counters
  <2> QED BY <1>0, <1>2, <2>1 DEF Counters
<1> QED BY <1>1, <1>2 DEF MeterRow

\* What is known of a run before its step.
LEMMA RunFacts ==
  ASSUME LoopsTyped, BooksInv, NEW r \in Run
  PROVE  /\ flying[r] \in Nat /\ paid[r] \in Nat /\ rows[r] \in Nat /\ lost[r] \in Nat
         /\ deaths[r] \in Nat /\ ModelSteps(r) \in Nat /\ rows[r] + lost[r] \in Nat
         /\ conf.mediated \in BOOLEAN
         /\ Balanced(conf.mediated, loop[r].pc, flying[r], paid[r], rows[r] + lost[r],
                     deaths[r], ModelSteps(r))
<1>1. /\ flying[r] \in Nat /\ paid[r] \in Nat /\ rows[r] \in Nat /\ lost[r] \in Nat
      /\ deaths[r] \in Nat
  BY DEF BooksInv, Counters
<1>2. conf.mediated \in BOOLEAN BY DEF LoopsTyped
<1>3. IsBalanced(r) BY DEF BooksInv
<1> QED BY <1>1, <1>2, <1>3, ModelStepsCount DEF IsBalanced

\* A call is sent: within the limit, and by a run that has no other under way but for
\* those of its dead.
LEMMA SentKeeps ==
  ASSUME LoopAssumption, IsFiniteSet(Run), LoopsTyped, BooksInv, NEW r \in Run, Moves(r),
         conf' = conf, AskModel(r) \/ AskFallback(r)
  PROVE  BooksInv'
<1>1. /\ flying' = [flying EXCEPT ![r] = flying[r] + 1] /\ LoopGoes(r, "wait")
      /\ UNCHANGED <<paid, rows, lost, deaths, journal>>
      /\ \/ loop[r].pc = "model" /\ (conf.mediated => Total(rows) < Limit)
         \/ loop[r].pc = "fallback"
  BY DEF AskModel, AskFallback, Sent, Quiet, Admitted, Charged
<1>2. flying \in [Run -> Nat] /\ rows \in [Run -> Nat] BY DEF BooksInv, Counters
<1>3. /\ flying' \in [Run -> Nat] /\ flying'[r] = flying[r] + 1
      /\ \A q \in Run : q # r => flying'[q] = flying[q]
  BY <1>1, <1>2
<1>4. Others(r) BY <1>1, <1>3 DEF Moves, Others, Set, LoopsTyped
<1>5. loop'[r].pc = "wait" BY <1>1, GoesIs
<1>6. ModelSteps(r)' = ModelSteps(r) BY <1>1 DEF ModelSteps
<1>7. Limit \in Nat /\ Total(rows) \in Nat BY <1>2, UnitsFacts DEF LoopAssumption
<1>8. IsBalanced(r)'
  BY <1>1, <1>3, <1>5, <1>6, <1>7, RunFacts DEF IsBalanced, Balanced, One
<1>9. \A q \in Run : IsBalanced(q)' BY <1>4, <1>8, OtherBooksStay
<1>10. Counters' BY <1>1, <1>3 DEF BooksInv, Counters
<1>11. ASSUME conf.mediated, Limit > 0
       PROVE  Total(rows) + Total(flying') < Limit + Cardinality(Run) + Total(deaths)
  <2>1. Total(rows) < Limit BY <1>1, <1>11, RunFacts DEF Balanced
  <2>2. \A q \in Run : flying'[q] <= deaths[q] + 1
    <3> SUFFICES ASSUME NEW q \in Run PROVE flying'[q] <= deaths[q] + 1 OBVIOUS
    <3>1. flying'[q] \in Nat /\ deaths[q] \in Nat BY <1>3 DEF BooksInv, Counters
    <3>2. flying'[q] <= deaths[q] + One(loop'[q].pc \in {"wait", "raised", "nokey"})
      BY <1>1, <1>9 DEF IsBalanced, Balanced
    <3> QED BY <3>1, <3>2 DEF One
  <2>3. deaths \in [Run -> Nat] BY DEF BooksInv, Counters
  <2>4. Cardinality(Run) \in Nat /\ Total(flying') <= Total(deaths) + Cardinality(Run)
    BY <1>3, <2>2, <2>3, OneUnitMoreEach
  <2>5. Total(flying') \in Nat /\ Total(deaths) \in Nat BY <1>3, <2>3, UnitsFacts
  <2> QED BY <1>7, <2>1, <2>4, <2>5
<1>12. Total(flying)' = Total(flying') /\ Total(rows)' = Total(rows) /\ Total(paid)' = Total(paid)
       /\ Total(lost)' = Total(lost) /\ Total(deaths)' = Total(deaths)
  BY <1>1 DEF Total, Units
<1>13. Bounded' BY <1>11, <1>12 DEF BooksInv, Bounded
<1> QED BY <1>9, <1>10, <1>13 DEF BooksInv

\* The provider answers, and the broker writes its row before it hands on.
LEMMA AnswerKeeps ==
  ASSUME LoopAssumption, IsFiniteSet(Run), LoopsTyped, BooksInv, NEW r \in Run, Moves(r),
         conf' = conf, NEW c \in Answers, Answer(r, c)
  PROVE  BooksInv'
<1>1. /\ flying' = [flying EXCEPT ![r] = flying[r] - 1] /\ flying[r] > 0
      /\ paid' = [paid EXCEPT ![r] = paid[r] + 1]
      /\ IF conf.mediated THEN MeterRow(r) ELSE UNCHANGED <<rows, lost>>
      /\ UNCHANGED <<deaths, journal>>
      /\ \/ loop[r].pc = "wait" /\ Set(r, [loop[r] EXCEPT !.pc = "commit", !.todo = c])
         \/ flying[r] > One(loop[r].pc = "wait") /\ UNCHANGED loop
  BY DEF Answer, Quiet, ForItself, Orphaned, One
<1>2. Counters BY DEF BooksInv
<1>3. flying[r] - 1 \in Nat /\ paid[r] + 1 \in Nat BY <1>1, RunFacts
<1>4. /\ flying' \in [Run -> Nat] /\ flying[r] = flying'[r] + 1 /\ flying'[r] \in Nat
      /\ paid' \in [Run -> Nat] /\ paid'[r] = paid[r] + 1
      /\ \A q \in Run : q # r => flying[q] = flying'[q] /\ paid'[q] = paid[q]
  <2>1. /\ flying' \in [Run -> Nat] /\ flying'[r] = flying[r] - 1
        /\ \A q \in Run : q # r => flying[q] = flying'[q]
    BY <1>1, <1>2, <1>3 DEF Counters
  <2>2. /\ paid' \in [Run -> Nat] /\ paid'[r] = paid[r] + 1
        /\ \A q \in Run : q # r => paid'[q] = paid[q]
    BY <1>1, <1>2, <1>3 DEF Counters
  <2> QED BY <1>3, <2>1, <2>2, RunFacts
<1>5. /\ rows' \in [Run -> Nat] /\ lost' \in [Run -> Nat]
      /\ \A q \in Run : q # r => rows'[q] = rows[q] /\ lost'[q] = lost[q]
      /\ rows'[r] + lost'[r] = rows[r] + lost[r] + One(conf.mediated)
  BY <1>1, <1>2, MeterRowIs, RunFacts DEF One, Counters
<1>6. Others(r) BY <1>1, <1>4, <1>5 DEF Moves, Others, Set, LoopsTyped
<1>7. \/ loop[r].pc = "wait" /\ loop'[r].pc = "commit"
      \/ flying[r] > One(loop[r].pc = "wait") /\ loop'[r].pc = loop[r].pc
  <2> DEFINE l == [loop[r] EXCEPT !.pc = "commit", !.todo = c]
  <2>1. l.pc = "commit" BY DEF LoopsTyped, Place
  <2>2. Set(r, l) => loop'[r] = l
    <3> HIDE DEF l
    <3> QED BY SetIs
  <2>3. \/ loop[r].pc = "wait" /\ Set(r, l)
        \/ flying[r] > One(loop[r].pc = "wait") /\ UNCHANGED loop
    BY <1>1
  <2> HIDE DEF l
  <2> QED BY <2>1, <2>2, <2>3
<1>8. ModelSteps(r)' = ModelSteps(r) BY <1>1 DEF ModelSteps
<1>9. IsBalanced(r)'
  <2> DEFINE b == rows[r] + lost[r]
             b2 == rows'[r] + lost'[r]
  <2>1. b2 = b + One(conf.mediated) BY <1>5
  <2>2. Balanced(conf.mediated, loop[r].pc, flying[r], paid[r], b, deaths[r], ModelSteps(r)) /\ b \in Nat
    BY RunFacts
  <2> HIDE DEF b, b2
  <2>3. Balanced(conf.mediated, loop'[r].pc, flying'[r], paid'[r], b2, deaths[r], ModelSteps(r))
    BY <1>1, <1>4, <1>7, <2>1, <2>2, RunFacts DEF Balanced, One
  <2> QED BY <1>1, <1>8, <2>3 DEF IsBalanced, b2
<1>10. \A q \in Run : IsBalanced(q)' BY <1>6, <1>9, OtherBooksStay
<1>11. Counters' BY <1>1, <1>2, <1>4, <1>5 DEF Counters
<1>12. Bounded'
  <2> SUFFICES ASSUME conf.mediated
               PROVE /\ Total(paid') = Total(rows') + Total(lost')
                     /\ Limit > 0 => Total(rows') + Total(flying')
                                       < Limit + Cardinality(Run) + Total(deaths)
    BY <1>1 DEF Bounded, Total, Units
  <2>1. Total(paid') = Total(paid) + 1 /\ Total(flying) = Total(flying') + 1
    BY <1>2, <1>4, OneUnitMore DEF Counters
  <2>2. \/ Total(rows') = Total(rows) + 1 /\ Total(lost') = Total(lost)
        \/ Total(lost') = Total(lost) + 1 /\ Total(rows') = Total(rows)
    <3>1. MeterRow(r) BY <1>1
    <3>2. CASE rows'[r] = rows[r] + 1 /\ lost' = lost BY <1>2, <1>5, <3>2, OneUnitMore DEF Counters
    <3>3. CASE lost'[r] = lost[r] + 1 /\ rows' = rows BY <1>2, <1>5, <3>3, OneUnitMore DEF Counters
    <3> QED BY <1>2, <3>1, <3>2, <3>3, MeterRowIs
  <2>3. Total(rows) \in Nat /\ Total(lost) \in Nat /\ Total(flying') \in Nat
        /\ Total(deaths) \in Nat /\ Limit \in Nat /\ Cardinality(Run) \in Nat
    BY <1>2, <1>4, UnitsFacts, FS_CardinalityType DEF Counters, LoopAssumption
  <2>4. Bounded BY DEF BooksInv
  <2> QED BY <2>1, <2>2, <2>3, <2>4 DEF Bounded
<1> QED BY <1>10, <1>11, <1>12 DEF BooksInv

\* A call that fails is no longer under way, and its caller, if it lives, gives up or
\* falls back.
LEMMA CallFailsKeeps ==
  ASSUME LoopAssumption, IsFiniteSet(Run), LoopsTyped, BooksInv, NEW r \in Run, Moves(r),
         conf' = conf, CallFails(r)
  PROVE  BooksInv'
<1>1. /\ flying' = [flying EXCEPT ![r] = flying[r] - 1] /\ flying[r] > 0
      /\ UNCHANGED <<paid, rows, lost, deaths, journal>>
      /\ \/ loop[r].pc = "wait" /\ Disappointed(r)
         \/ flying[r] > One(loop[r].pc = "wait") /\ UNCHANGED loop
  BY DEF CallFails, Quiet, ForItself, Orphaned, One
<1>2. Counters BY DEF BooksInv
<1>3. flying[r] - 1 \in Nat BY <1>1, RunFacts
<1>4. /\ flying' \in [Run -> Nat] /\ flying[r] = flying'[r] + 1 /\ flying'[r] \in Nat
      /\ \A q \in Run : q # r => flying[q] = flying'[q]
  <2>1. /\ flying' \in [Run -> Nat] /\ flying'[r] = flying[r] - 1
        /\ \A q \in Run : q # r => flying[q] = flying'[q]
    BY <1>1, <1>2, <1>3 DEF Counters
  <2> QED BY <1>3, <2>1, RunFacts
<1>5. Others(r) BY <1>1, <1>4 DEF Moves, Others, Set, LoopsTyped
<1>6. \/ /\ loop[r].pc = "wait"
         /\ loop'[r].pc \in {"raised", "nokey"} \/ (~conf.mediated /\ loop'[r].pc = "fallback")
      \/ flying[r] > One(loop[r].pc = "wait") /\ loop'[r].pc = loop[r].pc
  BY <1>1, DisappointedIs
<1>7. ModelSteps(r)' = ModelSteps(r) BY <1>1 DEF ModelSteps
<1>8. Balanced(conf.mediated, loop'[r].pc, flying'[r], paid[r], rows[r] + lost[r], deaths[r],
               ModelSteps(r))
  <2> DEFINE b == rows[r] + lost[r]
  <2>1. Balanced(conf.mediated, loop[r].pc, flying[r], paid[r], b, deaths[r], ModelSteps(r)) /\ b \in Nat
    BY RunFacts
  <2> HIDE DEF b
  <2>2. Balanced(conf.mediated, loop'[r].pc, flying'[r], paid[r], b, deaths[r], ModelSteps(r))
    BY <1>1, <1>4, <1>6, <2>1, RunFacts DEF Balanced, One
  <2> QED BY <2>2 DEF b
<1>9. IsBalanced(r)' BY <1>1, <1>7, <1>8 DEF IsBalanced
<1>10. \A q \in Run : IsBalanced(q)' BY <1>5, <1>9, OtherBooksStay
<1>11. Counters' BY <1>1, <1>2, <1>4 DEF Counters
<1>12. Bounded'
  <2> SUFFICES ASSUME conf.mediated
               PROVE /\ Total(paid) = Total(rows) + Total(lost)
                     /\ Limit > 0 => Total(rows) + Total(flying')
                                       < Limit + Cardinality(Run) + Total(deaths)
    BY <1>1 DEF Bounded, Total, Units
  <2>1. Total(flying) = Total(flying') + 1 BY <1>2, <1>4, OneUnitMore DEF Counters
  <2>2. Total(rows) \in Nat /\ Total(flying') \in Nat
        /\ Total(deaths) \in Nat /\ Limit \in Nat /\ Cardinality(Run) \in Nat
    BY <1>2, <1>4, UnitsFacts, FS_CardinalityType DEF Counters, LoopAssumption
  <2>3. Bounded BY DEF BooksInv
  <2> QED BY <2>1, <2>2, <2>3 DEF Bounded
<1> QED BY <1>10, <1>11, <1>12 DEF BooksInv

\* The answer becomes a step of the run; what its meter owes, it owes from here on.
LEMMA CommitKeeps ==
  ASSUME LoopsTyped, BooksInv, NEW r \in Run, Moves(r), conf' = conf, CommitModel(r)
  PROVE  BooksInv'
<1> DEFINE e == ModelStep(loop[r].todo)
<1>0. loop[r] \in Place /\ loop[r].at = Len(journal[r]) /\ loop[r].pc = "commit"
  BY DEF LoopsTyped, CommitModel, Fits, AtTheEnd
<1>1. UNCHANGED <<flying, paid, rows, lost, deaths>> BY DEF CommitModel, money, Quiet
<1>2. Others(r) BY <1>1 DEF Moves, Others, Set, LoopsTyped
<1>3. ModelSteps(r)' = ModelSteps(r) + 1
  <2>1. e \in LoopEntry /\ IsModelStep(e) BY <1>0 DEF LoopEntry, ModelStep, IsModelStep, Place
  <2>2. Record(r, e) BY DEF CommitModel
  <2> HIDE DEF e
  <2> QED BY <1>0, <2>1, <2>2, RecordCounts
<1>4. loop'[r].pc \in (IF conf.mediated THEN {"done", "tools"} ELSE {"meter"})
  <2> DEFINE l == Heard(r, loop[r].todo)
  <2>1. l.pc \in {"done", "tools"} BY <1>0 DEF Heard, Place
  <2>2. IF ~conf.mediated THEN LoopGoes(r, "meter") ELSE Set(r, l)
    BY DEF CommitModel, MetersItself
  <2> HIDE DEF l
  <2> QED BY <2>1, <2>2, SetIs, GoesIs
<1>5. Balanced(conf.mediated, loop'[r].pc, flying[r], paid[r], rows[r] + lost[r], deaths[r],
               ModelSteps(r) + 1)
  <2> DEFINE b == rows[r] + lost[r]
  <2>1. Balanced(conf.mediated, loop[r].pc, flying[r], paid[r], b, deaths[r], ModelSteps(r)) /\ b \in Nat
    BY RunFacts
  <2> HIDE DEF b
  <2>2. Balanced(conf.mediated, loop'[r].pc, flying[r], paid[r], b, deaths[r], ModelSteps(r) + 1)
    <3>1. /\ flying[r] \in Nat /\ paid[r] \in Nat /\ deaths[r] \in Nat /\ ModelSteps(r) \in Nat
          /\ conf.mediated \in BOOLEAN
      BY RunFacts
    <3>2. CASE conf.mediated
      <4>1. loop'[r].pc \in {"done", "tools"} BY <1>4, <3>2
      <4>2. /\ flying[r] <= deaths[r] /\ paid[r] + flying[r] <= ModelSteps(r) + deaths[r] + 1
            /\ b = paid[r] /\ (Limit = 0 => flying[r] = 0 /\ paid[r] = 0)
        BY <1>0, <2>1, <3>1, <3>2 DEF Balanced, One
      <4> QED BY <3>1, <3>2, <4>1, <4>2 DEF Balanced, One
    <3>3. CASE ~conf.mediated
      <4>1. loop'[r].pc = "meter" BY <1>4, <3>3
      <4> QED BY <1>0, <2>1, <3>1, <3>3, <4>1 DEF Balanced, One
    <3> QED BY <3>2, <3>3
  <2> QED BY <2>2 DEF b
<1>6. IsBalanced(r)' BY <1>1, <1>3, <1>5 DEF IsBalanced
<1>7. Counters' BY <1>1 DEF BooksInv, Counters
<1>8. Bounded' BY <1>1 DEF BooksInv, Bounded, Total, Units
<1> QED BY <1>2, <1>6, <1>7, <1>8, OtherBooksStay DEF BooksInv

\* Without mediation the run meters itself.
LEMMA MeterKeeps ==
  ASSUME LoopsTyped, BooksInv, NEW r \in Run, Moves(r), conf' = conf, Meter(r)
  PROVE  BooksInv'
<1>0. loop[r] \in Place /\ loop[r].pc = "meter" BY DEF LoopsTyped, Meter
<1>1. UNCHANGED <<flying, paid, deaths, journal>> /\ MeterRow(r) BY DEF Meter, Quiet
<1>2. Counters /\ ~conf.mediated BY <1>0, RunFacts DEF BooksInv, Balanced
<1>3. /\ rows' \in [Run -> Nat] /\ lost' \in [Run -> Nat]
      /\ \A q \in Run : q # r => rows'[q] = rows[q] /\ lost'[q] = lost[q]
      /\ rows'[r] + lost'[r] = rows[r] + lost[r] + 1
  BY <1>1, <1>2, MeterRowIs
<1>4. Others(r) BY <1>1, <1>3 DEF Moves, Others, Set, LoopsTyped
<1>5. loop'[r].pc \in {"done", "tools"}
  <2> DEFINE l == Heard(r, loop[r].todo)
  <2>1. l.pc \in {"done", "tools"} BY <1>0 DEF Heard, Place
  <2>2. Set(r, l) BY DEF Meter
  <2> HIDE DEF l
  <2> QED BY <2>1, <2>2, SetIs
<1>6. ModelSteps(r)' = ModelSteps(r) BY <1>1 DEF ModelSteps
<1>7. IsBalanced(r)'
  <2> DEFINE b == rows[r] + lost[r]
             b2 == rows'[r] + lost'[r]
  <2>1. b2 = b + 1 BY <1>3
  <2>2. Balanced(conf.mediated, loop[r].pc, flying[r], paid[r], b, deaths[r], ModelSteps(r)) /\ b \in Nat
    BY RunFacts
  <2> HIDE DEF b, b2
  <2>3. Balanced(conf.mediated, loop'[r].pc, flying[r], paid[r], b2, deaths[r], ModelSteps(r))
    BY <1>0, <1>2, <1>5, <2>1, <2>2, RunFacts DEF Balanced, One
  <2> QED BY <1>1, <1>6, <2>3 DEF IsBalanced, b2
<1>8. Counters' BY <1>1, <1>2, <1>3 DEF Counters
<1>9. Bounded' BY <1>2 DEF Bounded
<1> QED BY <1>4, <1>7, <1>8, <1>9, OtherBooksStay DEF BooksInv

\* A death leaves a call under way with the broker, or, without one, paid for or not.
LEMMA DieKeeps ==
  ASSUME LoopAssumption, IsFiniteSet(Run), LoopsTyped, BooksInv, NEW r \in Run, Moves(r),
         conf' = conf, Die(r)
  PROVE  BooksInv'
<1>1. /\ deaths' = [deaths EXCEPT ![r] = deaths[r] + 1] /\ Set(r, Fresh)
      /\ UNCHANGED <<rows, lost, journal>>
      /\ IF conf.mediated THEN UNCHANGED <<flying, paid>>
         ELSE /\ flying' = [flying EXCEPT ![r] = 0]
              /\ \E n \in 0 .. flying[r] : paid' = [paid EXCEPT ![r] = paid[r] + n]
  BY DEF Die
<1>2. Counters BY DEF BooksInv
<1>3. /\ deaths' \in [Run -> Nat] /\ deaths'[r] = deaths[r] + 1
      /\ \A q \in Run : q # r => deaths'[q] = deaths[q]
  BY <1>1, <1>2 DEF Counters
<1>4. /\ flying' \in [Run -> Nat] /\ paid' \in [Run -> Nat]
      /\ flying'[r] = (IF conf.mediated THEN flying[r] ELSE 0)
      /\ paid'[r] >= paid[r] /\ paid'[r] + flying'[r] <= paid[r] + flying[r]
      /\ conf.mediated => paid'[r] = paid[r]
      /\ \A q \in Run : q # r => flying'[q] = flying[q] /\ paid'[q] = paid[q]
  <2>0. flying[r] \in Nat /\ paid[r] \in Nat BY RunFacts
  <2>1. CASE conf.mediated BY <1>1, <1>2, <2>0, <2>1 DEF Counters
  <2>2. CASE ~conf.mediated
    <3>1. PICK n \in 0 .. flying[r] : paid' = [paid EXCEPT ![r] = paid[r] + n] BY <1>1, <2>2
    <3>2. n \in Nat /\ n <= flying[r] /\ paid[r] + n \in Nat BY <2>0
    <3>3. /\ paid' \in [Run -> Nat] /\ paid'[r] = paid[r] + n
          /\ \A q \in Run : q # r => paid'[q] = paid[q]
      BY <1>2, <3>1, <3>2 DEF Counters
    <3>4. /\ flying' \in [Run -> Nat] /\ flying'[r] = 0
          /\ \A q \in Run : q # r => flying'[q] = flying[q]
      BY <1>1, <1>2, <2>2 DEF Counters
    <3> QED BY <2>0, <2>2, <3>2, <3>3, <3>4
  <2> QED BY <2>1, <2>2
<1>5. Others(r) BY <1>1, <1>3, <1>4 DEF Moves, Others, Set, LoopsTyped
<1>6. loop'[r].pc = "start" BY <1>1, SetIs, FreshIs
<1>7. ModelSteps(r)' = ModelSteps(r) BY <1>1 DEF ModelSteps
<1>8. Balanced(conf.mediated, loop'[r].pc, flying'[r], paid'[r], rows[r] + lost[r], deaths'[r],
               ModelSteps(r))
  <2> DEFINE b == rows[r] + lost[r]
  <2>1. Balanced(conf.mediated, loop[r].pc, flying[r], paid[r], b, deaths[r], ModelSteps(r)) /\ b \in Nat
    BY RunFacts
  <2>2. flying'[r] \in Nat /\ paid'[r] \in Nat BY <1>4
  <2> HIDE DEF b
  <2>3. Balanced(conf.mediated, loop'[r].pc, flying'[r], paid'[r], b, deaths'[r], ModelSteps(r))
    BY <1>3, <1>4, <1>6, <2>1, <2>2, RunFacts DEF Balanced, One
  <2> QED BY <2>3 DEF b
<1>9. IsBalanced(r)' BY <1>1, <1>7, <1>8 DEF IsBalanced
<1>10. \A q \in Run : IsBalanced(q)' BY <1>5, <1>9, OtherBooksStay
<1>11. Counters' BY <1>1, <1>2, <1>3, <1>4 DEF Counters
<1>12. Bounded'
  <2> SUFFICES ASSUME conf.mediated
               PROVE /\ Total(paid) = Total(rows) + Total(lost)
                     /\ Limit > 0 => Total(rows) + Total(flying)
                                       < Limit + Cardinality(Run) + Total(deaths')
    BY <1>1 DEF Bounded, Total, Units
  <2>1. Total(deaths') = Total(deaths) + 1 BY <1>2, <1>3, OneUnitMore DEF Counters
  <2>2. Total(rows) \in Nat /\ Total(flying) \in Nat
        /\ Total(deaths) \in Nat /\ Limit \in Nat /\ Cardinality(Run) \in Nat
    BY <1>2, UnitsFacts, FS_CardinalityType DEF Counters, LoopAssumption
  <2>3. Bounded BY DEF BooksInv
  <2> QED BY <2>1, <2>2, <2>3 DEF Bounded
<1> QED BY <1>10, <1>11, <1>12 DEF BooksInv

LEMMA BooksStart ==
  ASSUME LoopAssumption, IsFiniteSet(Run), LoopInit
  PROVE  BooksInv
<1> DEFINE z == [r \in Run |-> 0]
<1>1. flying = z /\ paid = z /\ rows = z /\ lost = z /\ deaths = z BY DEF LoopInit
<1>2. z \in [Run -> Nat] /\ \A r \in Run : z[r] = 0 OBVIOUS
<1>3. Total(z) = 0
  <2>1. Units(z) = {}
    <3> HIDE DEF z
    <3> SUFFICES ASSUME NEW x \in Units(z) PROVE FALSE OBVIOUS
    <3>1. PICK q \in Run : \E i \in 1 .. z[q] : x = <<q, i>> BY <1>2, UnitsFacts
    <3> QED BY <1>2, <3>1
  <2> QED BY <2>1, FS_EmptySet DEF Total
<1> HIDE DEF z
<1>4. Counters BY <1>1, <1>2 DEF Counters
<1>5. ASSUME NEW r \in Run PROVE IsBalanced(r)
  <2>1. LoopsTyped /\ loop[r] = Fresh BY LoopsStartTyped DEF LoopInit
  <2>2. loop[r].pc = "start" BY <2>1, FreshIs
  <2>3. ModelSteps(r) \in Nat /\ conf.mediated \in BOOLEAN
    BY <2>1, ModelStepsCount DEF LoopsTyped
  <2>4. flying[r] = 0 /\ paid[r] = 0 /\ rows[r] + lost[r] = 0 /\ deaths[r] = 0
    BY <1>1, <1>2
  <2>5. ModelSteps(r) = 0
    <3>1. journal[r] = <<>> BY DEF LoopInit
    <3>2. {i \in DOMAIN journal[r] : IsModelStep(journal[r][i])} = {} BY <3>1
    <3> QED BY <3>2, FS_EmptySet DEF ModelSteps
  <2> QED BY <2>2, <2>3, <2>4, <2>5 DEF IsBalanced, Balanced, One
<1>6. Limit \in Nat /\ Cardinality(Run) \in Nat BY FS_CardinalityType DEF LoopAssumption
<1>7. Bounded BY <1>1, <1>3, <1>6 DEF Bounded
<1> QED BY <1>4, <1>5, <1>7 DEF BooksInv

LEMMA BooksKeep ==
  ASSUME LoopAssumption, IsFiniteSet(Run), LoopsTyped, BooksInv, [LoopNext]_loopVars
  PROVE  BooksInv'
<1>1. CASE UNCHANGED <<conf, loop, journal, flying, paid, rows, lost, deaths>>
  <2>1. \A r \in Run : ModelSteps(r)' = ModelSteps(r) BY <1>1 DEF ModelSteps
  <2>2. \A r \in Run : IsBalanced(r)' BY <1>1, <2>1 DEF BooksInv, IsBalanced
  <2>3. Counters' BY <1>1 DEF BooksInv, Counters
  <2>4. Bounded' BY <1>1 DEF BooksInv, Bounded, Total, Units
  <2> QED BY <2>2, <2>3, <2>4 DEF BooksInv
<1>2. ASSUME NEW r \in Run, LoopWork(r) \/ Die(r) PROVE BooksInv'
  <2>1. Moves(r) /\ conf' = conf BY <1>2, RunMoves
  <2>2. CASE \/ RecallModel(r) \/ RefuseModel(r) \/ RefuseRoute(r) \/ StepsOut(r) \/ GivesUp(r)
             \/ ToolReturns(r)
             \/ \E b \in BOOLEAN : Begin(r, b) \/ CallTool(r, b) \/ ToolFails(r, b)
    <3>1. Calm(r) BY <2>2, CalmSteps
    <3> QED BY <2>1, <3>1, CalmKeeps
  <2>3. CASE AskModel(r) \/ AskFallback(r) BY <2>1, <2>3, SentKeeps
  <2>4. ASSUME NEW c \in Answers, Answer(r, c) PROVE BooksInv' BY <2>1, <2>4, AnswerKeeps
  <2>5. CASE CallFails(r) BY <2>1, <2>5, CallFailsKeeps
  <2>6. CASE CommitModel(r) BY <2>1, <2>6, CommitKeeps
  <2>7. CASE Meter(r) BY <2>1, <2>7, MeterKeeps
  <2>8. CASE Die(r) BY <2>1, <2>8, DieKeeps
  <2> QED BY <1>2, <2>2, <2>3, <2>4, <2>5, <2>6, <2>7, <2>8 DEF LoopWork
<1>3. ASSUME NEW a \in Api, \/ WriteSwitches(a)
                            \/ \E t \in Tool, p \in {"unset", "disabled", "allowed"} :
                                 ReadSwitches(a, t, p)
      PROVE  UNCHANGED <<conf, loop, journal, flying, paid, rows, lost, deaths>>
  BY <1>3 DEF WriteSwitches, ReadSwitches, money
<1>4. UNCHANGED loopVars => UNCHANGED <<conf, loop, journal, flying, paid, rows, lost, deaths>>
  BY DEF loopVars, money
<1> QED BY <1>1, <1>2, <1>3, <1>4 DEF LoopNext

\* With mediation everything paid was billed, so the sums bound what was sent.
LEMMA BooksAreRight ==
  ASSUME LoopAssumption, IsFiniteSet(Run), LoopsTyped, BooksInv
  PROVE  SpendingIsRight
<1>1. OverspendIsBounded
  <2> SUFFICES ASSUME conf.mediated
               PROVE  IF Limit = 0 THEN Total(paid) + Total(flying) = 0
                      ELSE Total(paid) + Total(flying)
                             < Limit + Cardinality(Run) + Total(deaths) + Total(lost)
    BY DEF OverspendIsBounded
  <2>1. Total(rows) \in Nat /\ Total(lost) \in Nat /\ Total(flying) \in Nat /\ Total(paid) \in Nat
        /\ Total(deaths) \in Nat /\ Limit \in Nat /\ Cardinality(Run) \in Nat
    BY UnitsFacts, FS_CardinalityType DEF BooksInv, Counters, LoopAssumption
  <2>2. CASE Limit = 0
    <3>1. \A r \in Run : flying[r] = 0 /\ paid[r] = 0 BY <2>2, RunFacts DEF Balanced
    <3>2. ASSUME NEW f \in [Run -> Nat], \A r \in Run : f[r] = 0 PROVE Total(f) = 0
      <4>1. \A x \in Units(f) : FALSE
        <5> SUFFICES ASSUME NEW x \in Units(f) PROVE FALSE OBVIOUS
        <5>1. PICK q \in Run : \E i \in 1 .. f[q] : x = <<q, i>> BY UnitsFacts
        <5> QED BY <3>2, <5>1
      <4>2. Units(f) = {} BY <4>1
      <4> QED BY <4>2, FS_EmptySet DEF Total
    <3> QED BY <2>2, <3>1, <3>2 DEF BooksInv, Counters
  <2>3. CASE Limit # 0 BY <2>1, <2>3 DEF BooksInv, Bounded
  <2> QED BY <2>2, <2>3
<1>2. PaidForOnce BY RunFacts DEF PaidForOnce, Balanced, One
<1>3. LedgerAgrees
  <2> SUFFICES ASSUME NEW r \in Run
               PROVE IF conf.mediated THEN rows[r] + lost[r] = paid[r]
                     ELSE /\ rows[r] + lost[r] <= paid[r]
                          /\ ModelSteps(r) <= rows[r] + lost[r] + deaths[r]
                                              + (IF loop[r].pc = "meter" THEN 1 ELSE 0)
    BY DEF LedgerAgrees
  <2>1. CASE conf.mediated BY <2>1, RunFacts DEF Balanced
  <2>2. CASE ~conf.mediated BY <2>2, RunFacts DEF Balanced, One
  <2> QED BY <2>1, <2>2
<1> QED BY <1>1, <1>2, <1>3 DEF SpendingIsRight

\* However many runs are in flight, whoever dies or gives up and whatever fails: under
\* mediation the limit is overrun by less than a call for every run and death and what the
\* meter lost, each call is a step of its run or lost with its caller, and meter and
\* journal agree (broker/server.py _llm_call and _check_quota, context.py _commit).
THEOREM SpendingStaysRight ==
  LoopAssumption /\ IsFiniteSet(Run) => (LoopSpec => []SpendingIsRight)
<1> SUFFICES ASSUME LoopAssumption, IsFiniteSet(Run) PROVE LoopSpec => []SpendingIsRight
  OBVIOUS
<1>1. LoopInit => LoopsTyped /\ SwitchInv /\ BooksInv BY LoopsStartTyped, BooksStart
<1>2. LoopsTyped /\ SwitchInv /\ BooksInv /\ [LoopNext]_loopVars
        => LoopsTyped' /\ SwitchInv' /\ BooksInv'
  BY LoopsKeep, BooksKeep
<1>3. LoopsTyped /\ BooksInv => SpendingIsRight BY BooksAreRight
<1> QED BY <1>1, <1>2, <1>3, PTL DEF LoopSpec
=============================================================================
