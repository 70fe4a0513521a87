---------------------------- MODULE DurableQueue ----------------------------
(***************************************************************************)
(* The durable queue (queue.py over the queue statements of the store).    *)
(*                                                                         *)
(* A Thread is anything that runs queue.py against the store: an api       *)
(* request, the serve-embedded sweeper, a worker process.  The store runs  *)
(* with autocommit, so nothing larger than one SQL statement is atomic:    *)
(* heartbeat, complete, fail, cancel, retry and enqueue are a queue_get,   *)
(* and later a queue_save of the whole document, with nothing held in      *)
(* between; a claim is the two UPDATEs of queue_reap, one queue_claim_one  *)
(* after another, and a queue_save for every job it must hand back.  A     *)
(* queue_claim_one is two steps: it counts the running jobs of each key in *)
(* the snapshot it starts from, and locks and rechecks its row later.      *)
(* With one Thread the handlers are serial, with two they interleave.      *)
(*                                                                         *)
(*   queue[j]    the stored document of job j                              *)
(*   at[t]       what thread t is in the middle of                         *)
(*   granted[j]  how often j was claimed by a caller that may run it,      *)
(*               since its budget was last reset (a history variable, it   *)
(*               stops counting one past MaxAttempts[j])                   *)
(***************************************************************************)
EXTENDS QueueJob, FiniteSets

CONSTANTS Thread,
          Key, NoKey,              \* concurrency keys
          KeyOf,                   \* [Job -> Key \cup {NoKey}]
          LimitOf,                 \* [Job -> concurrencyLimit, 0 for none]
          Tag, NoTag,              \* version ids and agent names; NoTag is None
          JobVersion, JobAgent,    \* [Job -> Tag \cup {NoTag}], metadata of the job
          ServesVersion,           \* [Worker -> Tag \cup {NoTag}], the claim's filters
          ServesAgent,
          Wants,                   \* [Worker -> SUBSET Job], the jobs of its types
          MaxClaimLimit,           \* MAX_CLAIM_LIMIT
          MaxQueueDepth            \* the workspace's maxQueueDepth quota

ASSUME TagAssumption ==
  /\ KeyOf \in [Job -> Key \cup {NoKey}] /\ LimitOf \in [Job -> Nat]
  /\ JobVersion \in [Job -> Tag \cup {NoTag}] /\ JobAgent \in [Job -> Tag \cup {NoTag}]
  /\ ServesVersion \in [Worker -> Tag \cup {NoTag}]
  /\ ServesAgent \in [Worker -> Tag \cup {NoTag}]
  /\ Wants \in [Worker -> SUBSET Job]
  /\ MaxClaimLimit \in Nat /\ MaxQueueDepth \in Nat

VARIABLES queue, at, granted

vars == <<queue, at, granted>>
-----------------------------------------------------------------------------
Held == [job: Job, doc: JobDoc]

Idle == [op |-> "idle"]

\* A claim in progress: what it does next, for whom, how many are wanted, what
\* was kept, what must be handed back, and the snapshot of a queue_claim_one.
Snapshot == [waiting: SUBSET Job, running: SUBSET Job]
NothingSeen == [waiting |-> {}, running |-> {}]
Claiming == [op: {"claim"}, phase: {"reap", "look", "pick", "release"}, worker: Worker,
             wanted: Nat, got: SUBSET Job, back: SUBSET Held, seen: Snapshot]

\* Between queue_get and queue_save: the document about to be written.
Reports == {"heartbeat", "complete", "fail"}
Saving == [op: Reports \cup {"enqueue", "cancel", "retry"}, job: Job, doc: JobDoc,
           worker: Worker \cup {NoWorker}]

\* version_of / agent_of filtering in claim(): None on either side matches.
Mismatch(a, b) == a # NoTag /\ b # NoTag /\ a # b
MayRun(w, j) == /\ ~Mismatch(ServesVersion[w], JobVersion[j])
                /\ ~Mismatch(ServesAgent[w], JobAgent[j])

Due(j) == queue[j].status = "pending" /\ queue[j].runAt = "due"
Running == {j \in Job : queue[j].status = "running"}

\* How many of these running jobs have j's key; keyless jobs are one idle bucket.
Busy(j, running) ==
  IF KeyOf[j] = NoKey THEN 0 ELSE Cardinality({k \in running : KeyOf[k] = KeyOf[j]})

\* Slip: the cap is compared with <=.
UnderCapPlusOne(j, running) ==
  KeyOf[j] = NoKey \/ LimitOf[j] = 0 \/ Busy(j, running) <= LimitOf[j]
UnderCap(j, running) ==
  KeyOf[j] = NoKey \/ LimitOf[j] = 0 \/ Busy(j, running) < LimitOf[j]

\* The rows of claim c's snapshot that are still there to be locked; the caps
\* are those of the snapshot.
Claimable(c) ==
  {j \in Wants[c.worker] \cap c.seen.waiting : Due(j) /\ UnderCap(j, c.seen.running)}

\* Among claimable jobs, the least-busy key goes first.
NextFor(c) == {j \in Claimable(c) : \A k \in Claimable(c) :
                                      Busy(j, c.seen.running) <= Busy(k, c.seen.running)}
-----------------------------------------------------------------------------
Init ==
  /\ queue = [j \in Job |-> AbsentDoc]
  /\ at = [t \in Thread |-> Idle]
  /\ granted = [j \in Job |-> 0]

\* queue_get, the checks, and the document the handler is going to save.
Read(t, o, j, w, d) ==
  /\ at[t] = Idle
  /\ at' = [at EXCEPT ![t] = [op |-> o, job |-> j, doc |-> d, worker |-> w]]
  /\ UNCHANGED <<queue, granted>>

\* enqueue(): an existing id is returned untouched; the quota is checked after.
BeginEnqueue(t, j, when) ==
  /\ queue[j].status = "absent"
  /\ Cardinality({k \in Job : queue[k].status = "pending"}) < MaxQueueDepth
  /\ Read(t, "enqueue", j, NoWorker, Enqueued(when))

\* Slip: any worker may report a running job.
CompleteUnchecked(t, j, w) ==
  queue[j].status = "running" /\ Read(t, "complete", j, w, Completed(queue[j]))

\* heartbeat(), complete() and fail() refuse a caller that is not the holder.
BeginHeartbeat(t, j, w) ==
  HeldBy(queue[j], w) /\ Read(t, "heartbeat", j, w, Heartbeaten(queue[j]))

BeginComplete(t, j, w) ==
  HeldBy(queue[j], w) /\ Read(t, "complete", j, w, Completed(queue[j]))

BeginFail(t, j, w) ==
  HeldBy(queue[j], w) /\ Read(t, "fail", j, w, Failed(j, queue[j]))

\* cancel(): an unknown id resolves quietly.
BeginCancel(t, j, force) ==
  queue[j].status # "absent" /\ Read(t, "cancel", j, NoWorker, Cancelled(queue[j], force))

BeginRetry(t, j) ==
  queue[j].status \in {"failed", "cancelled"} /\ Read(t, "retry", j, NoWorker, Retried(queue[j]))

\* queue_save: the whole document is written, whatever the row says by now.
Save(t) ==
  /\ at[t].op \in Reports \cup {"enqueue", "cancel", "retry"}
  /\ queue' = [queue EXCEPT ![at[t].job] = at[t].doc]
  /\ granted' = IF at[t].op \in {"enqueue", "retry"}
                THEN [granted EXCEPT ![at[t].job] = 0] ELSE granted
  /\ at' = [at EXCEPT ![t] = Idle]

\* claim(): expired leases are reaped first, the jobs with attempts left ...
BeginClaim(t, w, limit) ==
  /\ at[t] = Idle
  /\ queue' = [j \in Job |-> IF ExpiredLease(queue[j]) /\ ~Exhausted(j, queue[j])
                             THEN Requeued(queue[j]) ELSE queue[j]]
  /\ at' = [at EXCEPT ![t] = [op |-> "claim", phase |-> "reap", worker |-> w,
                              wanted |-> limit, got |-> {}, back |-> {},
                              seen |-> NothingSeen]]
  /\ UNCHANGED granted

In(t, phase) == at[t].op = "claim" /\ at[t].phase = phase

\* ... and then the exhausted ones.
ReapExhausted(t) ==
  /\ In(t, "reap")
  /\ queue' = [j \in Job |-> IF ExpiredLease(queue[j]) /\ Exhausted(j, queue[j])
                             THEN DeadLettered(queue[j]) ELSE queue[j]]
  /\ at' = [at EXCEPT ![t].phase = "look"]
  /\ UNCHANGED granted

\* Slip: a job that is refused counts as one of those wanted.
MoreItemsToClaim(c) == Cardinality(c.got) + Cardinality(c.back) < c.wanted
MoreToClaim(c) == /\ Cardinality(c.got) < c.wanted
                  /\ Cardinality(c.got) + Cardinality(c.back) < MaxClaimLimit

\* queue_claim_one starts: the snapshot its running counts are taken from.
Look(t) ==
  /\ In(t, "look") /\ MoreToClaim(at[t])
  /\ at' = [at EXCEPT ![t].phase = "pick",
                      ![t].seen = [waiting |-> {j \in Job : Due(j)}, running |-> Running]]
  /\ UNCHANGED <<queue, granted>>

\* queue_claim_one handed out j, and the caller may run it.
ClaimOwn(t, j) ==
  /\ In(t, "pick") /\ j \in NextFor(at[t]) /\ MayRun(at[t].worker, j)
  /\ queue' = [queue EXCEPT ![j] = Claimed(@, at[t].worker)]
  /\ granted' = [granted EXCEPT ![j] = IF @ > MaxAttempts[j] THEN @ ELSE @ + 1]
  /\ at' = [at EXCEPT ![t] = [at[t] EXCEPT !.phase = "look", !.seen = NothingSeen,
                                       !.got = at[t].got \cup {j}]]

\* queue_claim_one handed out j, which belongs to another version or agent.
ClaimForeign(t, j) ==
  /\ In(t, "pick") /\ j \in NextFor(at[t]) /\ ~MayRun(at[t].worker, j)
  /\ queue' = [queue EXCEPT ![j] = Claimed(@, at[t].worker)]
  /\ at' = [at EXCEPT ![t] = [at[t] EXCEPT
              !.phase = "look", !.seen = NothingSeen,
              !.back = at[t].back \cup {[job |-> j, doc |-> Claimed(queue[j], at[t].worker)]}]]
  /\ UNCHANGED granted

\* Enough claimed, the attempts used up, or nothing left to claim.
EndClaimLoop(t) ==
  /\ \/ In(t, "look") /\ ~MoreToClaim(at[t])
     \/ In(t, "pick") /\ NextFor(at[t]) = {}
  /\ at' = [at EXCEPT ![t].phase = "release", ![t].seen = NothingSeen]
  /\ UNCHANGED <<queue, granted>>

\* One refused job is saved back as it was claimed, less the attempt.
Release(t, h) ==
  /\ In(t, "release") /\ h \in at[t].back
  /\ queue' = [queue EXCEPT ![h.job] = Released(h.doc)]
  /\ at' = [at EXCEPT ![t].back = @ \ {h}]
  /\ UNCHANGED granted

ReturnClaim(t) ==
  /\ In(t, "release") /\ at[t].back = {}
  /\ at' = [at EXCEPT ![t] = Idle]
  /\ UNCHANGED <<queue, granted>>

\* The process running the thread dies; what it had not saved is lost.
Die(t) ==
  /\ at[t] # Idle
  /\ at' = [at EXCEPT ![t] = Idle]
  /\ UNCHANGED <<queue, granted>>

\* Time passes the lease of j: in the row, and in the copy of it a cancel is
\* about to save unchanged (an extension never moves a lease back).
LeaseRunsOut(j) ==
  /\ queue[j].lease = "live"
  /\ queue' = [queue EXCEPT ![j].lease = "expired"]
  /\ at' = [t \in Thread |->
              IF at[t].op = "cancel" /\ at[t].job = j /\ at[t].doc.lease = "live"
              THEN [at[t] EXCEPT !.doc.lease = "expired"] ELSE at[t]]
  /\ UNCHANGED granted

\* Time passes a runAt.
BecomesDue(j) ==
  /\ queue[j].status = "pending" /\ queue[j].runAt = "later"
  /\ queue' = [queue EXCEPT ![j].runAt = "due"]
  /\ UNCHANGED <<at, granted>>
-----------------------------------------------------------------------------
Request(t, j) ==
  \/ \E when \in {"due", "later"} : BeginEnqueue(t, j, when)
  \/ \E force \in BOOLEAN : BeginCancel(t, j, force)
  \/ BeginRetry(t, j)

Report(t, j, w) ==
  \/ BeginHeartbeat(t, j, w)
  \/ BeginComplete(t, j, w)
  \/ BeginFail(t, j, w)

ClaimStep(t) ==
  \/ ReapExhausted(t) \/ Look(t)
  \/ \E j \in Job : ClaimOwn(t, j) \/ ClaimForeign(t, j)
  \/ EndClaimLoop(t)
  \/ \E h \in (IF at[t].op = "claim" THEN at[t].back ELSE {}) : Release(t, h)
  \/ ReturnClaim(t)

\* Every step but a death.
Working ==
  \/ \E t \in Thread, j \in Job : Request(t, j)
  \/ \E t \in Thread, j \in Job, w \in Worker : Report(t, j, w)
  \/ \E t \in Thread, w \in Worker, limit \in 1 .. MaxClaimLimit : BeginClaim(t, w, limit)
  \/ \E t \in Thread : ClaimStep(t) \/ Save(t)
  \/ \E j \in Job : LeaseRunsOut(j) \/ BecomesDue(j)

Next == Working \/ \E t \in Thread : Die(t)

Spec == Init /\ [][Next]_vars

(***************************************************************************)
(* Fairness.  Workers poll for ever and the sweeper runs every interval,   *)
(* so every worker keeps claiming; queue_claim_one takes jobs in age       *)
(* order, so a job that is claimable again and again is not passed over    *)
(* for ever; clocks advance, so a lease nobody extends runs out.           *)
(***************************************************************************)
Fairness ==
  /\ \A t \in Thread : WF_vars(ClaimStep(t) \/ Save(t))
  /\ \A w \in Worker : SF_vars(\E t \in Thread : BeginClaim(t, w, 1))
  /\ \A j \in Job : /\ SF_vars(\E t \in Thread : ClaimOwn(t, j))
                    /\ WF_vars(LeaseRunsOut(j))
                    /\ WF_vars(BecomesDue(j))

FairSpec == Spec /\ Fairness

-----------------------------------------------------------------------------
TypeOK ==
  /\ queue \in [Job -> JobDoc]
  /\ at \in [Thread -> {Idle} \cup Claiming \cup Saving]
  /\ granted \in [Job -> Nat]

\* The stored rows keep their fields consistent, whatever interleaves: the
\* attempt budget is never exceeded, a job is running exactly while somebody
\* holds a lease on it, it is dead-lettered exactly when it failed with its
\* budget spent, and an outcome agrees with the cancellation flag
\* (queue.py 14-23, 315-342; store queue_reap, queue_claim_one).
DocsConsistent == \A j \in Job : Consistent(j, queue[j])

\* What makes that inductive: the copies threads are about to save are
\* consistent too.
CopiesConsistent ==
  \A t \in Thread :
    /\ at[t] \in Saving => Consistent(at[t].job, at[t].doc)
    /\ at[t] \in Claiming =>
         \A h \in at[t].back : Consistent(h.job, h.doc) /\ h.doc.status = "running"

\* The step in which thread t saves what it read for an operation in ops on j.
Saves(t, ops, j) == at[t].op \in ops /\ at[t].job = j /\ at'[t] = Idle /\ queue' # queue

\* "All state transitions verify the reporting worker still holds the job ...
\* instead of silently clobbering another worker's run" (queue.py 25-27): when
\* a heartbeat, complete or fail is written, its worker holds the row.
OnlyHolderReports ==
  [][\A t \in Thread, j \in Job :
       Saves(t, Reports, j) => HeldBy(queue[j], at[t].worker)]_vars

\* A live lease is exclusive: its job leaves the worker only through that
\* worker's own report, a cancellation, or the claim that took it handing it
\* back (queue.py 14-23, 250-259).
LeaseIsExclusive ==
  [][\A j \in Job :
       (queue[j].lease = "live" /\ ~HeldBy(queue'[j], queue[j].worker)) =>
         \E t \in Thread :
           \/ Saves(t, {"cancel"}, j)
           \/ Saves(t, {"complete", "fail"}, j) /\ at[t].worker = queue[j].worker
           \/ /\ at[t].op = "claim"
              /\ \E h \in at[t].back : h.job = j /\ h \notin at'[t].back]_vars

\* A requested cancellation is not forgotten before an explicit retry: the
\* worker sees it on heartbeat and its final report lands as cancelled
\* (queue.py 20-23).
CancelSticks ==
  [][\A j \in Job : (queue[j].cancel /\ ~queue'[j].cancel) =>
       \E t \in Thread : Saves(t, {"retry"}, j)]_vars

\* Per-key concurrency caps: whatever snapshot the claim chose in, a job starts
\* only while fewer jobs of its key run than it allows (queue.py 163-165,
\* queue_claim_one).
CapsHold ==
  [][\A j \in Job :
       (queue[j].status # "running" /\ queue'[j].status = "running" /\ KeyOf[j] # NoKey) =>
         LimitOf[j] = 0 \/ Busy(j, Running) < LimitOf[j]]_vars

\* "Refusing a job you are not allowed to run must not consume its retry
\* budget" (queue.py 252-254): a job is dead-lettered only after it really
\* was handed out maxAttempts times.
\* It does not hold: see "Disagreements" in README.md.
RefusalIsFree == \A j \in Job : queue[j].dead => granted[j] = MaxAttempts[j]

\* The step in which thread t dies with its operation half done (a claim that has
\* nothing to hand back and a cancel that changes nothing lose nothing by it).
Dies(t) ==
  /\ at[t] # Idle /\ at'[t] = Idle /\ queue' = queue /\ ~ReturnClaim(t)
  /\ at[t].op = "cancel" => at[t].doc # queue[at[t].job]

\* The exact account behind it: attempts count the grants and the refusals about
\* to be rolled back.  The two drift apart only when a process dies with refusals
\* in hand, and agree again when the budget is reset.
Refusing(j) == {t \in Thread : at[t].op = "claim" /\ \E h \in at[t].back : h.job = j}
Accounted(j) == granted[j] + Cardinality(Refusing(j))
AttemptsAreGrants ==
  [][\A j \in Job :
       \/ queue'[j].attempts - Accounted(j)' = queue[j].attempts - Accounted(j)
       \/ queue'[j].attempts = 0 /\ Accounted(j)' = 0
       \/ \E t \in Refusing(j) : Dies(t)]_vars

\* Retrying past a release restores correctness (queue.py 191-194): a claim
\* that was not cut short by MAX_CLAIM_LIMIT comes back empty only if its worker
\* could not run anything.  The jobs it holds to hand them back do count against
\* the caps: with a cap of one a foreign job hides an own one behind it.
Seen(t) == IF In(t, "pick") THEN at[t].seen
                            ELSE [waiting |-> {j \in Job : Due(j)}, running |-> Running]
Runnable(t, j) ==
  /\ j \in Wants[at[t].worker] \cap Seen(t).waiting /\ MayRun(at[t].worker, j) /\ Due(j)
  /\ UnderCap(j, Seen(t).running)
ClaimFindsOwn ==
  [][\A t \in Thread :
       (/\ (In(t, "look") \/ In(t, "pick")) /\ at'[t].op = "claim" /\ at'[t].phase = "release"
        /\ at[t].got = {} /\ Cardinality(at[t].back) < MaxClaimLimit)
       => \A j \in Job : ~Runnable(t, j)]_vars

\* Every accepted job is settled in the end: an executor that dies or goes
\* silent loses its lease, and the job is retried or dead-lettered.  Only a
\* holder that heartbeats for ever, or a caller that retries for ever, can
\* keep jobs open, or processes that never stop dying (queue.py 14-23, rwap.md
\* crash reclaim).
Starts(t, op) == at'[t].op = op /\ at[t].op # op
EventuallyQuiet ==
  <>[][\A t \in Thread :
         ~Starts(t, "heartbeat") /\ ~Starts(t, "retry") /\ ~Dies(t)]_vars
EveryJobSettles ==
  EventuallyQuiet =>
    \A j \in Job :
      queue[j].status \in {"pending", "running"} ~> queue[j].status \in Terminal
-----------------------------------------------------------------------------
(***************************************************************************)
(* Refinement.  With serial handlers the rows keep the promise: a job that *)
(* a claim is about to hand back is, for everybody outside, still waiting, *)
(* and the attempt it was charged has not been spent.                      *)
(***************************************************************************)
Phase(d) == CASE d.status = "pending" -> "waiting"
              [] d.status = "running" -> "held"
              [] OTHER -> d.status

EntryOf(j) ==
  IF Refusing(j) = {}
  THEN [phase |-> Phase(queue[j]), tries |-> queue[j].attempts,
        holder |-> queue[j].worker, stopping |-> queue[j].cancel]
  ELSE [phase |-> "waiting", tries |-> queue[j].attempts - 1,
        holder |-> NoWorker, stopping |-> queue[j].cancel]

Ledger == [j \in Job |-> EntryOf(j)]

Promise == INSTANCE QueuePromise WITH
             ledger <- Ledger,
             Allowed <- {p \in Worker \X Job : MayRun(p[1], p[2])}

\* The queue implements its promise: an accepted id is never enqueued over, a terminal
\* job is settled until somebody retries it, refusals are invisible (queue.py 14-27,
\* 60-61, 252-254, 370-382).
KeepsPromise == Promise!Spec
=============================================================================
