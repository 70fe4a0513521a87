------------------------- MODULE DurableQueueProofs -------------------------
(***************************************************************************)
(* Proofs about DurableQueue for every set of threads, jobs and workers,   *)
(* every budget and every assignment of keys, versions and agents.         *)
(*                                                                         *)
(* The argument: every write is either one of the store's own statements   *)
(* applied to the current row, or the save of a copy; each operation maps  *)
(* a consistent document to a consistent one (the lemmas of the first      *)
(* part); so if the rows and all copies in flight are consistent, they     *)
(* stay so.  That is why the copies are part of the inductive invariant.   *)
(*                                                                         *)
(* With one thread nobody writes between a read and the save it leads to,  *)
(* so a handler still saves what the row says (SavesWhatItRead) and a claim*)
(* still holds what it has refused (HoldsWhatItRefused).  From that the    *)
(* caps follow, and every step is a step of QueuePromise or a stutter: the *)
(* last part shows which, one case for each action.                        *)
(*                                                                         *)
(* A claim among any number of threads gives up only when nothing is left  *)
(* that it may take: if something were, some key of it would be the least  *)
(* busy, as finite sets of numbers have a least one.                       *)
(***************************************************************************)
EXTENDS DurableQueue, FiniteSetTheorems, WellFoundedInduction, TLAPS

DocOK(j, d) == d \in JobDoc /\ Consistent(j, d)

-----------------------------------------------------------------------------
(* One document.                                                           *)

\* A row that does not exist is consistent.
LEMMA AbsentOK == ASSUME NEW j \in Job PROVE DocOK(j, AbsentDoc)
<1>1. AbsentDoc \in JobDoc
  BY DEF AbsentDoc, Blank, JobDoc, Status
<1>2. Consistent(j, AbsentDoc)
  BY MaxAttemptsAssumption
     DEF AbsentDoc, Blank, Consistent, BudgetKept, HolderMatchesStatus, OutcomeMatchesFlags
<1> QED BY <1>1, <1>2 DEF DocOK

\* What enqueue() and retry() write is consistent.
LEMMA EnqueuedOK ==
  ASSUME NEW j \in Job, NEW when \in {"due", "later"}
  PROVE  DocOK(j, Enqueued(when))
<1>1. Enqueued(when) \in JobDoc
  BY DEF Enqueued, Blank, JobDoc, Status
<1>2. Consistent(j, Enqueued(when))
  BY MaxAttemptsAssumption
     DEF Enqueued, Blank, Consistent, BudgetKept, HolderMatchesStatus, OutcomeMatchesFlags
<1> QED BY <1>1, <1>2 DEF DocOK

\* The reaper requeues a running job that has attempts left, and dead-letters
\* one that has none.
LEMMA ReapedOK ==
  ASSUME NEW j \in Job, NEW d, DocOK(j, d), d.status = "running"
  PROVE  /\ ~Exhausted(j, d) => DocOK(j, Requeued(d))
         /\ Exhausted(j, d) => DocOK(j, DeadLettered(d))
<1>1. Requeued(d) \in JobDoc /\ DeadLettered(d) \in JobDoc
  BY DEF DocOK, Requeued, DeadLettered, JobDoc, Status
<1>2. /\ ~Exhausted(j, d) => BudgetKept(j, Requeued(d))
      /\ Exhausted(j, d) => BudgetKept(j, DeadLettered(d))
  BY MaxAttemptsAssumption
     DEF DocOK, Requeued, DeadLettered, Exhausted, JobDoc, Consistent, BudgetKept
<1>3. HolderMatchesStatus(Requeued(d)) /\ HolderMatchesStatus(DeadLettered(d))
  BY DEF DocOK, Requeued, DeadLettered, JobDoc, Consistent, HolderMatchesStatus
<1>4. OutcomeMatchesFlags(Requeued(d)) /\ OutcomeMatchesFlags(DeadLettered(d))
  BY DEF DocOK, Requeued, DeadLettered, JobDoc, Consistent, OutcomeMatchesFlags
<1> QED BY <1>1, <1>2, <1>3, <1>4 DEF DocOK, Consistent

\* queue_claim_one turns a consistent pending row into a consistent running one.
LEMMA ClaimedOK ==
  ASSUME NEW j \in Job, NEW w \in Worker, NEW d, DocOK(j, d), d.status = "pending"
  PROVE  DocOK(j, Claimed(d, w)) /\ Claimed(d, w).status = "running"
<1>1. Claimed(d, w).status = "running"
  BY DEF DocOK, Claimed, JobDoc
<1>2. Claimed(d, w) \in JobDoc
  <2>1. d \in JobDoc /\ d.attempts + 1 \in Nat BY DEF DocOK, JobDoc
  <2> QED BY <2>1 DEF Claimed, JobDoc, Status
<1>3. BudgetKept(j, Claimed(d, w))
  BY MaxAttemptsAssumption DEF DocOK, Claimed, JobDoc, Consistent, BudgetKept
<1>4. HolderMatchesStatus(Claimed(d, w))
  BY NoWorkerAssumption DEF DocOK, Claimed, JobDoc, Consistent, HolderMatchesStatus
<1>5. OutcomeMatchesFlags(Claimed(d, w))
  BY DEF DocOK, Claimed, JobDoc, Consistent, OutcomeMatchesFlags
<1> QED BY <1>1, <1>2, <1>3, <1>4, <1>5 DEF DocOK, Consistent

\* Rolling back a refused claim leaves at least one attempt to spend.
LEMMA ReleasedOK ==
  ASSUME NEW j \in Job, NEW d, DocOK(j, d), d.status = "running"
  PROVE  DocOK(j, Released(d))
<1>1. d \in JobDoc /\ d.attempts > 0 /\ d.attempts - 1 \in Nat
  BY DEF DocOK, JobDoc, Consistent, HolderMatchesStatus
<1>2. Released(d) \in JobDoc
  BY <1>1 DEF Released, JobDoc, Status
<1>3. BudgetKept(j, Released(d))
  BY <1>1, MaxAttemptsAssumption DEF DocOK, Released, JobDoc, Consistent, BudgetKept
<1>4. HolderMatchesStatus(Released(d))
  BY <1>1 DEF DocOK, Released, JobDoc, Consistent, HolderMatchesStatus
<1>5. OutcomeMatchesFlags(Released(d))
  BY DEF DocOK, Released, JobDoc, Consistent, OutcomeMatchesFlags
<1> QED BY <1>2, <1>3, <1>4, <1>5 DEF DocOK, Consistent

\* What heartbeat() and complete() are about to save is consistent.
LEMMA ReportOK ==
  ASSUME NEW j \in Job, NEW d, DocOK(j, d), d.status = "running"
  PROVE  DocOK(j, Heartbeaten(d)) /\ DocOK(j, Completed(d))
<1>1. DocOK(j, Heartbeaten(d))
  BY DEF DocOK, Heartbeaten, JobDoc, Status, Consistent, BudgetKept, HolderMatchesStatus,
         OutcomeMatchesFlags
<1>2. DocOK(j, Completed(d))
  BY DEF DocOK, Completed, JobDoc, Status, Consistent, BudgetKept, HolderMatchesStatus,
         OutcomeMatchesFlags
<1> QED BY <1>1, <1>2

\* fail(): cancelled, dead-lettered or back in the queue, the row is consistent.
LEMMA FailedOK ==
  ASSUME NEW j \in Job, NEW d, DocOK(j, d), d.status = "running"
  PROVE  DocOK(j, Failed(j, d))
<1>1. Failed(j, d) \in JobDoc
  BY DEF DocOK, Failed, JobDoc, Status
<1>2. BudgetKept(j, Failed(j, d))
  BY MaxAttemptsAssumption DEF DocOK, Failed, Exhausted, JobDoc, Consistent, BudgetKept
<1>3. HolderMatchesStatus(Failed(j, d))
  BY DEF DocOK, Failed, JobDoc, Consistent, HolderMatchesStatus
<1>4. OutcomeMatchesFlags(Failed(j, d))
  BY DEF DocOK, Failed, JobDoc, Consistent, OutcomeMatchesFlags
<1> QED BY <1>1, <1>2, <1>3, <1>4 DEF DocOK, Consistent

\* cancel(), graceful or forced, keeps every document consistent.
LEMMA CancelledOK ==
  ASSUME NEW j \in Job, NEW d, DocOK(j, d), NEW force \in BOOLEAN
  PROVE  DocOK(j, Cancelled(d, force))
<1>1. CASE d.status = "pending"
  BY <1>1 DEF DocOK, Cancelled, JobDoc, Status, Consistent, BudgetKept, HolderMatchesStatus,
              OutcomeMatchesFlags
<1>2. CASE d.status = "running"
  BY <1>2 DEF DocOK, Cancelled, JobDoc, Status, Consistent, BudgetKept, HolderMatchesStatus,
              OutcomeMatchesFlags
<1>3. CASE d.status \notin {"pending", "running"}
  BY <1>3 DEF Cancelled
<1> QED BY <1>1, <1>2, <1>3

\* A lease that ran out is still a lease.
LEMMA ExpiredOK ==
  ASSUME NEW j \in Job, NEW d, DocOK(j, d), d.lease = "live"
  PROVE  DocOK(j, [d EXCEPT !.lease = "expired"])
BY DEF DocOK, JobDoc, Status, Consistent, BudgetKept, HolderMatchesStatus,
       OutcomeMatchesFlags

\* A backed-off job that has become due is the same job.
LEMMA DueOK ==
  ASSUME NEW j \in Job, NEW d, DocOK(j, d)
  PROVE  DocOK(j, [d EXCEPT !.runAt = "due"])
BY DEF DocOK, JobDoc, Status, Consistent, BudgetKept, HolderMatchesStatus,
       OutcomeMatchesFlags
-----------------------------------------------------------------------------
(* The state.                                                              *)

CopyOK(c) ==
  /\ c \in {Idle} \cup Claiming \cup Saving
  /\ c \in Saving => Consistent(c.job, c.doc)
  /\ c \in Claiming =>
       \A h \in c.back : Consistent(h.job, h.doc) /\ h.doc.status = "running"

\* The inductive invariant: rows and copies are well typed and consistent.
IInv ==
  /\ queue = [j \in Job |-> queue[j]] /\ \A j \in Job : DocOK(j, queue[j])
  /\ at = [t \in Thread |-> at[t]] /\ \A t \in Thread : CopyOK(at[t])
  /\ granted \in [Job -> Nat]

LEMMA IInvIsInv == IInv <=> TypeOK /\ DocsConsistent /\ CopiesConsistent
<1>1. queue \in [Job -> JobDoc] <=>
        queue = [j \in Job |-> queue[j]] /\ \A j \in Job : queue[j] \in JobDoc
  OBVIOUS
<1>2. at \in [Thread -> {Idle} \cup Claiming \cup Saving] <=>
        /\ at = [t \in Thread |-> at[t]]
        /\ \A t \in Thread : at[t] \in {Idle} \cup Claiming \cup Saving
  OBVIOUS
<1> QED BY <1>1, <1>2 DEF IInv, TypeOK, DocsConsistent, CopiesConsistent, DocOK, CopyOK

\* The three kinds of thread state are told apart by op.
LEMMA OpOf ==
  ASSUME NEW c, CopyOK(c)
  PROVE  /\ c.op = "claim" => c \in Claiming /\ c.worker \in Worker
                              /\ \A h \in c.back : DocOK(h.job, h.doc) /\ h.job \in Job
                                                   /\ h.doc.status = "running"
         /\ c.op \in Reports \cup {"enqueue", "cancel", "retry"} =>
              c \in Saving /\ c.job \in Job /\ DocOK(c.job, c.doc)
BY DEF CopyOK, Idle, Claiming, Saving, Reports, Held, DocOK

\* What a handler reads and is about to save is a good copy.
LEMMA CopySaving ==
  ASSUME NEW o \in Reports \cup {"enqueue", "cancel", "retry"}, NEW j \in Job,
         NEW w \in Worker \cup {NoWorker}, NEW d, DocOK(j, d)
  PROVE  CopyOK([op |-> o, job |-> j, doc |-> d, worker |-> w])
BY DEF CopyOK, Saving, Claiming, DocOK, Reports

LEMMA ReadKeepsIInv ==
  ASSUME IInv, NEW t \in Thread, NEW o \in Reports \cup {"enqueue", "cancel", "retry"},
         NEW j \in Job, NEW w \in Worker \cup {NoWorker}, NEW d, DocOK(j, d),
         Read(t, o, j, w, d)
  PROVE  IInv'
BY CopySaving DEF IInv, Read

\* A step that writes one good document and gives one thread a good state.
LEMMA WriteKeepsIInv ==
  ASSUME IInv, NEW t \in Thread, NEW j \in Job, NEW d, DocOK(j, d), NEW c, CopyOK(c),
         queue' = [queue EXCEPT ![j] = d], at' = [at EXCEPT ![t] = c],
         granted' \in [Job -> Nat]
  PROVE  IInv'
BY DEF IInv
-----------------------------------------------------------------------------
(* The steps.                                                              *)

\* queue_get and the decision to save: requests.
LEMMA RequestKeepsIInv ==
  ASSUME IInv, NEW t \in Thread, NEW j \in Job, Request(t, j)
  PROVE  IInv'
<1> DocOK(j, queue[j]) BY DEF IInv
<1>1. ASSUME NEW when \in {"due", "later"}, BeginEnqueue(t, j, when) PROVE IInv'
  BY <1>1, EnqueuedOK, ReadKeepsIInv DEF BeginEnqueue
<1>2. ASSUME NEW force \in BOOLEAN, BeginCancel(t, j, force) PROVE IInv'
  <2>1. DocOK(j, Cancelled(queue[j], force)) BY CancelledOK
  <2> QED BY <1>2, <2>1, ReadKeepsIInv DEF BeginCancel
<1>3. ASSUME BeginRetry(t, j) PROVE IInv'
  <2>1. DocOK(j, Retried(queue[j])) BY EnqueuedOK DEF Retried
  <2> QED BY <1>3, <2>1, ReadKeepsIInv DEF BeginRetry
<1> QED BY <1>1, <1>2, <1>3 DEF Request

\* queue_get and the holder check: reports.
LEMMA ReportKeepsIInv ==
  ASSUME IInv, NEW t \in Thread, NEW j \in Job, NEW w \in Worker, Report(t, j, w)
  PROVE  IInv'
<1>1. DocOK(j, queue[j]) /\ queue[j].status = "running"
  BY DEF IInv, Report, BeginHeartbeat, BeginComplete, BeginFail, HeldBy
<1>2. /\ DocOK(j, Heartbeaten(queue[j])) /\ DocOK(j, Completed(queue[j]))
      /\ DocOK(j, Failed(j, queue[j]))
  BY <1>1, ReportOK, FailedOK
<1>3. CASE BeginHeartbeat(t, j, w)
  BY <1>2, <1>3, ReadKeepsIInv DEF BeginHeartbeat, Reports
<1>4. CASE BeginComplete(t, j, w)
  BY <1>2, <1>4, ReadKeepsIInv DEF BeginComplete, Reports
<1>5. CASE BeginFail(t, j, w)
  BY <1>2, <1>5, ReadKeepsIInv DEF BeginFail, Reports
<1> QED BY <1>3, <1>4, <1>5 DEF Report

LEMMA IdleOK == CopyOK(Idle)
BY DEF CopyOK, Idle, Claiming, Saving

LEMMA SaveKeepsIInv ==
  ASSUME IInv, NEW t \in Thread, Save(t)
  PROVE  IInv'
<1>1. at[t].job \in Job /\ DocOK(at[t].job, at[t].doc)
  BY OpOf DEF IInv, Save
<1>2. granted' \in [Job -> Nat]
  BY <1>1 DEF IInv, Save
<1> QED BY <1>1, <1>2, IdleOK, WriteKeepsIInv DEF Save

\* The two reaping statements touch many rows at once.
LEMMA BeginClaimKeepsIInv ==
  ASSUME IInv, NEW t \in Thread, NEW w \in Worker, NEW limit \in 1 .. MaxClaimLimit,
         BeginClaim(t, w, limit)
  PROVE  IInv'
<1>1. \A j \in Job : DocOK(j, queue'[j])
  <2> TAKE j \in Job
  <2>1. DocOK(j, queue[j]) BY DEF IInv
  <2>2. CASE ExpiredLease(queue[j]) /\ ~Exhausted(j, queue[j])
    BY <2>1, <2>2, ReapedOK DEF BeginClaim, ExpiredLease
  <2>3. CASE ~(ExpiredLease(queue[j]) /\ ~Exhausted(j, queue[j]))
    BY <2>1, <2>3 DEF BeginClaim
  <2> QED BY <2>2, <2>3
<1>2. limit \in Nat
  BY TagAssumption
<1>3. CopyOK([op |-> "claim", phase |-> "reap", worker |-> w, wanted |-> limit,
              got |-> {}, back |-> {}, seen |-> NothingSeen])
  BY <1>2 DEF CopyOK, Claiming, Saving, Reports, Held, Snapshot, NothingSeen
<1> QED BY <1>1, <1>3 DEF IInv, BeginClaim

LEMMA ReapExhaustedKeepsIInv ==
  ASSUME IInv, NEW t \in Thread, ReapExhausted(t)
  PROVE  IInv'
<1>1. \A j \in Job : DocOK(j, queue'[j])
  <2> TAKE j \in Job
  <2>1. DocOK(j, queue[j]) BY DEF IInv
  <2>2. CASE ExpiredLease(queue[j]) /\ Exhausted(j, queue[j])
    BY <2>1, <2>2, ReapedOK DEF ReapExhausted, ExpiredLease
  <2>3. CASE ~(ExpiredLease(queue[j]) /\ Exhausted(j, queue[j]))
    BY <2>1, <2>3 DEF ReapExhausted
  <2> QED BY <2>2, <2>3
<1>2. at[t] \in Claiming /\ CopyOK(at[t])
  BY OpOf DEF IInv, ReapExhausted, In
<1>3. CopyOK([at[t] EXCEPT !.phase = "look"])
  BY <1>2 DEF CopyOK, Claiming, Saving, Reports
<1> QED BY <1>1, <1>3 DEF IInv, ReapExhausted

\* A snapshot is only two sets of jobs.
LEMMA LookKeepsIInv ==
  ASSUME IInv, NEW t \in Thread, Look(t)
  PROVE  IInv'
<1> DEFINE snap == [waiting |-> {j \in Job : Due(j)}, running |-> Running]
<1>1. at[t] \in Claiming /\ CopyOK(at[t])
  BY OpOf DEF IInv, Look, In
<1>2. snap \in Snapshot
  BY DEF Snapshot, Running
<1>3. at' = [at EXCEPT ![t] = [at[t] EXCEPT !.phase = "pick", !.seen = snap]]
  BY DEF Look, IInv
<1> HIDE DEF snap
<1>4. CopyOK([at[t] EXCEPT !.phase = "pick", !.seen = snap])
  BY <1>1, <1>2 DEF CopyOK, Claiming, Saving, Reports
<1> QED BY <1>3, <1>4 DEF IInv, Look

\* The row a claimer is handed was pending.
LEMMA ClaimOwnKeepsIInv ==
  ASSUME IInv, NEW t \in Thread, NEW j \in Job, ClaimOwn(t, j)
  PROVE  IInv'
<1>1. at[t] \in Claiming /\ at[t].worker \in Worker /\ CopyOK(at[t])
  BY OpOf DEF IInv, ClaimOwn, In
<1>2. DocOK(j, queue[j]) /\ queue[j].status = "pending"
  BY DEF IInv, ClaimOwn, NextFor, Claimable, Due
<1>3. DocOK(j, Claimed(queue[j], at[t].worker))
  BY <1>1, <1>2, ClaimedOK
<1>4. CopyOK([at[t] EXCEPT !.phase = "look", !.seen = NothingSeen, !.got = @ \cup {j}])
  BY <1>1 DEF CopyOK, Claiming, Saving, Reports, Snapshot, NothingSeen
<1>5. granted' \in [Job -> Nat]
  BY DEF IInv, ClaimOwn
<1>6. /\ queue' = [queue EXCEPT ![j] = Claimed(queue[j], at[t].worker)]
      /\ at' = [at EXCEPT ![t] = [at[t] EXCEPT !.phase = "look", !.seen = NothingSeen,
                                               !.got = @ \cup {j}]]
  BY DEF IInv, ClaimOwn
<1> QED BY <1>3, <1>4, <1>5, <1>6, WriteKeepsIInv

LEMMA ClaimForeignKeepsIInv ==
  ASSUME IInv, NEW t \in Thread, NEW j \in Job, ClaimForeign(t, j)
  PROVE  IInv'
<1> DEFINE d == Claimed(queue[j], at[t].worker)
           h == [job |-> j, doc |-> d]
<1>1. at[t] \in Claiming /\ at[t].worker \in Worker /\ CopyOK(at[t])
  BY OpOf DEF IInv, ClaimForeign, In
<1>2. DocOK(j, queue[j]) /\ queue[j].status = "pending"
  BY DEF IInv, ClaimForeign, NextFor, Claimable, Due
<1>3. DocOK(j, d) /\ d.status = "running"
  BY <1>1, <1>2, ClaimedOK
<1>4. /\ queue' = [queue EXCEPT ![j] = d]
      /\ at' = [at EXCEPT ![t] = [at[t] EXCEPT !.phase = "look", !.seen = NothingSeen,
                                               !.back = @ \cup {h}]]
  BY DEF IInv, ClaimForeign
<1> HIDE DEF d
<1>5. h \in Held /\ Consistent(h.job, h.doc) /\ h.doc.status = "running"
  BY <1>3 DEF Held, DocOK
<1>6. CopyOK([at[t] EXCEPT !.phase = "look", !.seen = NothingSeen, !.back = @ \cup {h}])
  BY <1>1, <1>5 DEF CopyOK, Claiming, Saving, Reports, Snapshot, NothingSeen
<1>7. granted' \in [Job -> Nat]
  BY DEF IInv, ClaimForeign
<1> QED BY <1>3, <1>4, <1>6, <1>7, WriteKeepsIInv

\* A released job is written from the copy taken when it was claimed.
LEMMA ReleaseKeepsIInv ==
  ASSUME IInv, NEW t \in Thread, NEW h, Release(t, h)
  PROVE  IInv'
<1>1. /\ at[t] \in Claiming /\ CopyOK(at[t]) /\ h.job \in Job
      /\ DocOK(h.job, h.doc) /\ h.doc.status = "running"
  BY OpOf DEF IInv, Release, In
<1>2. DocOK(h.job, Released(h.doc))
  BY <1>1, ReleasedOK
<1>3. CopyOK([at[t] EXCEPT !.back = @ \ {h}])
  BY <1>1 DEF CopyOK, Claiming, Saving, Reports
<1>4. /\ queue' = [queue EXCEPT ![h.job] = Released(h.doc)]
      /\ at' = [at EXCEPT ![t] = [at[t] EXCEPT !.back = @ \ {h}]]
      /\ granted' \in [Job -> Nat]
  BY DEF IInv, Release
<1> QED BY <1>1, <1>2, <1>3, <1>4, WriteKeepsIInv

\* Ending the loop, returning, or dying changes only the thread.
LEMMA ThreadOnlyKeepsIInv ==
  ASSUME IInv, NEW t \in Thread, EndClaimLoop(t) \/ ReturnClaim(t) \/ Die(t)
  PROVE  IInv'
<1>1. CASE EndClaimLoop(t)
  <2>1. at[t] \in Claiming /\ CopyOK(at[t])
    BY <1>1, OpOf DEF IInv, EndClaimLoop, In
  <2>2. CopyOK([at[t] EXCEPT !.phase = "release", !.seen = NothingSeen])
    BY <2>1 DEF CopyOK, Claiming, Saving, Reports, Snapshot, NothingSeen
  <2> QED BY <1>1, <2>2 DEF IInv, EndClaimLoop
<1>2. CASE ReturnClaim(t) \/ Die(t)
  BY <1>2, IdleOK DEF IInv, ReturnClaim, Die
<1> QED BY <1>1, <1>2

\* The passage of time keeps rows, and the copies it reaches, consistent.
LEMMA TimeKeepsIInv ==
  ASSUME IInv, NEW j \in Job, LeaseRunsOut(j) \/ BecomesDue(j)
  PROVE  IInv'
<1>1. DocOK(j, queue[j])
  BY DEF IInv
<1>2. CASE LeaseRunsOut(j)
  <2>1. DocOK(j, [queue[j] EXCEPT !.lease = "expired"])
    BY <1>1, <1>2, ExpiredOK DEF LeaseRunsOut
  <2>2. \A k \in Job : DocOK(k, queue'[k])
    BY <1>2, <2>1 DEF IInv, LeaseRunsOut
  <2>3. ASSUME NEW t \in Thread PROVE CopyOK(at'[t])
    <3>1. CASE at[t].op = "cancel" /\ at[t].job = j /\ at[t].doc.lease = "live"
      <4>1. at[t] \in Saving /\ DocOK(j, at[t].doc)
        BY <3>1, OpOf DEF IInv
      <4>2. DocOK(j, [at[t].doc EXCEPT !.lease = "expired"])
        BY <3>1, <4>1, ExpiredOK
      <4>3. at'[t] = [op |-> at[t].op, job |-> j, worker |-> at[t].worker,
                      doc |-> [at[t].doc EXCEPT !.lease = "expired"]]
        BY <1>2, <3>1, <4>1 DEF LeaseRunsOut, Saving
      <4>4. at[t].worker \in Worker \cup {NoWorker}
        BY <4>1 DEF Saving
      <4> QED BY <3>1, <4>2, <4>3, <4>4, CopySaving
    <3>2. CASE ~(at[t].op = "cancel" /\ at[t].job = j /\ at[t].doc.lease = "live")
      BY <1>2, <3>2 DEF IInv, LeaseRunsOut
    <3> QED BY <3>1, <3>2
  <2> QED BY <1>2, <2>2, <2>3 DEF IInv, LeaseRunsOut
<1>3. CASE BecomesDue(j)
  <2>1. DocOK(j, [queue[j] EXCEPT !.runAt = "due"])
    BY <1>1, DueOK
  <2> QED BY <1>3, <2>1 DEF IInv, BecomesDue
<1> QED BY <1>2, <1>3

LEMMA InitIInv == Init => IInv
BY AbsentOK, IdleOK DEF Init, IInv

LEMMA NextIInv == IInv /\ [Next]_vars => IInv'
<1> SUFFICES ASSUME IInv, [Next]_vars PROVE IInv'
  OBVIOUS
<1>1. ASSUME NEW t \in Thread, NEW j \in Job, Request(t, j) PROVE IInv'
  BY <1>1, RequestKeepsIInv
<1>2. ASSUME NEW t \in Thread, NEW j \in Job, NEW w \in Worker, Report(t, j, w) PROVE IInv'
  BY <1>2, ReportKeepsIInv
<1>3. ASSUME NEW t \in Thread, NEW w \in Worker, NEW limit \in 1 .. MaxClaimLimit,
             BeginClaim(t, w, limit)
      PROVE  IInv'
  BY <1>3, BeginClaimKeepsIInv
<1>4. ASSUME NEW t \in Thread, ClaimStep(t) PROVE IInv'
  BY <1>4, ReapExhaustedKeepsIInv, LookKeepsIInv, ClaimOwnKeepsIInv, ClaimForeignKeepsIInv,
     ReleaseKeepsIInv, ThreadOnlyKeepsIInv
     DEF ClaimStep
<1>5. ASSUME NEW t \in Thread, Save(t) PROVE IInv'
  BY <1>5, SaveKeepsIInv
<1>6. ASSUME NEW t \in Thread, Die(t) PROVE IInv'
  BY <1>6, ThreadOnlyKeepsIInv
<1>7. ASSUME NEW j \in Job, LeaseRunsOut(j) \/ BecomesDue(j) PROVE IInv'
  BY <1>7, TimeKeepsIInv
<1>8. CASE UNCHANGED vars
  BY <1>8 DEF IInv, vars
<1> QED BY <1>1, <1>2, <1>3, <1>4, <1>5, <1>6, <1>7, <1>8 DEF Next, Working

\* Every behaviour of the queue, with any number of threads interleaving at
\* the granularity of the store's statements, keeps the state well typed.
THEOREM QueueTypeCorrect == Spec => []TypeOK
BY InitIInv, NextIInv, IInvIsInv, PTL DEF Spec

\* Whatever interleaves, the rows stay consistent: budgets are never exceeded,
\* running and leased coincide, dead-lettered means failed with the budget
\* spent, and outcomes agree with the cancellation flag.
THEOREM RowsStayConsistent == Spec => []DocsConsistent
BY InitIInv, NextIInv, IInvIsInv, PTL DEF Spec

\* No thread ever holds a document, read at whatever time before and about to be saved
\* whole, that is not consistent in itself (queue.py heartbeat, complete, fail, cancel,
\* claim, which save what they read).
THEOREM CopiesStayConsistent == Spec => []CopiesConsistent
BY InitIInv, NextIInv, IInvIsInv, PTL DEF Spec
-----------------------------------------------------------------------------
(* The promise.  With one thread a handler still saves what the row says:  *)
(* nothing but time has passed since it was read, and a claim hands back   *)
(* what it took.                                                           *)

\* What the ledger is made of: time changes none of it.
View(d) == <<d.status, d.attempts, d.worker, d.cancel>>

\* What each operation may be about to save over the row d of job j.
Outcomes(o, j, d) ==
  CASE o = "enqueue"   -> {Enqueued(when) : when \in {"due", "later"}}
    [] o = "retry"     -> {Enqueued("due")}
    [] o = "cancel"    -> {Cancelled(d, force) : force \in BOOLEAN}
    [] o = "heartbeat" -> {d}
    [] o = "complete"  -> {Completed(d)}
    [] o = "fail"      -> {Failed(j, d)}

\* The state in which each operation found its row, and still finds it.
Found(c, d) ==
  /\ c.op = "enqueue" => d.status = "absent"
  /\ c.op = "retry" => d.status \in {"failed", "cancelled"}
  /\ c.op = "cancel" => d.status # "absent"
  /\ c.op \in Reports => HeldBy(d, c.worker)

SavesWhatItRead(c) ==
  c.op \in Reports \cup {"enqueue", "cancel", "retry"} =>
    /\ Found(c, queue[c.job])
    /\ \E d \in Outcomes(c.op, c.job, queue[c.job]) : View(c.doc) = View(d)

HoldsWhatItRefused(c) ==
  c.op = "claim" =>
    /\ \A h \in c.back : /\ ~MayRun(c.worker, h.job) /\ HeldBy(queue[h.job], c.worker)
                         /\ View(h.doc) = View(queue[h.job])
    /\ \A g, h \in c.back : g.job = h.job => g = h
    /\ c.phase = "reap" => c.back = {}
    /\ c.phase = "pick" => c.seen.running = Running

\* The inductive invariant of the serial queue, beside IInv.
SerialInv == \A t \in Thread : SavesWhatItRead(at[t]) /\ HoldsWhatItRefused(at[t])

\* A row that only aged is found as it was, and is saved over as it was.
LEMMA AgedRow ==
  ASSUME NEW j \in Job, NEW d \in JobDoc, NEW e \in JobDoc, View(e) = View(d),
         NEW o \in Reports \cup {"enqueue", "cancel", "retry"}, NEW x \in Outcomes(o, j, d)
  PROVE  \E y \in Outcomes(o, j, e) : View(y) = View(x)
<1>1. e.status = d.status /\ e.attempts = d.attempts /\ e.worker = d.worker
      /\ e.cancel = d.cancel
  BY DEF View
<1>2. CASE o \in {"enqueue", "retry", "heartbeat"}
  BY <1>2 DEF Outcomes, View
<1>3. CASE o = "complete"
  <2>1. View(Completed(e)) = View(Completed(d)) BY <1>1 DEF View, Completed, JobDoc
  <2> QED BY <1>3, <2>1 DEF Outcomes
<1>4. CASE o = "fail"
  <2>1. View(Failed(j, e)) = View(Failed(j, d))
    BY <1>1 DEF View, Failed, Exhausted, JobDoc
  <2> QED BY <1>4, <2>1 DEF Outcomes
<1>5. CASE o = "cancel"
  <2>1. PICK force \in BOOLEAN : x = Cancelled(d, force) BY <1>5 DEF Outcomes
  <2>2. View(Cancelled(e, force)) = View(Cancelled(d, force))
    BY <1>1 DEF View, Cancelled, JobDoc
  <2> QED BY <1>5, <2>1, <2>2 DEF Outcomes
<1> QED BY <1>2, <1>3, <1>4, <1>5 DEF Reports

\* A handler that has just read its row.
LEMMA ReadIsSerial ==
  ASSUME NEW t, Thread = {t}, IInv, NEW j \in Job, NEW d, NEW w \in Worker \cup {NoWorker},
         NEW o \in Reports \cup {"enqueue", "cancel", "retry"}, Read(t, o, j, w, d),
         Found([op |-> o, job |-> j, doc |-> d, worker |-> w], queue[j]),
         d \in Outcomes(o, j, queue[j])
  PROVE  SerialInv'
<1>1. at'[t] = [op |-> o, job |-> j, doc |-> d, worker |-> w] /\ queue' = queue
  BY DEF IInv, Read
<1>2. SavesWhatItRead(at[t])'
  BY <1>1 DEF SavesWhatItRead
<1>3. HoldsWhatItRefused(at[t])'
  BY <1>1 DEF HoldsWhatItRefused, Reports
<1> QED BY <1>2, <1>3 DEF SerialInv

\* A thread that is done has nothing in hand.
LEMMA IdleIsSerial ==
  ASSUME NEW t, Thread = {t}, at'[t] = Idle PROVE SerialInv'
BY DEF SerialInv, SavesWhatItRead, HoldsWhatItRefused, Idle, Reports

\* What a claim has refused stays running for its worker until it is handed back.
LEMMA ClaimIsSerial ==
  ASSUME NEW t, Thread = {t}, IInv, SerialInv, ClaimStep(t)
  PROVE  SerialInv'
<1> DEFINE c == at[t]
<1>1. c \in Claiming /\ c.worker \in Worker
      /\ \A h \in c.back : h.job \in Job /\ DocOK(h.job, h.doc)
  BY OpOf DEF IInv, ClaimStep, ReapExhausted, Look, ClaimOwn, ClaimForeign, EndClaimLoop,
              Release, ReturnClaim, In
<1>2. HoldsWhatItRefused(c) /\ c.op = "claim"
  BY <1>1 DEF SerialInv, Claiming
<1>3. \A j \in Job : DocOK(j, queue[j])
  BY DEF IInv
<1>4. at'[t].op \in {"claim", "idle"}
  <2>1. ASSUME NEW j \in Job, ClaimOwn(t, j) \/ ClaimForeign(t, j) PROVE at'[t].op = "claim"
    BY <1>1, <2>1 DEF ClaimOwn, ClaimForeign, IInv, Claiming
  <2>2. ASSUME NEW h, Release(t, h) PROVE at'[t].op = "claim"
    BY <1>1, <2>2 DEF Release, IInv, Claiming
  <2>3. CASE ReapExhausted(t) \/ Look(t) \/ EndClaimLoop(t)
    BY <1>1, <2>3 DEF ReapExhausted, Look, EndClaimLoop, IInv, Claiming
  <2>4. CASE ReturnClaim(t)
    BY <2>4 DEF ReturnClaim, IInv, Idle
  <2> QED BY <2>1, <2>2, <2>3, <2>4 DEF ClaimStep
<1> SUFFICES HoldsWhatItRefused(at[t])'
  BY <1>4 DEF SerialInv, SavesWhatItRead, Reports
<1>5. CASE ReapExhausted(t)
  BY <1>1, <1>2, <1>5 DEF ReapExhausted, In, HoldsWhatItRefused, IInv, Claiming
<1>6. CASE Look(t)
  <2>1. /\ at'[t] = [c EXCEPT !.phase = "pick",
                              !.seen = [waiting |-> {j \in Job : Due(j)}, running |-> Running]]
        /\ queue' = queue
    BY <1>6 DEF Look, IInv
  <2>2. at'[t].back = c.back /\ at'[t].worker = c.worker /\ at'[t].phase = "pick"
        /\ at'[t].seen.running = Running
    BY <1>1, <2>1 DEF Claiming
  <2>3. Running' = Running BY <2>1 DEF Running
  <2> QED BY <1>2, <2>1, <2>2, <2>3 DEF HoldsWhatItRefused
<1>7. ASSUME NEW j \in Job, ClaimOwn(t, j) PROVE HoldsWhatItRefused(at[t])'
  <2>1. at'[t].back = c.back /\ at'[t].worker = c.worker /\ at'[t].phase = "look"
    BY <1>1, <1>7 DEF ClaimOwn, IInv, Claiming
  <2>2. queue[j].status = "pending" /\ \A k \in Job \ {j} : queue'[k] = queue[k]
    BY <1>7 DEF ClaimOwn, NextFor, Claimable, Due, IInv
  <2>3. \A h \in c.back : h.job \in Job \ {j}
    BY <1>1, <1>2, <2>2 DEF HoldsWhatItRefused, HeldBy
  <2> QED BY <1>2, <2>1, <2>2, <2>3 DEF HoldsWhatItRefused
<1>8. ASSUME NEW j \in Job, ClaimForeign(t, j) PROVE HoldsWhatItRefused(at[t])'
  <2> DEFINE h == [job |-> j, doc |-> Claimed(queue[j], c.worker)]
  <2>1. /\ at'[t].back = c.back \cup {h} /\ at'[t].worker = c.worker
        /\ at'[t].phase = "look" /\ ~MayRun(c.worker, j)
    BY <1>1, <1>8 DEF ClaimForeign, IInv, Claiming
  <2>2. /\ queue[j].status = "pending" /\ \A k \in Job \ {j} : queue'[k] = queue[k]
        /\ queue'[j] = Claimed(queue[j], c.worker)
    BY <1>8 DEF ClaimForeign, NextFor, Claimable, Due, IInv
  <2>3. \A g \in c.back : g.job \in Job \ {j}
    BY <1>1, <1>2, <2>2 DEF HoldsWhatItRefused, HeldBy
  <2>4. HeldBy(Claimed(queue[j], c.worker), c.worker)
    BY <1>3 DEF HeldBy, Claimed, DocOK, JobDoc
  <2>5. h.job = j /\ h.doc = queue'[j] BY <2>2
  <2> HIDE DEF h, c
  <2> QED BY <1>2, <2>1, <2>2, <2>3, <2>4, <2>5 DEF HoldsWhatItRefused
<1>9. CASE EndClaimLoop(t)
  BY <1>1, <1>2, <1>9 DEF EndClaimLoop, HoldsWhatItRefused, IInv, Claiming
<1>10. ASSUME NEW h \in c.back, Release(t, h) PROVE HoldsWhatItRefused(at[t])'
  <2>1. /\ at'[t].back = c.back \ {h} /\ at'[t].worker = c.worker
        /\ at'[t].phase = "release" /\ \A k \in Job \ {h.job} : queue'[k] = queue[k]
    BY <1>1, <1>10 DEF Release, In, IInv, Claiming
  <2>2. \A g \in c.back \ {h} : g.job \in Job \ {h.job}
    BY <1>1, <1>2 DEF HoldsWhatItRefused
  <2> QED BY <1>2, <2>1, <2>2 DEF HoldsWhatItRefused
<1>11. CASE ReturnClaim(t)
  BY <1>11, IdleIsSerial DEF ReturnClaim, IInv, SerialInv
<1> QED BY <1>2, <1>5, <1>6, <1>7, <1>8, <1>9, <1>10, <1>11 DEF ClaimStep

\* Time ages a row and a copy, and nobody reads or writes meanwhile.
LEMMA TimeIsSerial ==
  ASSUME NEW t, Thread = {t}, IInv, SerialInv, NEW j \in Job, LeaseRunsOut(j) \/ BecomesDue(j)
  PROVE  SerialInv'
<1> DEFINE c == at[t]
<1>1. /\ at'[t] = c \/ (c.op = "cancel" /\ at'[t] = [c EXCEPT !.doc.lease = "expired"])
  BY DEF LeaseRunsOut, BecomesDue
<1>2. \A k \in Job : /\ queue'[k] \in JobDoc /\ queue[k] \in JobDoc
                     /\ View(queue'[k]) = View(queue[k])
  BY DEF LeaseRunsOut, BecomesDue, IInv, DocOK, View, JobDoc, Status
<1>3. \A k \in Job : queue'[k].status = queue[k].status /\ queue'[k].worker = queue[k].worker
  BY <1>2 DEF View
<1>4. Running' = Running BY <1>3 DEF Running
<1>5. CopyOK(c) /\ SavesWhatItRead(c) /\ HoldsWhatItRefused(c) BY DEF IInv, SerialInv
<1>6. CASE c.op \in Reports \cup {"enqueue", "cancel", "retry"}
  <2>1. c \in Saving /\ c.job \in Job BY <1>5, <1>6, OpOf
  <2>2. /\ at'[t].op = c.op /\ at'[t].job = c.job /\ at'[t].worker = c.worker
        /\ View(at'[t].doc) = View(c.doc)
    BY <1>1, <2>1 DEF Saving, View, JobDoc
  <2>3. Found(at'[t], queue'[c.job]) BY <1>3, <1>5, <1>6, <2>1, <2>2
    DEF Found, SavesWhatItRead, HeldBy
  <2>4. \E d \in Outcomes(c.op, c.job, queue'[c.job]) : View(c.doc) = View(d)
    BY <1>2, <1>5, <1>6, <2>1, AgedRow DEF SavesWhatItRead
  <2>5. SavesWhatItRead(at[t])' BY <2>2, <2>3, <2>4 DEF SavesWhatItRead
  <2>6. HoldsWhatItRefused(at[t])' BY <1>6, <2>2 DEF HoldsWhatItRefused, Reports
  <2> QED BY <2>5, <2>6 DEF SerialInv
<1>7. CASE c.op = "claim"
  <2>1. at'[t] = c BY <1>1, <1>7
  <2>2. \A h \in c.back : h.job \in Job BY <1>5, <1>7, OpOf
  <2>3. HoldsWhatItRefused(at[t])'
    BY <1>2, <1>3, <1>4, <1>5, <2>1, <2>2 DEF HoldsWhatItRefused, HeldBy
  <2>4. SavesWhatItRead(at[t])' BY <1>7, <2>1 DEF SavesWhatItRead, Reports
  <2> QED BY <2>3, <2>4 DEF SerialInv
<1>8. CASE c = Idle
  BY <1>1, <1>8, IdleIsSerial DEF Idle
<1> QED BY <1>5, <1>6, <1>7, <1>8 DEF CopyOK, Claiming, Saving

LEMMA SerialInit == Init => SerialInv
BY DEF Init, SerialInv, SavesWhatItRead, HoldsWhatItRefused, Idle, Reports

LEMMA SerialNext ==
  ASSUME NEW t, Thread = {t}
  PROVE  IInv /\ SerialInv /\ [Next]_vars => SerialInv'
<1> SUFFICES ASSUME IInv, SerialInv, [Next]_vars PROVE SerialInv'
  OBVIOUS
<1>1. ASSUME NEW j \in Job, Request(t, j) PROVE SerialInv'
  <2>1. ASSUME NEW when \in {"due", "later"}, BeginEnqueue(t, j, when) PROVE SerialInv'
    BY <2>1, ReadIsSerial DEF BeginEnqueue, Found, Outcomes, Reports
  <2>2. ASSUME NEW force \in BOOLEAN, BeginCancel(t, j, force) PROVE SerialInv'
    BY <2>2, ReadIsSerial DEF BeginCancel, Found, Outcomes, Reports
  <2>3. CASE BeginRetry(t, j)
    BY <2>3, ReadIsSerial DEF BeginRetry, Found, Outcomes, Retried, Reports
  <2> QED BY <1>1, <2>1, <2>2, <2>3 DEF Request
<1>2. ASSUME NEW j \in Job, NEW w \in Worker, Report(t, j, w) PROVE SerialInv'
  <2>1. CASE BeginHeartbeat(t, j, w)
    <3>1. CopyOK([op |-> "heartbeat", job |-> j, doc |-> Heartbeaten(queue[j]), worker |-> w])
      <4>1. DocOK(j, queue[j]) /\ queue[j].status = "running"
        BY <2>1 DEF BeginHeartbeat, HeldBy, IInv
      <4> QED BY <4>1, ReportOK, CopySaving DEF Reports
    <3>2. at'[t] = [op |-> "heartbeat", job |-> j, doc |-> Heartbeaten(queue[j]), worker |-> w]
          /\ queue' = queue /\ HeldBy(queue[j], w)
      BY <2>1 DEF BeginHeartbeat, Read, IInv
    <3>3. View(Heartbeaten(queue[j])) = View(queue[j])
      BY DEF Heartbeaten, View, IInv, DocOK, JobDoc
    <3>4. SavesWhatItRead(at[t])'
      BY <3>2, <3>3 DEF SavesWhatItRead, Found, Outcomes, Reports
    <3> QED BY <3>2, <3>4 DEF SerialInv, HoldsWhatItRefused
  <2>2. CASE BeginComplete(t, j, w)
    BY <2>2, ReadIsSerial DEF BeginComplete, Found, Outcomes, Reports
  <2>3. CASE BeginFail(t, j, w)
    BY <2>3, ReadIsSerial DEF BeginFail, Found, Outcomes, Reports
  <2> QED BY <1>2, <2>1, <2>2, <2>3 DEF Report
<1>3. ASSUME NEW w \in Worker, NEW limit \in 1 .. MaxClaimLimit, BeginClaim(t, w, limit)
      PROVE  SerialInv'
  <2>1. at'[t] = [op |-> "claim", phase |-> "reap", worker |-> w, wanted |-> limit,
                  got |-> {}, back |-> {}, seen |-> NothingSeen]
    BY <1>3 DEF BeginClaim, IInv
  <2> QED BY <2>1 DEF SerialInv, SavesWhatItRead, HoldsWhatItRefused, Reports
<1>4. CASE ClaimStep(t)
  BY <1>4, ClaimIsSerial
<1>5. CASE Save(t) \/ Die(t)
  BY <1>5, IdleIsSerial DEF Save, Die, IInv
<1>6. ASSUME NEW j \in Job, LeaseRunsOut(j) \/ BecomesDue(j) PROVE SerialInv'
  BY <1>6, TimeIsSerial
<1>7. CASE UNCHANGED vars
  <2>1. Running' = Running /\ queue' = queue /\ at' = at BY <1>7 DEF vars, Running
  <2> QED BY <2>1 DEF SerialInv, SavesWhatItRead, HoldsWhatItRefused
<1> QED BY <1>1, <1>2, <1>3, <1>4, <1>5, <1>6, <1>7 DEF Next, Working

\* With one thread a job starts only under its cap: the running jobs a claim counts
\* are still the running jobs when it takes the row (store queue_claim_one).
LEMMA StartsUnderCap ==
  ASSUME NEW t, Thread = {t}, IInv, SerialInv, [Next]_vars, NEW j \in Job,
         queue[j].status # "running", queue'[j].status = "running", KeyOf[j] # NoKey
  PROVE  LimitOf[j] = 0 \/ Busy(j, Running) < LimitOf[j]
<1> \A k \in Job : DocOK(k, queue[k]) /\ queue[k] \in JobDoc BY DEF IInv, DocOK
<1>1. ASSUME NEW k \in Job, ClaimOwn(t, k) \/ ClaimForeign(t, k)
      PROVE  LimitOf[j] = 0 \/ Busy(j, Running) < LimitOf[j]
  <2>1. k = j
    BY <1>1 DEF ClaimOwn, ClaimForeign, IInv
  <2>2. UnderCap(j, at[t].seen.running)
    BY <1>1, <2>1 DEF ClaimOwn, ClaimForeign, NextFor, Claimable
  <2>3. at[t].seen.running = Running
    BY <1>1 DEF SerialInv, HoldsWhatItRefused, ClaimOwn, ClaimForeign, In
  <2> QED BY <2>2, <2>3 DEF UnderCap
<1>2. CASE Save(t)
  <2> DEFINE c == at[t]
  <2>1. c \in Saving /\ c.job \in Job /\ SavesWhatItRead(c)
        /\ c.op \in Reports \cup {"enqueue", "cancel", "retry"}
    BY <1>2, OpOf DEF Save, IInv, SerialInv
  <2>2. c.job = j /\ c.doc.status = "running"
    BY <1>2, <2>1 DEF Save, IInv
  <2>3. PICK d \in Outcomes(c.op, j, queue[j]) : View(c.doc) = View(d)
    BY <2>1, <2>2 DEF SavesWhatItRead
  <2>4. d.status = "running" BY <2>2, <2>3 DEF View
  <2>5. CASE c.op \in {"enqueue", "retry"}
    BY <2>3, <2>4, <2>5 DEF Outcomes, Enqueued, Blank
  <2>6. CASE c.op \in Reports
    BY <2>1, <2>2, <2>6 DEF SavesWhatItRead, Found, HeldBy
  <2>7. CASE c.op = "cancel"
    BY <2>3, <2>4, <2>7 DEF Outcomes, Cancelled, JobDoc
  <2> QED BY <2>1, <2>5, <2>6, <2>7
<1>3. \/ \E k \in Job : ClaimOwn(t, k) \/ ClaimForeign(t, k)
      \/ Save(t)
      \/ queue'[j].status = queue[j].status
      \/ queue'[j].status \in {"pending", "failed"}
  <2>1. ASSUME NEW w \in Worker, NEW limit, BeginClaim(t, w, limit)
        PROVE  queue'[j].status \in {queue[j].status, "pending"}
    BY <2>1 DEF BeginClaim, Requeued, JobDoc
  <2>2. CASE ReapExhausted(t)
    BY <2>2 DEF ReapExhausted, DeadLettered, JobDoc
  <2>3. ASSUME NEW h \in at[t].back, Release(t, h), at[t].op = "claim"
        PROVE  queue'[j].status \in {queue[j].status, "pending"}
    <3>1. DocOK(h.job, h.doc) BY <2>3, OpOf DEF IInv
    <3> QED BY <2>3, <3>1 DEF Release, Released, IInv, DocOK, JobDoc
  <2>4. ASSUME NEW k \in Job, LeaseRunsOut(k) \/ BecomesDue(k)
        PROVE  queue'[j].status = queue[j].status
    BY <2>4 DEF LeaseRunsOut, BecomesDue, IInv, JobDoc
  <2>5. ASSUME NEW k \in Job, Request(t, k) PROVE queue' = queue
    BY <2>5 DEF Request, BeginEnqueue, BeginCancel, BeginRetry, Read
  <2>6. ASSUME NEW k \in Job, NEW w, Report(t, k, w) PROVE queue' = queue
    BY <2>6 DEF Report, BeginHeartbeat, BeginComplete, BeginFail, Read
  <2>7. CASE Look(t) \/ EndClaimLoop(t) \/ ReturnClaim(t) \/ Die(t) \/ UNCHANGED vars
    BY <2>7 DEF Look, EndClaimLoop, ReturnClaim, Die, vars
  <2> QED BY <2>1, <2>2, <2>3, <2>4, <2>5, <2>6, <2>7 DEF Next, Working, ClaimStep
<1> QED BY <1>1, <1>2, <1>3

\* One thread, any jobs, keys and limits: a job starts only while fewer jobs of its key
\* run than it allows (queue.py 163-165, store queue_claim_one).
THEOREM CapsAreKept == ASSUME NEW t, Thread = {t} PROVE Spec => CapsHold
<1>1. IInv /\ SerialInv /\ [Next]_vars =>
        [\A j \in Job :
           (queue[j].status # "running" /\ queue'[j].status = "running" /\ KeyOf[j] # NoKey) =>
             LimitOf[j] = 0 \/ Busy(j, Running) < LimitOf[j]]_vars
  BY StartsUnderCap
<1> QED BY <1>1, InitIInv, NextIInv, SerialInit, SerialNext, PTL DEF Spec, CapsHold
-----------------------------------------------------------------------------
(* What a claim comes back with.                                           *)

\* A claim is made for at least one job, and refuses one job after another.
ClaimsAreModest ==
  \A t \in Thread : at[t].op = "claim" =>
    at[t].wanted \in Nat \ {0} /\ IsFiniteSet(at[t].back)

\* A step of a claim that is still under way.
GoesOn(c, d) ==
  /\ c.op = "claim" /\ d.wanted = c.wanted
  /\ \E h : d.back \subseteq c.back \cup {h}

LEMMA ModestInit == Init => ClaimsAreModest
BY DEF Init, ClaimsAreModest, Idle

LEMMA ModestNext == IInv /\ ClaimsAreModest /\ [Next]_vars => ClaimsAreModest'
<1> SUFFICES ASSUME IInv, ClaimsAreModest, [Next]_vars, NEW u \in Thread, at'[u].op = "claim"
             PROVE  at'[u].wanted \in Nat \ {0} /\ IsFiniteSet(at'[u].back)
  BY DEF ClaimsAreModest
<1>1. \/ at'[u] = at[u]
      \/ GoesOn(at[u], at'[u])
      \/ at'[u].back = {} /\ \E limit \in 1 .. MaxClaimLimit : at'[u].wanted = limit
  <2>1. ASSUME NEW t \in Thread, NEW j \in Job, Request(t, j)
        PROVE  at'[u] = at[u]
    BY <2>1 DEF Request, BeginEnqueue, BeginCancel, BeginRetry, Read, IInv
  <2>2. ASSUME NEW t \in Thread, NEW j \in Job, NEW w \in Worker, Report(t, j, w)
        PROVE  at'[u] = at[u]
    BY <2>2 DEF Report, BeginHeartbeat, BeginComplete, BeginFail, Read, IInv
  <2>3. ASSUME NEW t \in Thread, NEW w \in Worker, NEW limit \in 1 .. MaxClaimLimit,
               BeginClaim(t, w, limit)
        PROVE  at'[u] = at[u] \/ (at'[u].wanted = limit /\ at'[u].back = {})
    BY <2>3 DEF BeginClaim, IInv
  <2>4. ASSUME NEW t \in Thread, ClaimStep(t)
        PROVE  at'[u] = at[u] \/ GoesOn(at[u], at'[u])
    <3>1. at[t] \in Claiming /\ at[t].op = "claim"
      BY <2>4, OpOf DEF IInv, ClaimStep, ReapExhausted, Look, ClaimOwn, ClaimForeign,
                        EndClaimLoop, Release, ReturnClaim, In
    <3>2. CASE u # t
      BY <2>4, <3>2 DEF ClaimStep, ReapExhausted, Look, ClaimOwn, ClaimForeign, EndClaimLoop,
                        Release, ReturnClaim, IInv
    <3>3. ASSUME NEW j \in Job, ClaimOwn(t, j), u = t PROVE GoesOn(at[u], at'[u])
      BY <3>1, <3>3 DEF ClaimOwn, IInv, Claiming, GoesOn
    <3>4. ASSUME NEW j \in Job, ClaimForeign(t, j), u = t PROVE GoesOn(at[u], at'[u])
      <4> DEFINE h == [job |-> j, doc |-> Claimed(queue[j], at[t].worker)]
      <4>1. at'[t] = [at[t] EXCEPT !.phase = "look", !.seen = NothingSeen,
                                   !.back = at[t].back \cup {h}]
        BY <3>4 DEF ClaimForeign, IInv
      <4> HIDE DEF h
      <4> QED BY <3>1, <3>4, <4>1 DEF Claiming, GoesOn
    <3>5. ASSUME NEW h, Release(t, h), u = t PROVE GoesOn(at[u], at'[u])
      BY <3>1, <3>5 DEF Release, IInv, Claiming, GoesOn
    <3>6. ASSUME ReapExhausted(t) \/ Look(t) \/ EndClaimLoop(t), u = t
          PROVE  GoesOn(at[u], at'[u])
      BY <3>1, <3>6 DEF ReapExhausted, Look, EndClaimLoop, IInv, Claiming, GoesOn
    <3>7. ASSUME ReturnClaim(t) PROVE at'[u] = at[u]
      BY <3>7 DEF ReturnClaim, IInv, Idle
    <3> QED BY <2>4, <3>2, <3>3, <3>4, <3>5, <3>6, <3>7 DEF ClaimStep
  <2>5. ASSUME NEW t \in Thread, Save(t) \/ Die(t) PROVE at'[u] = at[u]
    BY <2>5 DEF Save, Die, IInv, Idle
  <2>6. ASSUME NEW j \in Job, LeaseRunsOut(j) \/ BecomesDue(j) PROVE at'[u] = at[u]
    <3>1. CopyOK(at[u]) BY DEF IInv
    <3>2. CASE at[u].op = "cancel"
      <4>1. at[u] \in Saving BY <3>1, <3>2, OpOf
      <4> QED BY <2>6, <3>2, <4>1 DEF LeaseRunsOut, BecomesDue, Saving
    <3>3. CASE at[u].op # "cancel"
      BY <2>6, <3>3 DEF LeaseRunsOut, BecomesDue
    <3> QED BY <3>2, <3>3
  <2> QED BY <2>1, <2>2, <2>3, <2>4, <2>5, <2>6 DEF Next, Working, vars
<1>2. \A limit \in 1 .. MaxClaimLimit : limit \in Nat \ {0}
  BY TagAssumption
<1>3. CASE GoesOn(at[u], at'[u])
  <2>1. PICK h : at'[u].back \subseteq at[u].back \cup {h} BY <1>3 DEF GoesOn
  <2>2. IsFiniteSet(at[u].back \cup {h}) BY <1>3, FS_AddElement DEF ClaimsAreModest, GoesOn
  <2>3. IsFiniteSet(at'[u].back) BY <2>1, <2>2, FS_Subset
  <2> QED BY <1>3, <2>3 DEF ClaimsAreModest, GoesOn
<1> QED BY <1>1, <1>2, <1>3, FS_EmptySet DEF ClaimsAreModest

\* The least number principle, from the well-founded order of the finite sets 0 .. n.
LEMMA LeastNatural ==
  ASSUME NEW N, N \subseteq Nat, N # {}
  PROVE  \E n \in N : \A m \in N : n <= m
<1> DEFINE Upto == {0 .. n : n \in N}
<1>1. Upto \subseteq FiniteSubsetsOf(Nat) /\ Upto # {}
  <2>1. \A n \in N : 0 .. n \subseteq Nat /\ IsFiniteSet(0 .. n)
    BY FS_Interval
  <2> QED BY <2>1 DEF FiniteSubsetsOf
<1>2. PICK x \in Upto : \A y \in Upto : ~(<<y, x>> \in StrictSubsetOrdering(Nat))
  <2> HIDE DEF Upto
  <2> QED BY <1>1, FS_StrictSubsetOrderingWellFounded, WFMin
<1>3. PICK n \in N : x = 0 .. n OBVIOUS
<1>4. ASSUME NEW m \in N, m < n PROVE FALSE
  <2>1. n \in Nat /\ m \in Nat OBVIOUS
  <2>2. (0 .. m) \subseteq (0 .. n) /\ (0 .. n) \subseteq Nat /\ n \in 0 .. n /\ n \notin 0 .. m
    BY <1>4, <2>1
  <2>3. <<0 .. m, 0 .. n>> \in StrictSubsetOrdering(Nat)
    BY <2>2 DEF StrictSubsetOrdering
  <2> QED BY <1>2, <1>3, <2>3
<1> QED BY <1>4

\* Among claimable jobs some key is the least busy.
LEMMA SomeoneIsNext ==
  ASSUME NEW c, IsFiniteSet(c.seen.running), Claimable(c) # {}
  PROVE  NextFor(c) # {}
<1> DEFINE B(j) == Busy(j, c.seen.running)
           N == {B(j) : j \in Claimable(c)}
<1>1. \A j : B(j) \in Nat
  BY FS_Subset, FS_CardinalityType DEF Busy
<1> HIDE DEF B
<1>2. N \subseteq Nat /\ N # {} BY <1>1
<1>3. PICK n \in N : \A m \in N : n <= m BY <1>2, LeastNatural
<1>4. PICK j \in Claimable(c) : B(j) = n OBVIOUS
<1>5. \A k \in Claimable(c) : B(j) <= B(k) BY <1>3, <1>4
<1> QED BY <1>5 DEF NextFor, B

\* A claim that gives up has nothing to run: the step that ends its loop.
LEMMA GivesUpRightly ==
  ASSUME IInv, ClaimsAreModest, IsFiniteSet(Job), NEW t \in Thread, EndClaimLoop(t),
         at[t].got = {}, Cardinality(at[t].back) < MaxClaimLimit, NEW j \in Job
  PROVE  ~Runnable(t, j)
<1>1. Cardinality(at[t].got) = 0 /\ at[t].wanted \in Nat \ {0} /\ MaxClaimLimit \in Nat
      /\ Cardinality(at[t].back) \in Nat
  BY FS_EmptySet, FS_CardinalityType, TagAssumption DEF ClaimsAreModest, EndClaimLoop, In
<1>2. at[t] \in Claiming /\ at[t].back \in SUBSET Held
  BY OpOf DEF IInv, EndClaimLoop, In, Claiming
<1>3. MoreToClaim(at[t])
  BY <1>1 DEF MoreToClaim
<1>4. CASE In(t, "look")
  <2>1. ~MoreToClaim(at[t]) BY <1>4 DEF EndClaimLoop, In
  <2> QED BY <1>3, <2>1
<1>5. CASE In(t, "pick")
  <2>1. NextFor(at[t]) = {} BY <1>5 DEF EndClaimLoop, In
  <2>2. at[t].seen.running \subseteq Job BY <1>2 DEF Claiming, Snapshot
  <2>3. Claimable(at[t]) = {} BY <2>1, <2>2, SomeoneIsNext, FS_Subset
  <2> QED BY <1>5, <2>3 DEF Runnable, Seen, Claimable
<1> QED BY <1>4, <1>5 DEF EndClaimLoop

\* Only the thread itself ends the loop of its claim.
LEMMA EndsItsOwnLoop ==
  ASSUME IInv, [Next]_vars, NEW t \in Thread, In(t, "look") \/ In(t, "pick"),
         at'[t].op = "claim", at'[t].phase = "release"
  PROVE  EndClaimLoop(t)
<1>1. at[t] \in Claiming /\ at'[t] # at[t]
  BY OpOf DEF IInv, In
<1>2. ASSUME NEW u \in Thread, NEW j \in Job, Request(u, j) PROVE FALSE
  BY <1>1, <1>2 DEF Request, BeginEnqueue, BeginCancel, BeginRetry, Read, IInv, Claiming, Idle
<1>3. ASSUME NEW u \in Thread, NEW j \in Job, NEW w \in Worker, Report(u, j, w) PROVE FALSE
  BY <1>1, <1>3 DEF Report, BeginHeartbeat, BeginComplete, BeginFail, Read, IInv, Claiming, Idle
<1>4. ASSUME NEW u \in Thread, NEW w \in Worker, NEW limit \in 1 .. MaxClaimLimit,
             BeginClaim(u, w, limit)
      PROVE  FALSE
  BY <1>1, <1>4 DEF BeginClaim, IInv
<1>5. ASSUME NEW u \in Thread, ClaimStep(u) PROVE EndClaimLoop(t)
  <2>1. u = t
    BY <1>1, <1>5 DEF ClaimStep, ReapExhausted, Look, ClaimOwn, ClaimForeign, EndClaimLoop,
                      Release, ReturnClaim, IInv
  <2>2. CASE ReapExhausted(t) \/ ReturnClaim(t) \/ \E h : Release(t, h)
    BY <2>2 DEF ReapExhausted, ReturnClaim, Release, In
  <2>3. CASE Look(t)
    BY <1>1, <2>3 DEF Look, IInv, Claiming
  <2>4. ASSUME NEW j \in Job, ClaimOwn(t, j) PROVE FALSE
    BY <1>1, <2>4 DEF ClaimOwn, IInv, Claiming
  <2>5. ASSUME NEW j \in Job, ClaimForeign(t, j) PROVE FALSE
    BY <1>1, <2>5 DEF ClaimForeign, IInv, Claiming
  <2> QED BY <1>5, <2>1, <2>2, <2>3, <2>4, <2>5 DEF ClaimStep
<1>6. ASSUME NEW u \in Thread, Save(u) \/ Die(u) PROVE FALSE
  BY <1>1, <1>6 DEF Save, Die, IInv, Idle
<1>7. ASSUME NEW j \in Job, LeaseRunsOut(j) \/ BecomesDue(j) PROVE FALSE
  BY <1>1, <1>7 DEF LeaseRunsOut, BecomesDue, Claiming
<1> QED BY <1>1, <1>2, <1>3, <1>4, <1>5, <1>6, <1>7 DEF Next, Working, vars

\* Any number of threads, workers, versions and agents, and a finite number of jobs: a claim
\* that MAX_CLAIM_LIMIT did not cut short comes back empty only if its worker could run
\* nothing that it saw (queue.py 191-194).
THEOREM ClaimsFindTheirOwn == ASSUME IsFiniteSet(Job) PROVE Spec => ClaimFindsOwn
<1>1. IInv /\ ClaimsAreModest /\ [Next]_vars =>
        [\A t \in Thread :
           (/\ (In(t, "look") \/ In(t, "pick")) /\ at'[t].op = "claim" /\ at'[t].phase = "release"
            /\ at[t].got = {} /\ Cardinality(at[t].back) < MaxClaimLimit)
           => \A j \in Job : ~Runnable(t, j)]_vars
  BY EndsItsOwnLoop, GivesUpRightly
<1> QED BY <1>1, InitIInv, NextIInv, ModestInit, ModestNext, PTL DEF Spec, ClaimFindsOwn
-----------------------------------------------------------------------------
(* The refinement, step by step.                                           *)

\* A job that thread state c is going to hand back.
Refused(c, j) == c.op = "claim" /\ \E h \in c.back : h.job = j

\* Row d as the outside sees it, refused or not.
Shown(d, refused) ==
  IF refused
  THEN [phase |-> "waiting", tries |-> d.attempts - 1, holder |-> NoWorker, stopping |-> d.cancel]
  ELSE [phase |-> Phase(d), tries |-> d.attempts, holder |-> d.worker, stopping |-> d.cancel]

\* With one thread the ledger is a function of the rows and of that thread's state.
LEMMA LedgerShown ==
  ASSUME NEW t, Thread = {t}
  PROVE  /\ Ledger = [j \in Job |-> Shown(queue[j], Refused(at[t], j))]
         /\ Ledger' = [j \in Job |-> Shown(queue'[j], Refused(at'[t], j))]
<1>1. ASSUME NEW j \in Job PROVE EntryOf(j) = Shown(queue[j], Refused(at[t], j))
  <2>1. Refusing(j) = {} <=> ~Refused(at[t], j) BY DEF Refusing, Refused
  <2> QED BY <2>1 DEF EntryOf, Shown
<1>2. ASSUME NEW j \in Job PROVE EntryOf(j)' = Shown(queue'[j], Refused(at'[t], j))
  <2>1. Refusing(j)' = {} <=> ~Refused(at'[t], j) BY DEF Refusing, Refused
  <2> QED BY <2>1 DEF EntryOf, Shown, Phase
<1> QED BY <1>1, <1>2 DEF Ledger

\* Rows that look alike are shown alike.
LEMMA ShownAlike ==
  ASSUME NEW d, NEW e, View(d) = View(e), NEW r, NEW s, r <=> s
  PROVE  Shown(d, r) = Shown(e, s)
BY DEF View, Shown, Phase

\* A step that shows the outside the change of one job at most.
LEMMA OneEntry ==
  ASSUME NEW t, Thread = {t}, NEW j \in Job,
         \A k \in Job \ {j} : View(queue'[k]) = View(queue[k])
                              /\ (Refused(at'[t], k) <=> Refused(at[t], k))
  PROVE  /\ Ledger' = [Ledger EXCEPT ![j] = Shown(queue'[j], Refused(at'[t], j))]
         /\ Ledger[j] = Shown(queue[j], Refused(at[t], j))
         /\ (View(queue'[j]) = View(queue[j]) /\ (Refused(at'[t], j) <=> Refused(at[t], j)))
              => Ledger' = Ledger
<1>1. \A k \in Job \ {j} : Shown(queue'[k], Refused(at'[t], k)) = Shown(queue[k], Refused(at[t], k))
  BY ShownAlike
<1>2. (View(queue'[j]) = View(queue[j]) /\ (Refused(at'[t], j) <=> Refused(at[t], j)))
        => Shown(queue'[j], Refused(at'[t], j)) = Shown(queue[j], Refused(at[t], j))
  BY ShownAlike
<1> DEFINE new(k) == Shown(queue'[k], Refused(at'[t], k))
           old(k) == Shown(queue[k], Refused(at[t], k))
<1>3. Ledger = [k \in Job |-> old(k)] /\ Ledger' = [k \in Job |-> new(k)]
  BY LedgerShown
<1>4. /\ \A k \in Job \ {j} : new(k) = old(k)
      /\ (View(queue'[j]) = View(queue[j]) /\ (Refused(at'[t], j) <=> Refused(at[t], j)))
           => new(j) = old(j)
  BY <1>1, <1>2
<1> HIDE DEF new, old
<1>5. Ledger' = [Ledger EXCEPT ![j] = new(j)] BY <1>3, <1>4
<1>6. Ledger[j] = old(j) BY <1>3
<1>7. (View(queue'[j]) = View(queue[j]) /\ (Refused(at'[t], j) <=> Refused(at[t], j)))
        => Ledger' = Ledger
  BY <1>3, <1>4
<1> QED BY <1>5, <1>6, <1>7 DEF new, old

LEMMA PromiseInit == ASSUME NEW t, Thread = {t} PROVE Init => Promise!Init
<1> SUFFICES ASSUME Init PROVE Promise!Init
  OBVIOUS
<1>1. ASSUME NEW j \in Job PROVE EntryOf(j) = Promise!Fresh("absent")
  <2>1. Refusing(j) = {} BY DEF Init, Refusing, Idle
  <2>2. queue[j] = AbsentDoc BY DEF Init
  <2> QED BY <2>1, <2>2 DEF EntryOf, Phase, AbsentDoc, Blank, Promise!Fresh
<1> QED BY <1>1 DEF Promise!Init, Ledger

\* The phases, spelled out.
LEMMA Phases ==
  ASSUME NEW d
  PROVE  /\ d.status = "pending" => Phase(d) = "waiting"
         /\ d.status = "running" => Phase(d) = "held"
         /\ d.status \notin {"pending", "running"} => Phase(d) = d.status
BY DEF Phase

\* Entries of the ledger, field by field.
IsEntry(y) == y = [x \in {"phase", "tries", "holder", "stopping"} |-> y[x]]

Like(y, phase, tries, holder, stopping) ==
  IsEntry(y) /\ y.phase = phase /\ y.tries = tries /\ y.holder = holder /\ y.stopping = stopping

LEMMA LikeIsEqual ==
  ASSUME NEW y, NEW z, NEW p, NEW n, NEW h, NEW s, Like(y, p, n, h, s), Like(z, p, n, h, s)
  PROVE  y = z
<1>1. \A x \in {"phase", "tries", "holder", "stopping"} : y[x] = z[x] BY DEF Like
<1> QED BY <1>1 DEF Like, IsEntry

LEMMA ShownLike ==
  ASSUME NEW d, NEW r
  PROVE  /\ r => Like(Shown(d, r), "waiting", d.attempts - 1, NoWorker, d.cancel)
         /\ ~r => Like(Shown(d, r), Phase(d), d.attempts, d.worker, d.cancel)
BY DEF Shown, Like, IsEntry

\* What the steps of the promise make of an entry.
LEMMA EntrySteps ==
  ASSUME NEW e, NEW p, NEW n, NEW h, NEW s, Like(e, p, n, h, s), NEW w, NEW m
  PROVE  /\ Like([e EXCEPT !.phase = m], m, n, h, s)
         /\ Like([e EXCEPT !.phase = "cancelled", !.holder = NoWorker, !.stopping = TRUE],
                 "cancelled", n, NoWorker, TRUE)
         /\ Like([e EXCEPT !.stopping = TRUE], p, n, h, TRUE)
         /\ Like([e EXCEPT !.phase = m, !.holder = NoWorker], m, n, NoWorker, s)
         /\ Like([e EXCEPT !.phase = "held", !.holder = w, !.tries = @ + 1], "held", n + 1, w, s)
<1>1. /\ IsEntry([e EXCEPT !.phase = m])
      /\ IsEntry([e EXCEPT !.phase = "cancelled", !.holder = NoWorker, !.stopping = TRUE])
      /\ IsEntry([e EXCEPT !.stopping = TRUE])
      /\ IsEntry([e EXCEPT !.phase = m, !.holder = NoWorker])
      /\ IsEntry([e EXCEPT !.phase = "held", !.holder = w, !.tries = @ + 1])
  BY DEF Like, IsEntry
<1>2. ASSUME NEW y, y = [e EXCEPT !.phase = m] PROVE Like(y, m, n, h, s)
  BY <1>1, <1>2 DEF Like, IsEntry
<1>3. ASSUME NEW y, y = [e EXCEPT !.phase = "cancelled", !.holder = NoWorker, !.stopping = TRUE]
      PROVE  Like(y, "cancelled", n, NoWorker, TRUE)
  BY <1>1, <1>3 DEF Like, IsEntry
<1>4. ASSUME NEW y, y = [e EXCEPT !.stopping = TRUE] PROVE Like(y, p, n, h, TRUE)
  BY <1>1, <1>4 DEF Like, IsEntry
<1>5. ASSUME NEW y, y = [e EXCEPT !.phase = m, !.holder = NoWorker]
      PROVE  Like(y, m, n, NoWorker, s)
  BY <1>1, <1>5 DEF Like, IsEntry
<1>6. ASSUME NEW y, y = [e EXCEPT !.phase = "held", !.holder = w, !.tries = @ + 1]
      PROVE  Like(y, "held", n + 1, w, s)
  BY <1>1, <1>6 DEF Like, IsEntry
<1> QED BY <1>2, <1>3, <1>4, <1>5, <1>6

\* The steps of the promise, one kind at a time.
LEMMA PromiseSteps ==
  /\ \A j \in Job : Promise!Submit(j) => Promise!Next
  /\ \A j \in Job : Promise!Stop(j) => Promise!Next
  /\ \A j \in Job : Promise!Resubmit(j) => Promise!Next
  /\ \A j \in Job, w \in Worker : Promise!Grant(j, w) => Promise!Next
  /\ \A j \in Job, w \in Worker : Promise!Finish(j, w) => Promise!Next
  /\ \A S \in SUBSET Job : Promise!Abandon(S) => Promise!Next
  /\ \A S \in SUBSET Job, w \in Worker : Promise!Strand(S, w) => Promise!Next
BY DEF Promise!Next

\* A handler saves what it read: the outside sees the one change it promised.
LEMMA SaveKeepsPromise ==
  ASSUME NEW t, Thread = {t}, IInv, SerialInv, Save(t)
  PROVE  Promise!Next \/ Ledger' = Ledger
<1> DEFINE c == at[t]
           j == c.job
           d == queue[j]
<1>1. /\ c \in Saving /\ j \in Job /\ DocOK(j, d) /\ SavesWhatItRead(c)
      /\ c.op \in Reports \cup {"enqueue", "cancel", "retry"}
  BY OpOf DEF Save, IInv, SerialInv
<1>2. PICK x \in Outcomes(c.op, j, d) : View(c.doc) = View(x)
  BY <1>1 DEF SavesWhatItRead
<1>3. /\ \A k : ~Refused(at'[t], k) /\ ~Refused(c, k)
      /\ queue'[j] = c.doc /\ \A k \in Job \ {j} : queue'[k] = queue[k]
  BY <1>1 DEF Save, Refused, Idle, Reports, IInv
<1>4. /\ Ledger' = [Ledger EXCEPT ![j] = Shown(x, FALSE)]
      /\ Ledger[j] = Shown(d, FALSE)
      /\ View(x) = View(d) => Ledger' = Ledger
  <2>1. Shown(c.doc, Refused(at'[t], j)) = Shown(x, FALSE)
    BY <1>2, <1>3 DEF Shown, View, Phase
  <2>2. Shown(d, Refused(c, j)) = Shown(d, FALSE)
    BY <1>3 DEF Shown
  <2>3. \A k \in Job \ {j} : View(queue'[k]) = View(queue[k])
                             /\ (Refused(at'[t], k) <=> Refused(at[t], k))
    BY <1>3
  <2>4. /\ Ledger' = [Ledger EXCEPT ![j] = Shown(queue'[j], Refused(at'[t], j))]
        /\ Ledger[j] = Shown(queue[j], Refused(at[t], j))
        /\ (View(queue'[j]) = View(queue[j]) /\ (Refused(at'[t], j) <=> Refused(at[t], j)))
              => Ledger' = Ledger
    <3> HIDE DEF c, j, d
    <3> QED BY <1>1, <2>3, OneEntry
  <2> QED BY <1>2, <1>3, <2>1, <2>2, <2>4
<1>5. Found(c, d) BY <1>1 DEF SavesWhatItRead
<1> HIDE DEF c, j, d
<1>6. d \in JobDoc /\ Consistent(j, d) BY <1>1 DEF DocOK
<1>7. CASE c.op = "enqueue"
  <2>1. PICK when : x = Enqueued(when) BY <1>2, <1>7 DEF Outcomes
  <2>2. Shown(x, FALSE) = Promise!Fresh("waiting")
    BY <2>1, Phases DEF Shown, Enqueued, Blank, Promise!Fresh
  <2>3. Ledger[j].phase = "absent"
    BY <1>4, <1>5, <1>7, Phases DEF Found, Shown
  <2>4. Promise!Submit(j) BY <1>4, <2>2, <2>3 DEF Promise!Submit, Promise!Becomes
  <2> QED BY <1>1, <2>4, PromiseSteps
<1>8. CASE c.op = "retry"
  <2>1. x = Enqueued("due") BY <1>2, <1>8 DEF Outcomes
  <2>2. Shown(x, FALSE) = Promise!Fresh("waiting")
    BY <2>1, Phases DEF Shown, Enqueued, Blank, Promise!Fresh
  <2>3. Ledger[j].phase \in {"failed", "cancelled"}
    BY <1>4, <1>5, <1>8, Phases DEF Found, Shown
  <2>4. Promise!Resubmit(j) BY <1>4, <2>2, <2>3 DEF Promise!Resubmit, Promise!Becomes
  <2> QED BY <1>1, <2>4, PromiseSteps
<1>9. CASE c.op = "heartbeat"
  BY <1>2, <1>4, <1>9 DEF Outcomes
<1>10. CASE c.op = "complete"
  <2>1. x = Completed(d) BY <1>2, <1>10 DEF Outcomes
  <2>2. d.status = "running" /\ d.worker \in Worker
    BY <1>5, <1>6, <1>10 DEF Found, HeldBy, Reports, Consistent, HolderMatchesStatus, JobDoc
  <2>3. Like(Ledger[j], "held", d.attempts, d.worker, d.cancel)
    BY <1>4, <2>2, Phases, ShownLike
  <2>4. /\ x.status = IF d.cancel THEN "cancelled" ELSE "completed"
        /\ x.attempts = d.attempts /\ x.worker = d.worker /\ x.cancel = d.cancel
    BY <1>6, <2>1 DEF Completed, JobDoc
  <2>5. Like(Shown(x, FALSE), IF d.cancel THEN "cancelled" ELSE "completed",
             d.attempts, d.worker, d.cancel)
    BY <2>4, Phases, ShownLike
  <2>6. Shown(x, FALSE) = [Ledger[j] EXCEPT !.phase =
                             IF Ledger[j].stopping THEN "cancelled" ELSE "completed"]
    <3>1. Like([Ledger[j] EXCEPT !.phase =
                  IF Ledger[j].stopping THEN "cancelled" ELSE "completed"],
               IF Ledger[j].stopping THEN "cancelled" ELSE "completed",
               d.attempts, d.worker, d.cancel)
      BY <2>3, EntrySteps
    <3>2. Ledger[j].stopping = d.cancel BY <2>3 DEF Like
    <3> QED BY <2>5, <3>1, <3>2, LikeIsEqual
  <2>7. Promise!Finish(j, d.worker)
    BY <1>4, <2>3, <2>6 DEF Promise!Finish, Promise!Becomes, Like
  <2> QED BY <1>1, <2>2, <2>7, PromiseSteps
<1>11. CASE c.op = "fail"
  <2>1. x = Failed(j, d) BY <1>2, <1>11 DEF Outcomes
  <2>2. d.status = "running" /\ d.attempts \in Nat /\ MaxAttempts[j] \in Nat
    BY <1>1, <1>5, <1>6, <1>11, MaxAttemptsAssumption DEF Found, HeldBy, Reports, JobDoc
  <2>3. Like(Ledger[j], "held", d.attempts, d.worker, d.cancel)
    BY <1>4, <2>2, Phases, ShownLike
  <2>4. /\ x.status = IF d.cancel THEN "cancelled"
                      ELSE IF Exhausted(j, d) THEN "failed" ELSE "pending"
        /\ x.attempts = d.attempts /\ x.worker = NoWorker /\ x.cancel = d.cancel
    BY <1>6, <2>1 DEF Failed, JobDoc
  <2>5. Like(Shown(x, FALSE), Phase(x), d.attempts, NoWorker, d.cancel)
    BY <2>4, ShownLike
  <2>6. CASE d.cancel
    <3>1. d.cancel = TRUE /\ Phase(x) = "cancelled" BY <1>6, <2>4, <2>6, Phases DEF JobDoc
    <3>2. Like(Promise!Stopped(j), "cancelled", d.attempts, NoWorker, TRUE)
      BY <2>3, EntrySteps DEF Promise!Stopped
    <3>3. Shown(x, FALSE) = Promise!Stopped(j) BY <2>5, <3>1, <3>2, LikeIsEqual
    <3>4. Ledger[j].phase = "held" BY <2>3 DEF Like
    <3>5. Promise!Stop(j) BY <1>4, <3>3, <3>4 DEF Promise!Stop, Promise!Becomes
    <3> QED BY <1>1, <3>5, PromiseSteps
  <2>7. CASE ~d.cancel
    <3>1. Phase(x) = IF d.attempts < MaxAttempts[j] THEN "waiting" ELSE "failed"
      BY <2>2, <2>4, <2>7, Phases DEF Exhausted
    <3>2. Shown(x, FALSE) = Promise!GivenUp(j)
      <4>1. Ledger[j].tries = d.attempts BY <2>3 DEF Like
      <4>2. Like(Promise!GivenUp(j),
                 IF Ledger[j].tries < MaxAttempts[j] THEN "waiting" ELSE "failed",
                 d.attempts, NoWorker, d.cancel)
        BY <2>3, EntrySteps DEF Promise!GivenUp
      <4> QED BY <2>5, <3>1, <4>1, <4>2, LikeIsEqual
    <3>3. Ledger' = [k \in Job |-> IF k \in {j} THEN Promise!GivenUp(k) ELSE Ledger[k]]
      BY <1>4, <3>2 DEF Ledger
    <3>4. Promise!Abandon({j}) BY <2>3, <3>3 DEF Promise!Abandon, Like
    <3> QED BY <1>1, <3>4, PromiseSteps
  <2> QED BY <2>6, <2>7
<1>12. CASE c.op = "cancel"
  <2>1. PICK force \in BOOLEAN : x = Cancelled(d, force) BY <1>2, <1>12 DEF Outcomes
  <2>2. CASE d.status \in {"pending", "running"} /\ ~(d.status = "running" /\ ~force)
    <3>1. /\ x.status = "cancelled" /\ x.attempts = d.attempts /\ x.worker = NoWorker
          /\ x.cancel = TRUE
      BY <1>6, <2>1, <2>2 DEF Cancelled, JobDoc, Consistent, HolderMatchesStatus
    <3>2. Like(Shown(x, FALSE), "cancelled", d.attempts, NoWorker, TRUE)
      BY <3>1, Phases, ShownLike
    <3>3. /\ Ledger[j].phase \in {"waiting", "held"}
          /\ Shown(x, FALSE) = Promise!Stopped(j)
      <4>1. Like(Ledger[j], Phase(d), d.attempts, d.worker, d.cancel) BY <1>4, ShownLike
      <4>2. Like(Promise!Stopped(j), "cancelled", d.attempts, NoWorker, TRUE)
        BY <4>1, EntrySteps DEF Promise!Stopped
      <4>3. Ledger[j].phase \in {"waiting", "held"} BY <2>2, <4>1, Phases DEF Like
      <4> QED BY <3>2, <4>2, <4>3, LikeIsEqual
    <3>4. Promise!Stop(j) BY <1>4, <3>3 DEF Promise!Stop, Promise!Becomes
    <3> QED BY <1>1, <3>4, PromiseSteps
  <2>3. CASE d.status = "running" /\ ~force
    <3>1. /\ x.status = "running" /\ x.attempts = d.attempts /\ x.worker = d.worker
          /\ x.cancel = TRUE
      BY <1>6, <2>1, <2>3 DEF Cancelled, JobDoc
    <3>2. Shown(x, FALSE) = [Ledger[j] EXCEPT !.stopping = TRUE] /\ Ledger[j].phase = "held"
      <4>1. Like(Ledger[j], "held", d.attempts, d.worker, d.cancel) BY <1>4, <2>3, Phases, ShownLike
      <4>2. Like(Shown(x, FALSE), "held", d.attempts, d.worker, TRUE) BY <3>1, Phases, ShownLike
      <4>3. Like([Ledger[j] EXCEPT !.stopping = TRUE], "held", d.attempts, d.worker, TRUE)
        BY <4>1, EntrySteps
      <4> QED BY <4>1, <4>2, <4>3, LikeIsEqual DEF Like
    <3>3. Promise!Stop(j) BY <1>4, <3>2 DEF Promise!Stop, Promise!Becomes
    <3> QED BY <1>1, <3>3, PromiseSteps
  <2>4. CASE d.status \notin {"pending", "running"}
    <3>1. x = d BY <2>1, <2>4 DEF Cancelled
    <3> QED BY <1>4, <3>1
  <2> QED BY <2>2, <2>3, <2>4
<1> QED BY <1>1, <1>7, <1>8, <1>9, <1>10, <1>11, <1>12 DEF Reports

\* A step that shows the outside nothing.
LEMMA NothingShown ==
  ASSUME NEW t, Thread = {t},
         \A k \in Job : View(queue'[k]) = View(queue[k])
                        /\ (Refused(at'[t], k) <=> Refused(at[t], k))
  PROVE  Ledger' = Ledger
<1>1. \A k \in Job : Shown(queue'[k], Refused(at'[t], k)) = Shown(queue[k], Refused(at[t], k))
  BY ShownAlike
<1> QED BY <1>1, LedgerShown

\* A reaping statement: the outside sees the attempts on these jobs given up.
LEMMA ReapingAbandons ==
  ASSUME NEW t, Thread = {t}, IInv, NEW S \in SUBSET Job,
         \A k \in Job : ~Refused(at[t], k) /\ ~Refused(at'[t], k),
         \A k \in Job \ S : queue'[k] = queue[k],
         \A k \in S :
           /\ queue[k].status = "running"
           /\ queue'[k].status = IF queue[k].attempts < MaxAttempts[k] THEN "pending" ELSE "failed"
           /\ queue'[k].attempts = queue[k].attempts /\ queue'[k].worker = NoWorker
           /\ queue'[k].cancel = queue[k].cancel
  PROVE  Promise!Abandon(S)
<1>1. \A k \in Job : /\ Ledger[k] = Shown(queue[k], Refused(at[t], k))
                     /\ Ledger'[k] = Shown(queue'[k], Refused(at'[t], k))
  BY LedgerShown
<1>2. ASSUME NEW k \in S PROVE Ledger[k].phase = "held" /\ Ledger'[k] = Promise!GivenUp(k)
  <2>1. Like(Ledger[k], "held", queue[k].attempts, queue[k].worker, queue[k].cancel)
    BY <1>1, Phases, ShownLike
  <2>2. Phase(queue'[k]) = IF queue[k].attempts < MaxAttempts[k] THEN "waiting" ELSE "failed"
    BY Phases
  <2>3. Like(Ledger'[k], Phase(queue'[k]), queue[k].attempts, NoWorker, queue[k].cancel)
    BY <1>1, ShownLike
  <2>4. Ledger[k].tries = queue[k].attempts BY <2>1 DEF Like
  <2>5. Like(Promise!GivenUp(k),
             IF Ledger[k].tries < MaxAttempts[k] THEN "waiting" ELSE "failed",
             queue[k].attempts, NoWorker, queue[k].cancel)
    BY <2>1, EntrySteps DEF Promise!GivenUp
  <2>6. Ledger'[k] = Promise!GivenUp(k) BY <2>2, <2>3, <2>4, <2>5, LikeIsEqual
  <2> QED BY <2>1, <2>6 DEF Like
<1>3. ASSUME NEW k \in Job \ S PROVE Ledger'[k] = Ledger[k]
  BY <1>1, ShownAlike
<1>4. Ledger' = [k \in Job |-> Ledger'[k]] BY LedgerShown
<1>5. Ledger' = [k \in Job |-> IF k \in S THEN Promise!GivenUp(k) ELSE Ledger[k]]
  BY <1>2, <1>3, <1>4
<1> QED BY <1>2, <1>5 DEF Promise!Abandon

\* The two reaping statements of a claim.
LEMMA ReapKeepsPromise ==
  ASSUME NEW t, Thread = {t}, IInv, SerialInv, NEW w \in Worker, NEW limit,
         BeginClaim(t, w, limit) \/ ReapExhausted(t)
  PROVE  Promise!Next
<1>1. \A k \in Job : queue[k] \in JobDoc /\ MaxAttempts[k] \in Nat
  BY MaxAttemptsAssumption DEF IInv, DocOK
<1>2. CASE BeginClaim(t, w, limit)
  <2> DEFINE S == {k \in Job : ExpiredLease(queue[k]) /\ ~Exhausted(k, queue[k])}
  <2>1. \A k \in Job : ~Refused(at[t], k) /\ ~Refused(at'[t], k)
    BY <1>2 DEF BeginClaim, Refused, Idle, IInv
  <2>2. \A k \in Job \ S : queue'[k] = queue[k]
    BY <1>2 DEF BeginClaim
  <2>3. \A k \in S : queue'[k] = Requeued(queue[k]) /\ queue[k].status = "running"
                     /\ queue[k].attempts < MaxAttempts[k]
    BY <1>1, <1>2 DEF BeginClaim, ExpiredLease, Exhausted, JobDoc
  <2>4. \A k \in S :
          /\ queue[k].status = "running"
          /\ queue'[k].status = IF queue[k].attempts < MaxAttempts[k] THEN "pending" ELSE "failed"
          /\ queue'[k].attempts = queue[k].attempts /\ queue'[k].worker = NoWorker
          /\ queue'[k].cancel = queue[k].cancel
    <3> TAKE k \in S
    <3>1. /\ Requeued(queue[k]).status = "pending" /\ Requeued(queue[k]).worker = NoWorker
          /\ Requeued(queue[k]).attempts = queue[k].attempts
          /\ Requeued(queue[k]).cancel = queue[k].cancel
      BY <1>1 DEF Requeued, JobDoc
    <3> QED BY <2>3, <3>1
  <2>5. S \in SUBSET Job OBVIOUS
  <2> HIDE DEF S
  <2>6. Promise!Abandon(S) BY <2>1, <2>2, <2>4, <2>5, ReapingAbandons
  <2> QED BY <2>5, <2>6, PromiseSteps
<1>3. CASE ReapExhausted(t)
  <2> DEFINE S == {k \in Job : ExpiredLease(queue[k]) /\ Exhausted(k, queue[k])}
  <2>1. at[t] \in Claiming /\ at[t].back = {}
    BY <1>3, OpOf DEF IInv, SerialInv, HoldsWhatItRefused, ReapExhausted, In
  <2>2. at'[t].back = {} BY <1>3, <2>1 DEF ReapExhausted, IInv, Claiming
  <2>3. \A k \in Job : ~Refused(at[t], k) /\ ~Refused(at'[t], k)
    BY <2>1, <2>2 DEF Refused
  <2>4. \A k \in Job \ S : queue'[k] = queue[k]
    BY <1>3 DEF ReapExhausted
  <2>5. \A k \in S : queue'[k] = DeadLettered(queue[k]) /\ queue[k].status = "running"
                     /\ ~(queue[k].attempts < MaxAttempts[k])
    BY <1>1, <1>3 DEF ReapExhausted, ExpiredLease, Exhausted, JobDoc
  <2>6. \A k \in S :
          /\ queue[k].status = "running"
          /\ queue'[k].status = IF queue[k].attempts < MaxAttempts[k] THEN "pending" ELSE "failed"
          /\ queue'[k].attempts = queue[k].attempts /\ queue'[k].worker = NoWorker
          /\ queue'[k].cancel = queue[k].cancel
    BY <1>1, <2>5 DEF DeadLettered, JobDoc
  <2>7. S \in SUBSET Job OBVIOUS
  <2> HIDE DEF S
  <2>8. Promise!Abandon(S) BY <2>3, <2>4, <2>6, <2>7, ReapingAbandons
  <2> QED BY <2>7, <2>8, PromiseSteps
<1> QED BY <1>2, <1>3

\* A worker that may run the job it is handed pays one try for it.
LEMMA OwnIsGranted ==
  ASSUME NEW t, Thread = {t}, IInv, SerialInv, NEW j \in Job, ClaimOwn(t, j)
  PROVE  Promise!Next
<1> DEFINE c == at[t]
           d == queue[j]
<1>1. /\ c \in Claiming /\ c.worker \in Worker /\ HoldsWhatItRefused(c) /\ c.op = "claim"
      /\ \A h \in c.back : h.job \in Job
  BY OpOf DEF IInv, SerialInv, ClaimOwn, In
<1>2. /\ DocOK(j, d) /\ d.status = "pending" /\ MayRun(c.worker, j)
      /\ queue'[j] = Claimed(d, c.worker) /\ \A k \in Job \ {j} : queue'[k] = queue[k]
  BY DEF IInv, ClaimOwn, NextFor, Claimable, Due
<1>3. at'[t].op = "claim" /\ at'[t].back = c.back
  BY <1>1 DEF ClaimOwn, IInv, Claiming
<1>4. \A k : Refused(at'[t], k) <=> Refused(c, k)
  BY <1>1, <1>3 DEF Refused
<1>5. ~Refused(c, j)
  BY <1>1, <1>2 DEF Refused, HoldsWhatItRefused, HeldBy
<1>6. /\ d.attempts \in Nat /\ d.attempts < MaxAttempts[j] /\ d.worker = NoWorker
      /\ Claimed(d, c.worker).status = "running" /\ Claimed(d, c.worker).worker = c.worker
      /\ Claimed(d, c.worker).attempts = d.attempts + 1 /\ Claimed(d, c.worker).cancel = d.cancel
  BY <1>2 DEF DocOK, JobDoc, Consistent, BudgetKept, HolderMatchesStatus, Claimed
<1>7. /\ Ledger' = [Ledger EXCEPT ![j] = Shown(queue'[j], Refused(at'[t], j))]
      /\ Ledger[j] = Shown(d, Refused(c, j))
  BY <1>2, <1>4, OneEntry
<1>8. Like(Ledger[j], "waiting", d.attempts, NoWorker, d.cancel)
  BY <1>2, <1>5, <1>6, <1>7, Phases, ShownLike
<1>9. Like(Shown(queue'[j], Refused(at'[t], j)), "held", d.attempts + 1, c.worker, d.cancel)
  BY <1>2, <1>4, <1>5, <1>6, Phases, ShownLike
<1>10. Like(Promise!Taken(j, c.worker), "held", d.attempts + 1, c.worker, d.cancel)
  BY <1>8, EntrySteps DEF Promise!Taken
<1>11. Shown(queue'[j], Refused(at'[t], j)) = Promise!Taken(j, c.worker)
  BY <1>9, <1>10, LikeIsEqual
<1>12. Promise!CanTry(j)
  BY <1>6, <1>8 DEF Promise!CanTry, Like
<1>13. <<c.worker, j>> \in {p \in Worker \X Job : MayRun(p[1], p[2])}
  BY <1>1, <1>2
<1>14. Promise!Grant(j, c.worker)
  BY <1>7, <1>11, <1>12, <1>13 DEF Promise!Grant, Promise!Becomes
<1> QED BY <1>1, <1>14, PromiseSteps

\* A refused job goes on waiting, before and after it is handed back.
LEMMA RefusalIsUnseen ==
  ASSUME NEW t, Thread = {t}, IInv, SerialInv,
         (\E j \in Job : ClaimForeign(t, j)) \/ (\E h \in at[t].back : Release(t, h))
  PROVE  Ledger' = Ledger
<1> DEFINE c == at[t]
<1>1. /\ c \in Claiming /\ c.worker \in Worker /\ HoldsWhatItRefused(c) /\ c.op = "claim"
      /\ \A h \in c.back : h.job \in Job /\ DocOK(h.job, h.doc)
  BY OpOf DEF IInv, SerialInv, ClaimForeign, Release, In
<1>2. ASSUME NEW j \in Job, ClaimForeign(t, j) PROVE Ledger' = Ledger
  <2> DEFINE d == queue[j]
             e == Claimed(d, c.worker)
             h == [job |-> j, doc |-> e]
  <2>1. /\ DocOK(j, d) /\ d.status = "pending" /\ queue'[j] = e
        /\ \A k \in Job \ {j} : queue'[k] = queue[k]
    BY <1>2 DEF IInv, ClaimForeign, NextFor, Claimable, Due
  <2>2. at'[t] = [c EXCEPT !.phase = "look", !.seen = NothingSeen, !.back = c.back \cup {h}]
    BY <1>2 DEF ClaimForeign, IInv
  <2>3. h.job = j OBVIOUS
  <2>4. at'[t].op = "claim" /\ at'[t].back = c.back \cup {h}
    <3> HIDE DEF h
    <3> QED BY <1>1, <2>2 DEF Claiming
  <2>5. \A k \in Job : Refused(at'[t], k) <=> Refused(c, k) \/ k = j
    <3> HIDE DEF h
    <3> QED BY <1>1, <2>3, <2>4 DEF Refused
  <2>6. ~Refused(c, j)
    BY <1>1, <2>1 DEF Refused, HoldsWhatItRefused, HeldBy
  <2>7. /\ Ledger' = [Ledger EXCEPT ![j] = Shown(e, Refused(at'[t], j))]
        /\ Ledger[j] = Shown(d, Refused(c, j))
    BY <2>1, <2>5, OneEntry
  <2>8. d.attempts \in Nat /\ d.worker = NoWorker /\ e.attempts = d.attempts + 1
        /\ e.cancel = d.cancel
    BY <2>1 DEF DocOK, JobDoc, Consistent, HolderMatchesStatus, Claimed
  <2>9. Like(Ledger[j], "waiting", d.attempts, NoWorker, d.cancel)
    BY <2>1, <2>6, <2>7, <2>8, Phases, ShownLike
  <2>10. Like(Shown(e, Refused(at'[t], j)), "waiting", d.attempts, NoWorker, d.cancel)
    <3>1. e.attempts - 1 = d.attempts BY <2>8
    <3> HIDE DEF e
    <3> QED BY <2>5, <2>8, <3>1, ShownLike
  <2>11. Shown(e, Refused(at'[t], j)) = Ledger[j] BY <2>9, <2>10, LikeIsEqual
  <2> QED BY <2>7, <2>11 DEF Ledger
<1>3. ASSUME NEW h \in c.back, Release(t, h) PROVE Ledger' = Ledger
  <2> DEFINE j == h.job
             d == queue[j]
             e == Released(h.doc)
  <2>1. /\ j \in Job /\ DocOK(j, h.doc) /\ HeldBy(d, c.worker) /\ View(h.doc) = View(d)
        /\ DocOK(j, d)
    BY <1>1 DEF HoldsWhatItRefused, IInv
  <2>2. queue'[j] = e /\ \A k \in Job \ {j} : queue'[k] = queue[k]
    BY <1>3, <2>1 DEF Release, IInv
  <2>3. at'[t].op = "claim" /\ at'[t].back = c.back \ {h}
    BY <1>1, <1>3 DEF Release, IInv, Claiming
  <2>4. \A k \in Job : Refused(c, k) <=> Refused(at'[t], k) \/ k = j
    BY <1>1, <2>3 DEF Refused
  <2>5. ~Refused(at'[t], j)
    BY <1>1, <2>3 DEF Refused, HoldsWhatItRefused
  <2>6. /\ Ledger' = [Ledger EXCEPT ![j] = Shown(e, Refused(at'[t], j))]
        /\ Ledger[j] = Shown(d, Refused(c, j))
    BY <2>1, <2>2, <2>4, OneEntry
  <2>7. d.status = "running" /\ d.attempts \in Nat /\ d.attempts > 0
    BY <2>1 DEF DocOK, JobDoc, Consistent, HolderMatchesStatus, HeldBy
  <2>8. h.doc.attempts = d.attempts /\ h.doc.cancel = d.cancel
    BY <2>1 DEF View
  <2>9. /\ e.status = "pending" /\ e.worker = NoWorker /\ e.attempts = d.attempts - 1
        /\ e.cancel = d.cancel
    BY <2>1, <2>7, <2>8 DEF Released, DocOK, JobDoc
  <2>10. Like(Ledger[j], "waiting", d.attempts - 1, NoWorker, d.cancel)
    BY <2>1, <2>4, <2>6, ShownLike
  <2>11. Like(Shown(e, Refused(at'[t], j)), "waiting", d.attempts - 1, NoWorker, d.cancel)
    <3> HIDE DEF e
    <3> QED BY <2>5, <2>9, Phases, ShownLike
  <2>12. Shown(e, Refused(at'[t], j)) = Ledger[j] BY <2>10, <2>11, LikeIsEqual
  <2> QED BY <2>6, <2>12 DEF Ledger
<1> QED BY <1>2, <1>3

\* A claimer that dies leaves what it refused charged and held in its name.
LEMMA DeathKeepsPromise ==
  ASSUME NEW t, Thread = {t}, IInv, SerialInv, Die(t)
  PROVE  Promise!Next \/ Ledger' = Ledger
<1> DEFINE c == at[t]
           S == {k \in Job : Refused(c, k)}
<1>1. /\ queue' = queue /\ at'[t] = Idle /\ \A k : ~Refused(at'[t], k)
  BY DEF Die, IInv, Refused, Idle
<1>2. CASE c.op # "claim"
  <2>1. \A k : ~Refused(c, k) BY <1>2 DEF Refused
  <2> QED BY <1>1, <2>1, NothingShown
<1>3. CASE c.op = "claim"
  <2>1. c \in Claiming /\ c.worker \in Worker /\ HoldsWhatItRefused(c)
        /\ \A h \in c.back : h.job \in Job
    BY <1>3, OpOf DEF IInv, SerialInv
  <2>2. \A k \in Job : /\ Ledger[k] = Shown(queue[k], Refused(c, k))
                       /\ Ledger'[k] = Shown(queue[k], Refused(at'[t], k))
    BY <1>1, LedgerShown
  <2>3. ASSUME NEW k \in S PROVE /\ Promise!CanTry(k) /\ ~MayRun(c.worker, k)
                                 /\ Ledger'[k] = Promise!Taken(k, c.worker)
    <3> DEFINE d == queue[k]
    <3>1. HeldBy(d, c.worker) /\ ~MayRun(c.worker, k)
      BY <1>3, <2>1 DEF Refused, HoldsWhatItRefused
    <3>2. /\ d.status = "running" /\ d.worker = c.worker /\ d.attempts \in Nat
          /\ d.attempts <= MaxAttempts[k] /\ MaxAttempts[k] \in Nat
      BY <3>1, MaxAttemptsAssumption
         DEF IInv, DocOK, JobDoc, Consistent, BudgetKept, HeldBy
    <3>3. Like(Ledger[k], "waiting", d.attempts - 1, NoWorker, d.cancel)
      BY <2>2, ShownLike
    <3>4. Like(Ledger'[k], "held", d.attempts, c.worker, d.cancel)
      BY <1>1, <2>2, <3>2, Phases, ShownLike
    <3>5. Like(Promise!Taken(k, c.worker), "held", (d.attempts - 1) + 1, c.worker, d.cancel)
      BY <3>3, EntrySteps DEF Promise!Taken
    <3>6. (d.attempts - 1) + 1 = d.attempts /\ d.attempts - 1 < MaxAttempts[k] BY <3>2
    <3>7. Ledger'[k] = Promise!Taken(k, c.worker) BY <3>4, <3>5, <3>6, LikeIsEqual
    <3>8. Promise!CanTry(k) BY <3>3, <3>6 DEF Promise!CanTry, Like
    <3> QED BY <3>1, <3>7, <3>8
  <2>4. ASSUME NEW k \in Job \ S PROVE Ledger'[k] = Ledger[k]
    BY <1>1, <2>2, ShownAlike
  <2>5. Ledger' = [k \in Job |-> Ledger'[k]] BY LedgerShown
  <2>6. Ledger' = [k \in Job |-> IF k \in S THEN Promise!Taken(k, c.worker) ELSE Ledger[k]]
    BY <2>3, <2>4, <2>5
  <2>7. S \in SUBSET Job OBVIOUS
  <2>8. \A k \in S : Promise!CanTry(k)
                     /\ <<c.worker, k>> \notin {p \in Worker \X Job : MayRun(p[1], p[2])}
    BY <2>3
  <2>9. Promise!Strand(S, c.worker)
    <3> HIDE DEF S
    <3> QED BY <2>6, <2>8 DEF Promise!Strand
  <2> HIDE DEF S
  <2> QED BY <2>1, <2>7, <2>9, PromiseSteps
<1> QED BY <1>2, <1>3

\* Every step of the queue is a step of the promise, or shows nothing.
LEMMA StepKeepsPromise ==
  ASSUME NEW t, Thread = {t}, IInv, SerialInv, [Next]_vars
  PROVE  Promise!Next \/ Ledger' = Ledger
<1>1. CASE \/ \E j \in Job : Request(t, j)
           \/ \E j \in Job, w \in Worker : Report(t, j, w)
  <2>1. PICK o \in Reports \cup {"enqueue", "cancel", "retry"}, j \in Job,
             w \in Worker \cup {NoWorker} : \E d : Read(t, o, j, w, d)
    BY <1>1 DEF Request, Report, BeginEnqueue, BeginCancel, BeginRetry, BeginHeartbeat,
                BeginComplete, BeginFail, Reports
  <2>2. queue' = queue /\ at[t] = Idle /\ at'[t].op # "claim"
    BY <2>1 DEF Read, IInv, Reports
  <2>3. \A k : ~Refused(at[t], k) /\ ~Refused(at'[t], k) BY <2>2 DEF Refused, Idle
  <2> QED BY <2>2, <2>3, NothingShown
<1>2. ASSUME NEW w \in Worker, NEW limit \in 1 .. MaxClaimLimit, BeginClaim(t, w, limit)
      PROVE  Promise!Next
  BY <1>2, ReapKeepsPromise
<1>3. CASE ReapExhausted(t)
  <2>1. at[t].worker \in Worker BY <1>3, OpOf DEF IInv, ReapExhausted, In
  <2> QED BY <1>3, <2>1, ReapKeepsPromise
<1>4. CASE Look(t) \/ EndClaimLoop(t) \/ ReturnClaim(t)
  <2>1. at[t] \in Claiming /\ at[t].op = "claim" /\ queue' = queue
    BY <1>4, OpOf DEF IInv, Look, EndClaimLoop, ReturnClaim, In
  <2>2. CASE Look(t) \/ EndClaimLoop(t)
    <3>1. at'[t].op = "claim" /\ at'[t].back = at[t].back
      BY <2>1, <2>2 DEF Look, EndClaimLoop, IInv, Claiming
    <3> QED BY <2>1, <3>1, NothingShown DEF Refused
  <2>3. CASE ReturnClaim(t)
    <3>1. at[t].back = {} /\ at'[t] = Idle BY <2>3 DEF ReturnClaim, IInv
    <3>2. \A k : ~Refused(at[t], k) /\ ~Refused(at'[t], k) BY <3>1 DEF Refused, Idle
    <3> QED BY <2>1, <3>2, NothingShown
  <2> QED BY <1>4, <2>2, <2>3
<1>5. ASSUME NEW j \in Job, ClaimOwn(t, j) PROVE Promise!Next
  BY <1>5, OwnIsGranted
<1>6. CASE (\E j \in Job : ClaimForeign(t, j))
           \/ (at[t].op = "claim" /\ \E h \in at[t].back : Release(t, h))
  BY <1>6, RefusalIsUnseen
<1>7. CASE Save(t)
  BY <1>7, SaveKeepsPromise
<1>8. CASE Die(t)
  BY <1>8, DeathKeepsPromise
<1>9. ASSUME NEW j \in Job, LeaseRunsOut(j) \/ BecomesDue(j) PROVE Ledger' = Ledger
  <2>1. \A k \in Job : View(queue'[k]) = View(queue[k])
    BY <1>9 DEF LeaseRunsOut, BecomesDue, IInv, DocOK, View, JobDoc
  <2>2. at'[t] = at[t] \/ (at[t].op = "cancel" /\ at'[t] = [at[t] EXCEPT !.doc.lease = "expired"])
    BY <1>9 DEF LeaseRunsOut, BecomesDue
  <2>3. at'[t] = at[t] \/ (at[t].op = "cancel" /\ at'[t].op = "cancel")
    <3>1. CASE at[t].op = "cancel"
      <4>1. at[t] \in Saving BY <3>1, OpOf DEF IInv
      <4> QED BY <2>2, <3>1, <4>1 DEF Saving
    <3>2. CASE at[t].op # "cancel" BY <2>2, <3>2
    <3> QED BY <3>1, <3>2
  <2>4. \A k : Refused(at'[t], k) <=> Refused(at[t], k) BY <2>3 DEF Refused
  <2> QED BY <2>1, <2>4, NothingShown
<1>10. CASE UNCHANGED vars
  <2>1. queue' = queue /\ at' = at BY <1>10 DEF vars
  <2> QED BY <2>1, NothingShown
<1> QED BY <1>1, <1>2, <1>3, <1>4, <1>5, <1>6, <1>7, <1>8, <1>9, <1>10
        DEF Next, Working, ClaimStep

\* One thread, any jobs, workers, budgets, keys, versions and agents, and a death at any
\* point: the queue implements its promise (queue.py 1-28).
THEOREM PromiseIsKept == ASSUME NEW t, Thread = {t} PROVE Spec => KeepsPromise
<1>1. Init => Promise!Init BY PromiseInit
<1>2. IInv /\ SerialInv /\ [Next]_vars => [Promise!Next]_Ledger BY StepKeepsPromise
<1>3. IInv /\ SerialInv /\ [Next]_vars => SerialInv' BY SerialNext
<1> QED BY <1>1, <1>2, <1>3, InitIInv, NextIInv, SerialInit, PTL
        DEF Spec, KeepsPromise, Promise!Spec
=============================================================================
