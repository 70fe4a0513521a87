------------------------------ MODULE QueueJob ------------------------------
(***************************************************************************)
(* One durable queue job as the store keeps it, and what each operation of *)
(* queue.py and each queue statement of the store does to that document.   *)
(* The operators are pure: a module that composes them decides which steps *)
(* are atomic and which are a read followed, later, by a blind save.       *)
(*                                                                         *)
(* Clock values are abstracted to what the code compares them with: a      *)
(* lease is "live" or "expired" (leaseExpiresAt against now), a runAt is   *)
(* "due" or "later".  The payload, error texts and timestamps are left out.*)
(***************************************************************************)
EXTENDS Naturals

CONSTANTS Job,          \* job ids
          Worker,       \* worker ids a report or a claim may name
          NoWorker,     \* workerId = None
          MaxAttempts   \* [Job -> attempt budget]

ASSUME NoWorkerAssumption == NoWorker \notin Worker
ASSUME MaxAttemptsAssumption == MaxAttempts \in [Job -> Nat \ {0}]

Status == {"absent", "pending", "running", "completed", "failed", "cancelled"}
Terminal == {"completed", "failed", "cancelled"}

JobDoc == [status  : Status,
           attempts: Nat,
           worker  : Worker \cup {NoWorker},
           lease   : {"none", "live", "expired"},
           runAt   : {"due", "later"},
           cancel  : BOOLEAN,      \* cancelRequested
           dead    : BOOLEAN]      \* deadLetter

\* A document nobody has worked on.
Blank(status, when) ==
  [status |-> status, attempts |-> 0, worker |-> NoWorker, lease |-> "none",
   runAt |-> when, cancel |-> FALSE, dead |-> FALSE]

\* No row with this id.
AbsentDoc == Blank("absent", "due")

\* The document enqueue() writes; delaySeconds decides runAt.
Enqueued(when) == Blank("pending", when)

\* _check_holder: the report comes from the worker the row names.
HeldBy(d, w) == d.status = "running" /\ d.worker = w

\* Slip: leaseExpiresAt is not compared with now.
ExpiredWhileRunning(d) == d.status = "running"

ExpiredLease(d) == d.status = "running" /\ d.lease = "expired"

\* Slip: one attempt too many.
ExhaustedLate(j, d) == d.attempts > MaxAttempts[j]

Exhausted(j, d) == d.attempts >= MaxAttempts[j]

\* queue_reap, its two UPDATEs on a row whose lease is over: back to the queue
\* while attempts are left, dead-lettered when there are none.
\* Slips: the requeued job starts afresh; exhausted jobs are not touched.
RequeuedAfresh(d) == [Blank("pending", "due") EXCEPT !.attempts = d.attempts]
Requeued(d) == [d EXCEPT !.status = "pending", !.worker = NoWorker, !.lease = "none",
                         !.runAt = "due"]

DeadLetteredNever(d) == d
DeadLettered(d) == [d EXCEPT !.status = "failed", !.worker = NoWorker, !.lease = "none",
                             !.dead = TRUE]

\* queue_claim_one on the row it picked.
Claimed(d, w) == [d EXCEPT !.status = "running", !.worker = w, !.lease = "live",
                           !.attempts = @ + 1]

\* Slip: the rollback of the attempt is missing.
ReleasedCharged(d) ==
  [d EXCEPT !.status = "pending", !.worker = NoWorker, !.lease = "none"]

\* The document claim() writes back for a job the caller may not run.
Released(d) == [d EXCEPT !.status = "pending", !.worker = NoWorker,
                         !.lease = "none",
                         !.attempts = IF @ = 0 THEN 0 ELSE @ - 1]

Heartbeaten(d) == [d EXCEPT !.lease = "live"]

\* Slip: the late result wins over a requested cancellation.
CompletedAnyway(d) == [d EXCEPT !.status = "completed", !.lease = "none"]

Completed(d) == [d EXCEPT !.status = IF d.cancel THEN "cancelled" ELSE "completed",
                          !.lease = "none"]

\* Slip: the exhausted job is failed without being dead-lettered.
FailedUnmarked(j, d) ==
  [d EXCEPT !.worker = NoWorker, !.lease = "none",
            !.status = IF d.cancel THEN "cancelled" ELSE IF Exhausted(j, d) THEN "failed" ELSE "pending",
            !.runAt = "later"]

\* fail(): a requested cancellation wins over the retry budget.
Failed(j, d) ==
  LET freed == [d EXCEPT !.worker = NoWorker, !.lease = "none"]
  IN  IF d.cancel THEN [freed EXCEPT !.status = "cancelled"]
      ELSE IF Exhausted(j, d) THEN [freed EXCEPT !.status = "failed", !.dead = TRUE]
      ELSE [freed EXCEPT !.status = "pending", !.runAt = "later"]

\* cancel(): terminal documents are written back as they were read.
Cancelled(d, force) ==
  CASE d.status = "pending" -> [d EXCEPT !.status = "cancelled", !.cancel = TRUE]
    [] d.status = "running" /\ force ->
         [d EXCEPT !.status = "cancelled", !.cancel = TRUE, !.worker = NoWorker,
                   !.lease = "none"]
    [] d.status = "running" /\ ~force -> [d EXCEPT !.cancel = TRUE]
    [] OTHER -> d

Retried(d) == Enqueued("due")

(***************************************************************************)
(* Consistency of one document: the relations between its fields that      *)
(* every reader of the row relies on.                                      *)
(***************************************************************************)
BudgetKept(j, d) ==
  /\ d.attempts <= MaxAttempts[j]
  /\ d.status = "pending" => d.attempts < MaxAttempts[j]
  /\ d.status = "failed"  => d.attempts = MaxAttempts[j]

HolderMatchesStatus(d) ==
  /\ d.status = "running" <=> d.lease # "none"
  /\ d.status = "running" => d.worker # NoWorker /\ d.attempts > 0
  /\ d.status \in {"absent", "pending", "failed"} => d.worker = NoWorker

OutcomeMatchesFlags(d) ==
  /\ d.dead <=> d.status = "failed"
  /\ d.status = "cancelled" => d.cancel
  /\ d.status = "completed" => ~d.cancel

Consistent(j, d) ==
  /\ BudgetKept(j, d)
  /\ HolderMatchesStatus(d)
  /\ OutcomeMatchesFlags(d)
=============================================================================
