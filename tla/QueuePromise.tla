---------------------------- MODULE QueuePromise ----------------------------
(***************************************************************************)
(* What the durable queue promises the outside (queue.py 1-28): a job has  *)
(* a phase, and while it is held, a holder and a number of tries.  There   *)
(* are no threads, leases, run times, copies or refused claims here.       *)
(***************************************************************************)
EXTENDS Naturals

CONSTANTS Job, Worker, NoWorker, MaxAttempts,
          Allowed          \* pairs <<w, j>>: w may run j

VARIABLE ledger

Phases == {"absent", "waiting", "held", "completed", "failed", "cancelled"}

Entry == [phase: Phases, holder: Worker \cup {NoWorker}, tries: Nat, stopping: BOOLEAN]

Fresh(p) == [phase |-> p, holder |-> NoWorker, tries |-> 0, stopping |-> FALSE]

Init == ledger = [j \in Job |-> Fresh("absent")]

Becomes(j, e) == ledger' = [ledger EXCEPT ![j] = e]

Submit(j) == ledger[j].phase = "absent" /\ Becomes(j, Fresh("waiting"))

Taken(j, w) == [ledger[j] EXCEPT !.phase = "held", !.holder = w, !.tries = @ + 1]

CanTry(j) == ledger[j].phase = "waiting" /\ ledger[j].tries < MaxAttempts[j]

\* A worker that may run the job gets it, and pays one try.
Grant(j, w) == CanTry(j) /\ <<w, j>> \in Allowed /\ Becomes(j, Taken(j, w))

\* A claimer that was refusing these jobs died before it handed them back.
Strand(S, w) ==
  /\ \A j \in S : CanTry(j) /\ <<w, j>> \notin Allowed
  /\ ledger' = [j \in Job |-> IF j \in S THEN Taken(j, w) ELSE ledger[j]]

\* The holder reports success; a requested stop turns it into a cancellation.
Finish(j, w) ==
  /\ ledger[j].phase = "held" /\ ledger[j].holder = w
  /\ Becomes(j, [ledger[j] EXCEPT !.phase =
                    IF ledger[j].stopping THEN "cancelled" ELSE "completed"])

\* The attempt is over without a result: try again, or fail for good.
GivenUp(j) ==
  [ledger[j] EXCEPT !.phase = IF ledger[j].tries < MaxAttempts[j] THEN "waiting" ELSE "failed",
                    !.holder = NoWorker]

Abandon(S) ==
  /\ \A j \in S : ledger[j].phase = "held"
  /\ ledger' = [j \in Job |-> IF j \in S THEN GivenUp(j) ELSE ledger[j]]

Stopped(j) == [ledger[j] EXCEPT !.phase = "cancelled", !.holder = NoWorker, !.stopping = TRUE]

\* A stop request: at once for a waiting job, and for a held one either asked
\* of the holder or forced; the holder giving up honours it as well.
Stop(j) ==
  \/ ledger[j].phase \in {"waiting", "held"} /\ Becomes(j, Stopped(j))
  \/ ledger[j].phase = "held" /\ Becomes(j, [ledger[j] EXCEPT !.stopping = TRUE])

Resubmit(j) == ledger[j].phase \in {"failed", "cancelled"} /\ Becomes(j, Fresh("waiting"))

Next ==
  \/ \E j \in Job : Submit(j) \/ Stop(j) \/ Resubmit(j)
  \/ \E j \in Job, w \in Worker : Grant(j, w) \/ Finish(j, w)
  \/ \E S \in SUBSET Job : Abandon(S)
  \/ \E S \in SUBSET Job, w \in Worker : Strand(S, w)

Spec == Init /\ [][Next]_ledger
=============================================================================
