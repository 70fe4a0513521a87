----------------------------- MODULE Admission -----------------------------
(***************************************************************************)
(* What lets work into a workspace: the API key (tenancy.py resolve_key),  *)
(* the lifecycle of the workspace (purge.py disable, enable, purge,        *)
(* require_active), its quota and its org's verdict (quotas.py             *)
(* require_admission), on the two paths that ask: an event, which saves a  *)
(* run and then enqueues its turn (turns.py enqueue_event), and a batch of *)
(* jobs (queue.py enqueue_batch).                                          *)
(*                                                                         *)
(* Nothing is held between a check and the write it allows, nor between    *)
(* the steps of an operator's command.                                     *)
(*                                                                         *)
(*   life[w]    the lifecycle row: "absent" (which reads as active),       *)
(*              "active", "disabled", "purged"                             *)
(*   exists     workspaces with a tenancy row     keyed  ... with an API key *)
(*   spent      workspaces whose org's verdict says exhausted (the row     *)
(*              Budgets.tla keeps)                                         *)
(*   runs[w]    admitted runs that are not over   others[w]  runs that were *)
(*              never admitted and count all the same (sub-runs, ingested) *)
(*   jobs[w]    pending jobs as enqueued          again[w]   pending again *)
(*              after an attempt                  busy[w]    running       *)
(*   req[c]     the request of a client           op[p]      the command of *)
(*              an operator                                                *)
(* and bookkeeping: torn, batches refused half way although nobody touched *)
(* their workspace since they came in.                                     *)
(***************************************************************************)
EXTENDS Integers, FiniteSets

CONSTANTS Workspace, Client, Operator, NoWorkspace,
          MaxRuns, MaxDepth,     \* the quota policy
          MaxBatch, MaxFree      \* bounds: items of a batch; unadmitted runs, running jobs

ASSUME AdmissionAssumption ==
  /\ IsFiniteSet(Client) /\ Client # {} /\ NoWorkspace \notin Workspace
  /\ {MaxRuns, MaxDepth, MaxBatch} \subseteq Nat \ {0} /\ MaxFree \in Nat

VARIABLES life, exists, keyed, spent, runs, others, jobs, again, busy, req, op, torn

tenancy == <<life, exists, keyed, spent>>
work == <<runs, others, jobs, again, busy>>
vars == <<tenancy, work, req, op, torn>>
-----------------------------------------------------------------------------
NoRequest == [pc |-> "idle", w |-> NoWorkspace, for |-> "run", left |-> 0, seen |-> 0,
              begun |-> FALSE, raced |-> FALSE]
NoCommand == [pc |-> "idle", w |-> NoWorkspace]

\* lifecycle: absent means active.
Active(w) == life[w] \in {"absent", "active"}

\* What run_counts and queue_counts return.
LiveRuns(w) == runs[w] + others[w]
Depth(w) == jobs[w] + again[w]

\* Slip: one more than the limit is let in.
WithinInclusive(n, limit) == n <= limit

\* check_admission: at its ceiling is a violation.
Within(n, limit) == n < limit

\* A batch sees the state of its workspace change under it.
Touched(w) == [c \in Client |-> IF req[c].w = w THEN [req[c] EXCEPT !.raced = TRUE] ELSE req[c]]
Goes(c, r) == req' = [req EXCEPT ![c] = r]
More(f, w) == [f EXCEPT ![w] = @ + 1]
Less(f, w) == [f EXCEPT ![w] = @ - 1]

Init ==
  /\ life = [w \in Workspace |-> "absent"]
  /\ exists = Workspace /\ keyed = Workspace /\ spent = {}
  /\ runs = [w \in Workspace |-> 0] /\ others = [w \in Workspace |-> 0]
  /\ jobs = [w \in Workspace |-> 0] /\ again = [w \in Workspace |-> 0]
  /\ busy = [w \in Workspace |-> 0]
  /\ req = [c \in Client |-> NoRequest] /\ op = [p \in Operator |-> NoCommand]
  /\ torn = {}

(* Requests. *)

\* enqueue_event, for the bearer of a key.
PostEvent(c, w) ==
  /\ req[c].pc = "idle" /\ w \in keyed
  /\ Goes(c, [NoRequest EXCEPT !.pc = "active", !.w = w, !.for = "run", !.raced = TRUE])
  /\ UNCHANGED <<tenancy, work, op, torn>>

\* enqueue_batch of n jobs.
PostBatch(c, w, n) ==
  /\ req[c].pc = "idle" /\ w \in keyed
  /\ Goes(c, [NoRequest EXCEPT !.pc = "counting", !.w = w, !.for = "batch", !.left = n])
  /\ UNCHANGED <<tenancy, work, op, torn>>

\* Slip: the batch is admitted as one job.
ChargeOne(c) ==
  LET r == req[c] IN
  /\ r.pc = "counting"
  /\ Goes(c, [r EXCEPT !.pc = "active", !.seen = Depth(r.w)])
  /\ UNCHANGED <<tenancy, work, op, torn>>

\* The batch is charged up front, against the depth it would produce.
ChargeBatch(c) ==
  LET r == req[c] IN
  /\ r.pc = "counting"
  /\ Goes(c, [r EXCEPT !.pc = "active", !.seen = Depth(r.w) + r.left - 1])
  /\ UNCHANGED <<tenancy, work, op, torn>>

\* The 429 or 403 answer; items enqueued before it stay enqueued.
Refused(c) ==
  /\ Goes(c, NoRequest)
  /\ torn' = IF req[c].for = "item" /\ req[c].begun /\ ~req[c].raced
             THEN torn \cup {c} ELSE torn

\* require_active, at the head of require_admission ...
RequireActive(c) ==
  /\ req[c].pc = "active"
  /\ IF Active(req[c].w) THEN Goes(c, [req[c] EXCEPT !.pc = "usage"]) /\ UNCHANGED torn
                         ELSE Refused(c)
  /\ UNCHANGED <<tenancy, work, op>>

Admissible(r) ==
  /\ r.for = "run"   => Within(LiveRuns(r.w), MaxRuns)
  /\ r.for = "batch" => Within(r.seen, MaxDepth)
  /\ r.for = "item"  => Within(Depth(r.w), MaxDepth)
  /\ r.w \notin spent

\* ... and check_admission: the count, and then the verdict of the org.  A batch that
\* passes asks again for each of its items.
CheckUsage(c) ==
  LET r == req[c] IN
  /\ r.pc = "usage"
  /\ IF Admissible(r)
     THEN /\ Goes(c, IF r.for = "batch" THEN [r EXCEPT !.pc = "active", !.for = "item", !.seen = 0]
                                        ELSE [r EXCEPT !.pc = "saving"])
          /\ UNCHANGED torn
     ELSE Refused(c)
  /\ UNCHANGED <<tenancy, work, op>>

\* save_run; its turn is then enqueued as any job is.
SaveRun(c) ==
  LET r == req[c] IN
  /\ r.pc = "saving" /\ r.for = "run"
  /\ runs' = More(runs, r.w)
  /\ req' = [Touched(r.w) EXCEPT ![c] = [r EXCEPT !.pc = "active", !.for = "item", !.left = 1]]
  /\ UNCHANGED <<tenancy, others, jobs, again, busy, op, torn>>

\* queue_save of one item.
SaveJob(c) ==
  LET r == req[c] IN
  /\ r.pc = "saving" /\ r.for = "item"
  /\ jobs' = More(jobs, r.w)
  /\ req' = [Touched(r.w) EXCEPT ![c] =
               IF r.left = 1 THEN NoRequest
               ELSE [r EXCEPT !.pc = "active", !.left = @ - 1, !.begun = TRUE]]
  /\ UNCHANGED <<tenancy, runs, others, again, busy, op, torn>>

\* The api process dies, or its client goes away.
Abandon(c) ==
  /\ req[c].pc # "idle"
  /\ Goes(c, NoRequest)
  /\ UNCHANGED <<tenancy, work, op, torn>>

(* Work goes on: a claim looks at neither the lifecycle nor the quota. *)

Claim(w) ==
  /\ busy[w] < MaxFree
  /\ \/ jobs[w] > 0 /\ jobs' = Less(jobs, w) /\ UNCHANGED again
     \/ again[w] > 0 /\ again' = Less(again, w) /\ UNCHANGED jobs
  /\ busy' = More(busy, w)
  /\ UNCHANGED <<tenancy, runs, others, req, op, torn>>

JobEnds(w) ==
  /\ busy[w] > 0
  /\ busy' = Less(busy, w)
  /\ UNCHANGED <<tenancy, runs, others, jobs, again, req, op, torn>>

\* fail with attempts left, or the reaper: pending again, and never refused.
Requeue(w) ==
  /\ busy[w] > 0
  /\ busy' = Less(busy, w) /\ again' = More(again, w)
  /\ req' = Touched(w)
  /\ UNCHANGED <<tenancy, runs, others, jobs, op, torn>>

RunEnds(w) ==
  /\ \/ runs[w] > 0 /\ runs' = Less(runs, w) /\ UNCHANGED others
     \/ others[w] > 0 /\ others' = Less(others, w) /\ UNCHANGED runs
  /\ UNCHANGED <<tenancy, jobs, again, busy, req, op, torn>>

\* An external agent's run, saved as it comes.
IngestRun(w) ==
  /\ w \in keyed /\ others[w] < MaxFree
  /\ others' = More(others, w)
  /\ req' = Touched(w)
  /\ UNCHANGED <<tenancy, runs, jobs, again, busy, op, torn>>

\* orgs.reconcile writes its verdict, on record or not what the workspace is by now.
Verdict(w, exhausted) ==
  /\ spent' = IF exhausted THEN spent \cup {w} ELSE spent \ {w}
  /\ spent' # spent
  /\ req' = Touched(w)
  /\ UNCHANGED <<life, exists, keyed, work, op, torn>>

(* Operators. *)

Commands(p, pc, w) == op' = [op EXCEPT ![p] = [pc |-> pc, w |-> w]]
Done(p) == op' = [op EXCEPT ![p] = NoCommand]

\* create_api_key, for a workspace in any state.
MintKey(w) ==
  /\ w \in exists
  /\ keyed' = keyed \cup {w}
  /\ UNCHANGED <<life, exists, spent, work, req, op, torn>>

\* disable: the row is written whatever it holds ...
Disable(p, w) ==
  /\ op[p].pc = "idle"
  /\ life' = [life EXCEPT ![w] = "disabled"]
  /\ Commands(p, "revoking", w) /\ req' = Touched(w)
  /\ UNCHANGED <<exists, keyed, spent, work, torn>>

\* ... and its keys are revoked.
RevokeKeys(p) ==
  /\ op[p].pc = "revoking"
  /\ keyed' = keyed \ {op[p].w}
  /\ Done(p)
  /\ UNCHANGED <<life, exists, spent, work, req, torn>>

\* enable: refused on a purged workspace ...
BeginEnable(p, w) ==
  /\ op[p].pc = "idle" /\ life[w] # "purged"
  /\ Commands(p, "enabling", w)
  /\ UNCHANGED <<tenancy, work, req, torn>>

\* ... and written blindly.
WriteEnabled(p) ==
  /\ op[p].pc = "enabling"
  /\ life' = [life EXCEPT ![op[p].w] = "active"]
  /\ Done(p) /\ req' = Touched(op[p].w)
  /\ UNCHANGED <<exists, keyed, spent, work, torn>>

\* purge: of a disabled workspace after its window, or of any by force.  The key is
\* destroyed and the objects deleted before anything modelled here.
BeginPurge(p, w, force) ==
  /\ op[p].pc = "idle" /\ (force \/ life[w] = "disabled")
  /\ Commands(p, "rows", w)
  /\ UNCHANGED <<tenancy, work, req, torn>>

\* The rows of runs and jobs go ...
DeleteRows(p) ==
  LET w == op[p].w IN
  /\ op[p].pc = "rows"
  /\ runs' = [runs EXCEPT ![w] = 0] /\ others' = [others EXCEPT ![w] = 0]
  /\ jobs' = [jobs EXCEPT ![w] = 0] /\ again' = [again EXCEPT ![w] = 0]
  /\ busy' = [busy EXCEPT ![w] = 0]
  /\ Commands(p, "policy", w)
  /\ UNCHANGED <<tenancy, req, torn>>

\* ... the policies with them, the lifecycle among these ...
DeletePolicy(p) ==
  LET w == op[p].w IN
  /\ op[p].pc = "policy"
  /\ life' = [life EXCEPT ![w] = "absent"] /\ spent' = spent \ {w}
  /\ Commands(p, "tenancy", w)
  /\ UNCHANGED <<exists, keyed, work, req, torn>>

\* Slip: the workspace goes without its keys.
DeleteWorkspaceOnly(p) ==
  LET w == op[p].w IN
  /\ op[p].pc = "tenancy"
  /\ exists' = exists \ {w}
  /\ Commands(p, "recording", w)
  /\ UNCHANGED <<life, keyed, spent, work, req, torn>>

\* ... then keys, members and the workspace ...
DeleteTenancy(p) ==
  LET w == op[p].w IN
  /\ op[p].pc = "tenancy"
  /\ keyed' = keyed \ {w} /\ exists' = exists \ {w}
  /\ Commands(p, "recording", w)
  /\ UNCHANGED <<life, spent, work, req, torn>>

\* ... and the purge is put on record.
RecordPurge(p) ==
  LET w == op[p].w IN
  /\ op[p].pc = "recording"
  /\ life' = [life EXCEPT ![w] = "purged"]
  /\ Done(p) /\ req' = Touched(w)
  /\ UNCHANGED <<exists, keyed, spent, work, torn>>

\* The operator's process dies between two steps.
OpDies(p) ==
  /\ op[p].pc # "idle"
  /\ Done(p)
  /\ UNCHANGED <<tenancy, work, req, torn>>
-----------------------------------------------------------------------------
Next ==
  \/ \E c \in Client :
       \/ \E w \in Workspace : PostEvent(c, w) \/ \E n \in 1 .. MaxBatch : PostBatch(c, w, n)
       \/ ChargeBatch(c) \/ RequireActive(c) \/ CheckUsage(c)
       \/ SaveRun(c) \/ SaveJob(c) \/ Abandon(c)
  \/ \E w \in Workspace :
       \/ Claim(w) \/ JobEnds(w) \/ Requeue(w) \/ RunEnds(w) \/ IngestRun(w) \/ MintKey(w)
       \/ \E exhausted \in BOOLEAN : Verdict(w, exhausted)
  \/ \E p \in Operator :
       \/ \E w \in Workspace : \/ Disable(p, w) \/ BeginEnable(p, w)
                               \/ \E force \in BOOLEAN : BeginPurge(p, w, force)
       \/ RevokeKeys(p) \/ WriteEnabled(p) \/ DeleteRows(p) \/ DeletePolicy(p)
       \/ DeleteTenancy(p) \/ RecordPurge(p) \/ OpDies(p)

Spec == Init /\ [][Next]_vars
-----------------------------------------------------------------------------
Request == [pc: {"idle", "counting", "active", "usage", "saving"},
            w: Workspace \cup {NoWorkspace}, for: {"run", "batch", "item"},
            left: Nat, seen: Nat, begun: BOOLEAN, raced: BOOLEAN]
Command == [pc: {"idle", "revoking", "enabling", "rows", "policy", "tenancy", "recording"},
            w: Workspace \cup {NoWorkspace}]

TypeOK ==
  /\ life \in [Workspace -> {"absent", "active", "disabled", "purged"}]
  /\ exists \subseteq Workspace /\ keyed \subseteq exists /\ spent \subseteq Workspace
  /\ runs \in [Workspace -> Nat] /\ others \in [Workspace -> Nat]
  /\ jobs \in [Workspace -> Nat] /\ again \in [Workspace -> Nat] /\ busy \in [Workspace -> Nat]
  /\ req \in [Client -> Request] /\ op \in [Operator -> Command]
  /\ torn \subseteq Client

\* Every client about to save this was counted before the others saved.
Saving(w, what) == {c \in Client : req[c].pc = "saving" /\ req[c].w = w /\ req[c].for = what}

\* However many requests pass the same count at once, a workspace never has more
\* admitted runs, nor more freshly enqueued jobs, than its quota and one for every
\* other request under way (quotas.py check_admission, whose count and whose caller's
\* write are apart).
AdmissionBounded ==
  \A w \in Workspace : /\ runs[w] <= MaxRuns - 1 + Cardinality(Client)
                       /\ jobs[w] <= MaxDepth - 1 + Cardinality(Client)

\* A batch is accepted or refused whole: one is refused half way only where another
\* request, a retry, an operator or the reconciler changed its workspace meanwhile
\* (queue.py enqueue_batch, "admitted or refused as a unit").
BatchIsAUnit == torn = {}

\* A purged workspace stays purged: no command makes it take work again (purge.py
\* enable, "Refuses on a purged workspace, which cannot be undone"; require_active, "A
\* purged workspace cannot be restored").
\* It does not hold: see "Disagreements" in README.md.
PurgedStaysPurged ==
  [][\A w \in Workspace : life[w] = "purged" => life'[w] \notin {"active", "absent"}]_life
=============================================================================
