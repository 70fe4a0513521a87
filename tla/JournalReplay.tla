--------------------------- MODULE JournalReplay ---------------------------
(***************************************************************************)
(* How a paused run continues (sdk/context.py, runtime/engine.py): a       *)
(* handler makes its calls through ctx, each completed call is journaled   *)
(* under its ordinal with the key of what was asked, an approval request   *)
(* suspends the run, and once a human has granted it the engine executes   *)
(* its action and runs the handler again from the start, answering from    *)
(* the journal what the journal knows.  In between, operators change the   *)
(* permissions of tools and other runs write the memory that pinned        *)
(* arguments are taken from.                                               *)
(*                                                                         *)
(* A handler is any function from what it has been told to its next call;  *)
(* one process works on the run and does not die (AgentRuns has deaths and *)
(* overlaps, for a handler whose calls never change).                      *)
(*                                                                         *)
(*   handler     the code of the run's version                             *)
(*   permission  what a tool's permission resolves to now                  *)
(*   mem         the memory cell pins read and adoptions write             *)
(*   status      of the run             journal[s]  its entry at ordinal s *)
(*   approval    the run's approvals, the last one being pendingApproval   *)
(*   body        the call whose implementation is running, if any          *)
(*   told        what the handler was told in this pass, call by call      *)
(*   changes     interventions from outside so far                         *)
(* and bookkeeping:                                                        *)
(*   tape        what it had been told in the pass that paused             *)
(*   steady      since the resume, every call on the tape would be made    *)
(*               the same way                                              *)
(*   log         the calls that were executed and completed, in order      *)
(***************************************************************************)
EXTENDS Integers, Sequences

CONSTANTS Tool, Pinned, Adopting,  \* tools; with a pinned argument; with an adopted result
          Value, NoValue,          \* arguments, results and memory
          Handler, Asks(_, _),     \* handlers and the next call of each
          MaxCalls, MaxChanges     \* bounds: calls of a pass, interventions

Kind == {"call", "note", "gate"}
Ask == [kind : Kind \cup {"return", "raise"}, id : Tool, arg : Value]

Errors == {"denied", "failed", "drift"}
Outcome == Value \cup Errors

ASSUME ToolAssumption == Pinned \subseteq Tool /\ Adopting \subseteq Tool
ASSUME ValueAssumption == NoValue \notin Value /\ Value \cap Errors = {}
ASSUME BoundAssumption == MaxCalls \in Nat /\ MaxChanges \in Nat
ASSUME AskAssumption ==
  \A h \in Handler, n \in 0 .. MaxCalls : \A s \in [1 .. n -> Outcome] : Asks(h, s) \in Ask
\* Bound: a handler that was told MaxCalls things makes no further call.
ASSUME LengthAssumption ==
  \A h \in Handler : \A s \in [1 .. MaxCalls -> Outcome] : Asks(h, s).kind \notin Kind

VARIABLES handler, permission, mem, status, journal, approval, body, told, changes,
          tape, steady, log

world == <<permission, mem>>
run == <<status, journal, approval>>
vars == <<handler, world, run, body, told, changes, tape, steady, log>>
-----------------------------------------------------------------------------
Ordinal == 0 .. MaxCalls
Permission == {"allowed", "read_only", "approval_required", "disabled"}
Callable == {"allowed", "read_only"}

Key == [kind : Kind, id : Tool, arg : Value \cup {NoValue}, permission : Permission \cup {"none"}]
NoKey == [kind |-> "none", id |-> "none", arg |-> NoValue, permission |-> "none"]

\* What a handler was told: the outcome of a call, its key and the ordinal then.
Item == [seq : Ordinal, key : Key, outcome : Outcome]

Entry == [status : {"absent", "done", "pending", "approved", "rejected"},
          key : Key \cup {NoKey}, answer : Value \cup {NoValue}, approval : Nat]
NoEntry == [status |-> "absent", key |-> NoKey, answer |-> NoValue, approval |-> 0]

ApprovalDoc == [status : {"pending", "approved", "rejected"}, question : Key,
                answer : Value \cup {NoValue}]

Idle == [pc |-> "idle", arg |-> NoValue, key |-> NoKey]
Running(arg, key) == [pc |-> "running", arg |-> arg, key |-> key]

Outcomes(items) == [i \in DOMAIN items |-> items[i].outcome]

\* ctx._seq after these items: a call that prepare refuses takes no ordinal.
SeqAfter(items) ==
  IF items = <<>> THEN 0
  ELSE LET last == items[Len(items)] IN
       IF last.outcome = "denied" THEN last.seq ELSE last.seq + 1

\* The next call of a handler that was told these items.
NextCall(items) == Asks(handler, Outcomes(items))

\* Slip: the data hashed includes what is minted on every invocation (loopId).
ContentKeyWithLoop(ask) ==
  [kind |-> ask.kind, id |-> ask.id,
   arg |-> CASE ask.kind = "call" /\ ask.id \in Pinned -> mem
             [] ask.kind = "note" \/ (ask.kind = "call" /\ approval # <<>>) -> NoValue
             [] OTHER -> ask.arg,
   permission |-> IF ask.kind = "call" THEN permission[ask.id] ELSE "none"]

\* content_key: kind, label and data.  The data of a tool call are its input, with
\* the pins filled in, and its permission; those of ctx.memory.set are empty.
ContentKey(ask) ==
  [kind |-> ask.kind, id |-> ask.id,
   arg |-> CASE ask.kind = "call" /\ ask.id \in Pinned -> mem
             [] ask.kind = "note" -> NoValue
             [] OTHER -> ask.arg,
   permission |-> IF ask.kind = "call" THEN permission[ask.id] ELSE "none"]

Refused(key) == key.kind = "call" /\ key.permission \notin Callable

\* What the calls on the tape depended on is as it was: the tools' permissions and
\* the memory behind the pins.  (A call that raised is not journaled; its replay
\* executes it again.)
SameWorld ==
  \A i \in DOMAIN tape :
    LET key == tape[i].key IN
    /\ tape[i].outcome # "failed"
    /\ key.kind = "call" => key.permission = permission[key.id]
    /\ key.kind = "call" /\ key.id \in Pinned => key.arg = mem

StaysSteady == steady' = (steady /\ SameWorld')

Init ==
  /\ handler \in Handler
  /\ permission \in [Tool -> Permission] /\ mem \in Value
  /\ status = "running" /\ journal = [s \in Ordinal |-> NoEntry] /\ approval = <<>>
  /\ body = Idle /\ told = <<>> /\ changes = 0
  /\ tape = <<>> /\ steady = TRUE /\ log = <<>>

(* The handler's calls. *)

\* The handler is about to make this call, and that is its content key.
Calling(ask, key) ==
  /\ status = "running" /\ body = Idle
  /\ ask = NextCall(told) /\ ask.kind \in Kind
  /\ key = ContentKey(ask)

\* The handler is told this, and goes on.
Tell(outcome, key) ==
  told' = Append(told, [seq |-> SeqAfter(told), key |-> key, outcome |-> outcome])

\* prepare: a tool that is disabled, or needs an approval, or whose connection is
\* missing or too narrow, raises before the call takes an ordinal.
Refuse(ask, key) ==
  /\ Calling(ask, key) /\ Refused(key)
  /\ Tell("denied", key)
  /\ UNCHANGED <<handler, world, run, body, changes, tape, log>> /\ StaysSteady

\* The call has passed prepare and finds e at its ordinal.
Looking(ask, key, e) ==
  /\ Calling(ask, key) /\ ~Refused(key)
  /\ e = journal[SeqAfter(told)]

\* Slip: the entry at the ordinal answers whatever is asked there.
RecallByOrdinal(ask, key, e) ==
  /\ Looking(ask, key, e) /\ ask.kind # "gate"
  /\ e.status = "done"
  /\ Tell(e.answer, key)
  /\ UNCHANGED <<handler, world, run, body, changes, tape, log>> /\ StaysSteady

\* _replay: a completed entry with this key answers the call ...
Recall(ask, key, e) ==
  /\ Looking(ask, key, e) /\ ask.kind # "gate"
  /\ e.status = "done" /\ e.key = key
  /\ Tell(e.answer, key)
  /\ UNCHANGED <<handler, world, run, body, changes, tape, log>> /\ StaysSteady

\* ... one with another key raises E_JOURNAL_DRIFT ...
Drift(ask, key, e) ==
  /\ Looking(ask, key, e) /\ ask.kind # "gate"
  /\ e.status = "done" /\ e.key # key
  /\ Tell("drift", key)
  /\ UNCHANGED <<handler, world, run, body, changes, tape, log>> /\ StaysSteady

\* ... and with none, or one that is not "done", the call is executed.
Begin(ask, key, e) ==
  /\ Looking(ask, key, e) /\ ask.kind # "gate"
  /\ e.status # "done"
  /\ body' = Running(ask.arg, key)
  /\ UNCHANGED <<handler, world, run, told, changes, tape, log>> /\ StaysSteady

\* _apply_adoption: what tool t returned goes to memory.
Adopted(t, v) == IF t \in Adopting THEN v ELSE mem

\* The implementation returns v and _commit records it over whatever is at the
\* ordinal; ctx.memory.set returns what it was given.
Commit(v) ==
  /\ body.pc = "running"
  /\ body.key.kind = "note" => v = body.arg
  /\ mem' = IF body.key.kind = "note" THEN v ELSE Adopted(body.key.id, v)
  /\ journal' = [journal EXCEPT ![SeqAfter(told)] =
       [status |-> "done", key |-> body.key, answer |-> v, approval |-> 0]]
  /\ Tell(v, body.key)
  /\ log' = Append(log, [seq |-> SeqAfter(told), key |-> body.key, outcome |-> v])
  /\ body' = Idle
  /\ UNCHANGED <<handler, permission, status, approval, changes, tape>> /\ StaysSteady

\* It raises: the ordinal is taken and nothing is recorded.
Fail ==
  /\ body.pc = "running"
  /\ Tell("failed", body.key)
  /\ body' = Idle
  /\ UNCHANGED <<handler, world, run, changes, tape, log>> /\ StaysSteady

(* Approvals. *)

\* _request_approval: nothing is recorded yet, the run is suspended.  (No handler
\* runs while an entry is pending, nor after one was rejected.)
Suspend(ask, key, e) ==
  /\ Looking(ask, key, e) /\ ask.kind = "gate"
  /\ e.status = "absent"
  /\ approval' = Append(approval, [status |-> "pending", question |-> key, answer |-> NoValue])
  /\ journal' = [journal EXCEPT ![SeqAfter(told)] =
       [status |-> "pending", key |-> key, answer |-> NoValue, approval |-> Len(approval')]]
  /\ status' = "waiting_approval"
  /\ tape' = told /\ steady' = FALSE
  /\ UNCHANGED <<handler, world, body, told, changes, log>>

\* The entry is of another request.
GateDrift(ask, key, e) ==
  /\ Looking(ask, key, e) /\ ask.kind = "gate"
  /\ e.status # "absent" /\ e.key # key
  /\ Tell("drift", key)
  /\ UNCHANGED <<handler, world, run, body, changes, tape, log>> /\ StaysSteady

\* The entry is this question, granted: its answer is returned.
PassGate(ask, key, e) ==
  /\ Looking(ask, key, e) /\ ask.kind = "gate"
  /\ e.status = "approved" /\ e.key = key
  /\ Tell(e.answer, key)
  /\ UNCHANGED <<handler, world, run, body, changes, tape, log>> /\ StaysSteady

\* The handler returns or lets an error out.
Finish ==
  /\ status = "running" /\ body = Idle
  /\ NextCall(told).kind \notin Kind
  /\ status' = IF NextCall(told).kind = "return" THEN "completed" ELSE "failed"
  /\ UNCHANGED <<handler, world, journal, approval, body, told, changes, tape, log>>
  /\ StaysSteady

\* The question the run waits for.
Pending == approval[Len(approval)]

\* The entries with the last approval resolved like this (_find_approval_entry).
Resolved(outcome, answer) ==
  [s \in Ordinal |->
     IF journal[s].approval = Len(approval)
     THEN [journal[s] EXCEPT !.status = outcome, !.answer = answer] ELSE journal[s]]

\* Slip: the approved action is journaled like any call, at the next ordinal.
ApproveJournaled(v) ==
  /\ status = "waiting_approval" /\ Pending.status = "pending"
  /\ permission[Pending.question.id] # "disabled"
  /\ mem' = Adopted(Pending.question.id, v)
  /\ approval' = [approval EXCEPT ![Len(approval)].status = "approved",
                                  ![Len(approval)].answer = v]
  /\ journal' = [Resolved("approved", v) EXCEPT ![0] = [status |-> "done", answer |-> v, approval |-> 0,
       key |-> [Pending.question EXCEPT !.kind = "call", !.permission = "allowed"]]]
  /\ status' = "running" /\ told' = <<>>
  /\ UNCHANGED <<handler, permission, body, changes, tape, log>>
  /\ steady' = SameWorld'

\* engine.approve: the action is executed through prepare(approved=True), which a
\* kill switch still refuses, and returns v; the approval, then the entry, are
\* resolved, and the handler is run again from its first line.
Approve(v) ==
  /\ status = "waiting_approval" /\ Pending.status = "pending"
  /\ permission[Pending.question.id] # "disabled"
  /\ mem' = Adopted(Pending.question.id, v)
  /\ approval' = [approval EXCEPT ![Len(approval)].status = "approved",
                                  ![Len(approval)].answer = v]
  /\ journal' = Resolved("approved", v)
  /\ status' = "running" /\ told' = <<>>
  /\ UNCHANGED <<handler, permission, body, changes, tape, log>>
  /\ steady' = SameWorld'

\* reject_approval.
Reject ==
  /\ status = "waiting_approval" /\ Pending.status = "pending"
  /\ approval' = [approval EXCEPT ![Len(approval)].status = "rejected"]
  /\ journal' = Resolved("rejected", NoValue)
  /\ status' = "rejected"
  /\ UNCHANGED <<handler, world, body, told, changes, tape, log>> /\ StaysSteady

(* The world outside. *)

\* PUT /tools/{id}/permission, setting an override or clearing it.
SetPermission(t, p) ==
  /\ changes < MaxChanges /\ p # permission[t]
  /\ permission' = [permission EXCEPT ![t] = p] /\ changes' = changes + 1
  /\ UNCHANGED <<handler, mem, run, body, told, tape, log>> /\ StaysSteady

\* Another run writes the scope.
OtherRunWrites(v) ==
  /\ changes < MaxChanges /\ v # mem
  /\ mem' = v /\ changes' = changes + 1
  /\ UNCHANGED <<handler, permission, run, body, told, tape, log>> /\ StaysSteady
-----------------------------------------------------------------------------

Call(ask, key, e) ==
  \/ Recall(ask, key, e) \/ Drift(ask, key, e) \/ Begin(ask, key, e)
  \/ Suspend(ask, key, e) \/ GateDrift(ask, key, e) \/ PassGate(ask, key, e)

\* What the process that works on the run does.
Work ==
  \/ LET ask == NextCall(told)
         key == ContentKey(ask)
     IN  Refuse(ask, key) \/ Call(ask, key, journal[SeqAfter(told)])
  \/ \E v \in Value : Commit(v)
  \/ Fail
  \/ Finish

Human == (\E v \in Value : Approve(v)) \/ Reject

Outside ==
  \/ \E t \in Tool, p \in Permission : SetPermission(t, p)
  \/ \E v \in Value : OtherRunWrites(v)

Next == Work \/ Human \/ Outside

Spec == Init /\ [][Next]_vars

\* A worker that does not die goes on with its run; tool calls, model calls and the
\* run itself have timeouts, so an implementation returns or raises.
FairSpec == Spec /\ WF_vars(Work)
-----------------------------------------------------------------------------
TypeOK ==
  /\ handler \in Handler /\ permission \in [Tool -> Permission] /\ mem \in Value
  /\ status \in {"running", "waiting_approval", "completed", "failed", "rejected"}
  /\ journal \in [Ordinal -> Entry] /\ approval \in Seq(ApprovalDoc)
  /\ body \in {Idle} \cup [pc : {"running"}, arg : Value, key : Key]
  /\ told \in Seq(Item) /\ tape \in Seq(Item) /\ log \in Seq(Item)
  /\ changes \in 0 .. MaxChanges /\ steady \in BOOLEAN

\* Durable replay: as long as nothing the handler depends on changes between the
\* pause and the gate, and no call had raised, the resumed handler is told exactly
\* what it was told before the pause, executes nothing on the way, never drifts,
\* and gets the human's answer to the question it had asked (context.py _replay,
\* content_key, call_approved: "inserting a step here would shift every subsequent
\* ordinal and trip D9's drift check on resume").
Retraces ==
  steady =>
    /\ \A i \in DOMAIN told \cap DOMAIN tape : told[i] = tape[i]
    /\ approval # <<>> /\ (body # Idle \/ status # "running") => Len(told) > Len(tape)
    /\ approval # <<>> /\ Len(told) > Len(tape) =>
         told[Len(tape) + 1] = [seq |-> SeqAfter(tape), key |-> Pending.question,
                                outcome |-> Pending.answer]

\* Whatever changes around a run: a call that was completed at an ordinal is never
\* executed there again, and what a handler is told is the result of a call with
\* that very content key, completed at that ordinal, or a human's answer to that
\* very question ("a replay whose step N asks for something different fails closed
\* instead of silently returning another operation's result", context.py 108-113).
AnswersAreOwn ==
  /\ \A m, n \in DOMAIN log : log[m].seq = log[n].seq => m = n
  /\ \A i \in DOMAIN told : told[i].outcome \in Value =>
       IF told[i].key.kind = "gate"
       THEN \E a \in DOMAIN approval :
              approval[a] = [status |-> "approved", question |-> told[i].key,
                             answer |-> told[i].outcome]
       ELSE \E n \in DOMAIN log : log[n] = told[i]

\* A granted approval gets to the handler that asked for it, or the world it asked
\* in has changed (engine.approve replays the handler at once).
GrantArrives ==
  (status = "running" /\ approval # <<>> /\ steady) ~> (~steady \/ Len(told) > Len(tape))

\* "fails closed" for approvals too: a granted approval keeps its ordinal.
\* It does not hold: see "Disagreements" in README.md.
GrantsAreKept ==
  [][\A s \in Ordinal : journal[s].status = "approved" => journal'[s] = journal[s]]_vars

\* ctx.memory.set returns what it was given.
\* It does not hold: see "Disagreements" in README.md.
NotesAreKept ==
  \A i \in DOMAIN told :
    LET ask == NextCall(SubSeq(told, 1, i - 1)) IN
    ask.kind = "note" /\ told[i].outcome \in Value => told[i].outcome = ask.arg
=============================================================================
