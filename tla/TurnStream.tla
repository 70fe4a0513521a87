----------------------------- MODULE TurnStream -----------------------------
(***************************************************************************)
(* The durable stream of one turn: turns.py _run_turn and resolve_on_stream *)
(* append frames to it while the turn is claimed, retried and reclaimed;   *)
(* app.py _tail_turn delivers them to clients that drop and reconnect.     *)
(*                                                                         *)
(* An append reads the highest seq and inserts behind it later; the row of *)
(* a seq exists once, so of two that read the same the later one fails     *)
(* (store_postgres.py stream_append).  The turn's job is a QueueJob, whose *)
(* reports are one step each (DurableQueue takes them apart).              *)
(*                                                                         *)
(*   turn       the job       stream    its frames, the one of seq i at    *)
(*              i + 1                                                      *)
(*   proc[p]    a thread that executes turns, or one that answers the      *)
(*              approval: what it still has to append, and behind which    *)
(*              frame                                                      *)
(*   tail[t]    a client: its cursor, what it was shown, its connection    *)
(* and bookkeeping: lapsed, whether a lease ever ran out; faults, deaths   *)
(* so far, at most MaxFaults.                                              *)
(***************************************************************************)
EXTENDS QueueJob, Sequences, SequencesExt

CONSTANTS Turn,               \* the one Job
          Proc, Resolver,     \* threads that execute turns, that answer approvals
          Id,                 \* the worker id each of them reports under
          Client,
          MaxFaults           \* bound

ASSUME TurnStreamAssumption ==
  /\ Job = {Turn} /\ Proc \cap Resolver = {} /\ Id \in [Proc -> Worker] /\ MaxFaults \in Nat

VARIABLES turn, stream, proc, tail, lapsed, faults

vars == <<turn, stream, proc, tail, lapsed, faults>>

Fault == faults < MaxFaults /\ faults' = faults + 1
-----------------------------------------------------------------------------
Idle == [pc |-> "idle", todo |-> <<>>, base |-> 0, traced |-> FALSE]
\* A thread that leaves it there; an answer is given once.
Gone(p) == IF p \in Resolver THEN [Idle EXCEPT !.traced = TRUE] ELSE Idle
NewTail == [open |-> TRUE, over |-> FALSE, cursor |-> 0, seen |-> <<>>]
Goes(p, s) == proc' = [proc EXCEPT ![p] = s]

\* is_terminal: an error, or a run that is not waiting for an approval.
IsTerminal(f) == f \in {"run", "error"}
Paused == \E i \in DOMAIN stream : stream[i] = "pause"
Ended == \E i \in DOMAIN stream : stream[i] \in {"pause", "run", "error"}

Init ==
  /\ turn = Enqueued("due") /\ stream = <<>>
  /\ proc = [p \in Proc \cup Resolver |-> Idle]
  /\ tail = [t \in Client |-> NewTail]
  /\ lapsed = FALSE /\ faults = 0

(* The queue. *)

Reaped == IF ~ExpiredLease(turn) THEN turn
          ELSE IF Exhausted(Turn, turn) THEN DeadLettered(turn) ELSE Requeued(turn)

\* execute_pending.
Claim(p) ==
  /\ proc[p].pc = "idle"
  /\ Reaped.status = "pending" /\ Reaped.runAt = "due"
  /\ turn' = Claimed(Reaped, Id[p])
  /\ Goes(p, [Idle EXCEPT !.pc = "seam"])
  /\ UNCHANGED <<stream, tail, lapsed, faults>>

ClaimNothing(p) ==
  /\ proc[p].pc = "idle" /\ Reaped # turn /\ Reaped.status # "pending"
  /\ turn' = Reaped
  /\ UNCHANGED <<stream, proc, tail, lapsed, faults>>

LeaseRunsOut ==
  /\ turn.lease = "live"
  /\ turn' = [turn EXCEPT !.lease = "expired"] /\ lapsed' = TRUE
  /\ UNCHANGED <<stream, proc, tail, faults>>

BecomesDue ==
  /\ turn.status = "pending" /\ turn.runAt = "later"
  /\ turn' = [turn EXCEPT !.runAt = "due"]
  /\ UNCHANGED <<stream, proc, tail, lapsed, faults>>

(* Executing the turn. *)

Appending(s, kinds) == [s EXCEPT !.pc = "append", !.todo = kinds]

\* _run_turn: a stream that has frames already gets a seam.
MarkSeam(p) ==
  /\ proc[p].pc = "seam"
  /\ Goes(p, IF stream = <<>> THEN [proc[p] EXCEPT !.pc = "handler"]
                              ELSE Appending(proc[p], <<"restart">>))
  /\ UNCHANGED <<turn, stream, tail, lapsed, faults>>

\* on_trace, on_ui.
Trace(p) ==
  /\ proc[p].pc = "handler" /\ ~proc[p].traced
  /\ Goes(p, [Appending(proc[p], <<"trace">>) EXCEPT !.traced = TRUE])
  /\ UNCHANGED <<turn, stream, tail, lapsed, faults>>

\* Slip: an error is reported to the queue only.
HandlerEndsQuietly(p, kinds) ==
  /\ proc[p].pc = "handler"
  /\ Goes(p, IF kinds = <<"error">> THEN [proc[p] EXCEPT !.pc = "fail"] ELSE Appending(proc[p], kinds))
  /\ UNCHANGED <<turn, stream, tail, lapsed, faults>>

\* run_event returns, with or without replies of the session to surface, or raises.
HandlerEnds(p, kinds) ==
  /\ proc[p].pc = "handler"
  /\ Goes(p, Appending(proc[p], kinds))
  /\ UNCHANGED <<turn, stream, tail, lapsed, faults>>

\* complete; a job lost meanwhile makes it an error like any other.
Complete(p) ==
  /\ proc[p].pc = "complete"
  /\ IF HeldBy(turn, Id[p])
     THEN turn' = Completed(turn) /\ Goes(p, Idle)
     ELSE Goes(p, Appending(proc[p], <<"error">>)) /\ UNCHANGED turn
  /\ UNCHANGED <<stream, tail, lapsed, faults>>

\* fail; a job lost meanwhile leaves it to whoever has it.
Fail(p) ==
  /\ proc[p].pc = "fail"
  /\ turn' = IF HeldBy(turn, Id[p]) THEN Failed(Turn, turn) ELSE turn
  /\ Goes(p, Idle)
  /\ UNCHANGED <<stream, tail, lapsed, faults>>

\* Slip: the decision is streamed behind the run it ends.
AnswerBackwards(r) ==
  /\ proc[r].pc = "idle" /\ Paused /\ ~proc[r].traced
  /\ Goes(r, [Appending(Idle, <<"run", "trace">>) EXCEPT !.traced = TRUE])
  /\ UNCHANGED <<turn, stream, tail, lapsed, faults>>

\* resolve_on_stream, reject_on_stream: the decision and the run it ends in.
Answer(r) ==
  /\ proc[r].pc = "idle" /\ Paused /\ ~proc[r].traced
  /\ Goes(r, [Appending(Idle, <<"trace", "run">>) EXCEPT !.traced = TRUE])
  /\ UNCHANGED <<turn, stream, tail, lapsed, faults>>

(* Appending. *)

\* stream_append: the highest seq ...
ReadMaxSeq(p) ==
  /\ proc[p].pc = "append"
  /\ Goes(p, [proc[p] EXCEPT !.pc = "insert", !.base = Len(stream) + 1])
  /\ UNCHANGED <<turn, stream, tail, lapsed, faults>>

\* What p does behind its last frame.
Then(p, kind) ==
  IF p \in Resolver THEN "idle"
  ELSE IF kind \in {"restart", "trace"} THEN "handler"
  ELSE IF kind = "error" THEN "fail" ELSE "complete"

Inserted(p) ==
  LET s == proc[p] rest == Tail(s.todo) IN
  [s EXCEPT !.todo = rest, !.base = 0,
            !.pc = IF rest = <<>> THEN Then(p, Head(s.todo)) ELSE "append"]

\* Slip: the row that is there already is written over.
InsertOver(p) ==
  LET s == proc[p] IN
  /\ s.pc = "insert"
  /\ stream' = IF s.base > Len(stream) THEN Append(stream, Head(s.todo))
               ELSE [stream EXCEPT ![s.base] = Head(s.todo)]
  /\ Goes(p, Inserted(p))
  /\ UNCHANGED <<turn, tail, lapsed, faults>>

\* ... and the insert behind it.
Insert(p) ==
  LET s == proc[p] IN
  /\ s.pc = "insert" /\ s.base > Len(stream)
  /\ stream' = Append(stream, Head(s.todo))
  /\ Goes(p, Inserted(p))
  /\ UNCHANGED <<turn, tail, lapsed, faults>>

\* The seq was taken: a trace is lost, a run that had ended becomes an error, and an error
\* or a seam that cannot be written leaves the job to the reaper.
Collide(p) ==
  LET s == proc[p] kind == Head(s.todo) IN
  /\ s.pc = "insert" /\ s.base <= Len(stream)
  /\ Goes(p, IF p \in Resolver \/ kind \in {"restart", "error"} THEN Gone(p)
             ELSE IF kind = "trace" THEN [s EXCEPT !.pc = "handler", !.todo = <<>>, !.base = 0]
             ELSE [Appending(s, <<"error">>) EXCEPT !.base = 0])
  /\ UNCHANGED <<turn, stream, tail, lapsed, faults>>

ProcDies(p) ==
  /\ proc[p].pc # "idle" /\ Fault
  /\ Goes(p, Gone(p))
  /\ UNCHANGED <<turn, stream, tail, lapsed>>

(* Tailing. *)

\* The frame at which the tail returns: the first terminal one, or a pause as well for
\* the transports that promise that "run" is the last.
Stops(f, onPause) == IsTerminal(f) \/ (onPause /\ f = "pause")

\* _tail_turn: frames behind the cursor are read, and n of them delivered before the
\* client drops or the tail returns.
Deliver(t, n, onPause) ==
  LET s == tail[t] got == SubSeq(stream, s.cursor + 1, s.cursor + n) IN
  /\ s.open /\ s.cursor + n <= Len(stream)
  /\ \A i \in 1 .. n - 1 : ~Stops(got[i], onPause)
  /\ tail' = [tail EXCEPT ![t] = [open |-> ~Stops(got[n], onPause), cursor |-> s.cursor + n,
                                  over |-> IsTerminal(got[n]), seen |-> s.seen \o got]]
  /\ UNCHANGED <<turn, stream, proc, lapsed, faults>>

\* The client is gone, or has seen nothing for too long ...
Drop(t) ==
  /\ tail[t].open
  /\ tail' = [tail EXCEPT ![t].open = FALSE]
  /\ UNCHANGED <<turn, stream, proc, lapsed, faults>>

\* ... and comes back with the id of the last frame it was shown.
Reconnect(t) ==
  /\ ~tail[t].open /\ ~tail[t].over
  /\ tail' = [tail EXCEPT ![t].open = TRUE]
  /\ UNCHANGED <<turn, stream, proc, lapsed, faults>>
-----------------------------------------------------------------------------
Endings == {<<"run">>, <<"message", "run">>, <<"pause">>, <<"error">>}

Act(p) == ReadMaxSeq(p) \/ Insert(p) \/ Collide(p)
Work(p) ==
  \/ Claim(p) \/ ClaimNothing(p) \/ MarkSeam(p) \/ Trace(p)
  \/ \E kinds \in Endings : HandlerEnds(p, kinds)
  \/ Complete(p) \/ Fail(p) \/ Act(p)

Next ==
  \/ \E p \in Proc : Work(p)
  \/ \E r \in Resolver : Answer(r) \/ Act(r)
  \/ \E p \in Proc \cup Resolver : ProcDies(p)
  \/ LeaseRunsOut \/ BecomesDue
  \/ \E t \in Client : \/ Drop(t) \/ Reconnect(t)
                       \/ \E n \in 1 .. Len(stream), onPause \in BOOLEAN : Deliver(t, n, onPause)

Spec == Init /\ [][Next]_vars

\* Threads go on, the sweeper keeps claiming, leases and delays run out, and a client
\* that may come back keeps reading.
FairSpec ==
  /\ Spec
  /\ \A p \in Proc : WF_vars(Work(p))
  /\ \A r \in Resolver : WF_vars(Act(r))
  /\ WF_vars(LeaseRunsOut) /\ WF_vars(BecomesDue)
-----------------------------------------------------------------------------
Kinds == {"restart", "trace", "message", "pause", "run", "error"}

TypeOK ==
  /\ turn \in JobDoc
  /\ stream \in Seq(Kinds)
  /\ proc \in [Proc \cup Resolver ->
                 [pc: {"idle", "seam", "handler", "append", "insert", "complete", "fail"},
                  todo: Seq(Kinds), base: Nat, traced: BOOLEAN]]
  /\ \A p \in Proc \cup Resolver : proc[p].pc \in {"append", "insert"} => proc[p].todo # <<>>
  /\ tail \in [Client -> [open: BOOLEAN, over: BOOLEAN, cursor: Nat,
                          seen: Seq(Kinds)]]
  /\ lapsed \in BOOLEAN /\ faults \in Nat

\* However often a client drops and however many threads append at once, it has been
\* shown every frame up to its cursor, once and in order (app.py turn_stream_ep,
\* "continue exactly where the dropped connection left off"; store_postgres.py
\* stream_append).
TailSeesEveryFrame ==
  \A t \in Client : tail[t].seen = SubSeq(stream, 1, tail[t].cursor)

\* While no lease runs out, nothing follows the frame of a run that has ended (app.py
\* post_event_stream, "event: run - ALWAYS the terminal frame").
RunFrameIsLast ==
  ~lapsed => \A i \in DOMAIN stream : stream[i] = "run" => i = Len(stream)

\* Unless something dies, a turn leaves its stream with an end for the client to find,
\* the threads that write over a lost lease included (turns.py _run_turn, "never leave
\* the buffer without a terminal frame").
StreamEnds == <>(Ended \/ faults > 0)
=============================================================================
