------------------------- MODULE TurnStreamProofs -------------------------
(***************************************************************************)
(* Proofs about TurnStream, for any threads, clients, worker ids and       *)
(* attempts.                                                               *)
(*                                                                         *)
(* A stream only grows, so what a client was shown stays a prefix of it.   *)
(* That a run frame is the last one rests on the queue: while no lease     *)
(* runs out one thread at a time executes the turn, it appends nothing     *)
(* after a run or a pause, and what is appended behind a pause is the      *)
(* answer.                                                                 *)
(***************************************************************************)
EXTENDS TurnStream, SequenceTheorems, TLAPS

Thread == Proc \cup Resolver

ThreadState ==
  [pc: {"idle", "seam", "handler", "append", "insert", "complete", "fail"},
   todo: Seq(Kinds), base: Nat, traced: BOOLEAN]

ThreadOK(s) == s.pc \in {"append", "insert"} => s.todo # <<>>

\* A client was shown a prefix of the stream.
TailOK(s) == s.cursor <= Len(stream) /\ s.seen = SubSeq(stream, 1, s.cursor)

\* The stream holds nothing that may end the turn; no run has ended.
NoEnd == \A i \in DOMAIN stream : stream[i] \notin {"pause", "run"}
NoRun == \A i \in DOMAIN stream : stream[i] # "run"
RunLast == \A i \in DOMAIN stream : stream[i] = "run" => i = Len(stream)

Todos == {<<"restart">>, <<"trace">>, <<"run">>, <<"message", "run">>, <<"pause">>, <<"error">>}

\* While no lease ran out: a turn that may be claimed has not ended, one thread at a
\* time executes it and none that may still append does so behind its end, and an
\* answer follows a pause that nothing followed yet.
TurnOK == turn.lease # "expired" /\ (turn.status = "pending" => NoEnd)

ProcOK(p) ==
  proc[p].pc # "idle" =>
    /\ HeldBy(turn, Id[p])
    /\ \A q \in Proc : proc[q].pc # "idle" => q = p
    /\ proc[p].pc # "complete" => NoEnd
    /\ proc[p].pc \in {"append", "insert"} => proc[p].todo \in Todos

ResolverOK(r) ==
  /\ Paused /\ ~proc[r].traced => NoRun
  /\ proc[r].pc # "idle" =>
       /\ Paused /\ NoRun /\ proc[r].traced
       /\ proc[r].pc \in {"append", "insert"}
       /\ proc[r].todo \in {<<"trace", "run">>, <<"run">>}

Core ==
  /\ TurnOK /\ RunLast
  /\ \A p \in Proc : ProcOK(p)
  /\ \A r \in Resolver : ResolverOK(r)

Quiet == ~lapsed => Core

\* The answer to an approval is streamed by one request: a second one is refused.
OneResolver == \A r, s \in Resolver : r = s

Typed == TypeOK /\ \A t \in Client : TailOK(tail[t])
-----------------------------------------------------------------------------
(* Types. *)

LEMMA IdleTyped ==
  /\ Idle \in ThreadState /\ ThreadOK(Idle)
  /\ [Idle EXCEPT !.traced = TRUE] \in ThreadState /\ ThreadOK([Idle EXCEPT !.traced = TRUE])
<1>1. <<>> \in Seq(Kinds) OBVIOUS
<1> QED BY <1>1 DEF Idle, ThreadState, ThreadOK

LEMMA AppendingTyped ==
  ASSUME NEW s \in ThreadState, NEW kinds \in Seq(Kinds), kinds # <<>>
  PROVE  /\ Appending(s, kinds) \in ThreadState /\ ThreadOK(Appending(s, kinds))
         /\ [Appending(s, kinds) EXCEPT !.traced = TRUE] \in ThreadState
         /\ ThreadOK([Appending(s, kinds) EXCEPT !.traced = TRUE])
         /\ [Appending(s, kinds) EXCEPT !.base = 0] \in ThreadState
         /\ ThreadOK([Appending(s, kinds) EXCEPT !.base = 0])
BY DEF Appending, ThreadState, ThreadOK

LEMMA GoesTyped ==
  ASSUME TypeOK, NEW p \in Thread, NEW s \in ThreadState, ThreadOK(s), Goes(p, s)
  PROVE  proc' \in [Thread -> ThreadState] /\ \A q \in Thread : ThreadOK(proc'[q])
<1>1. proc \in [Thread -> ThreadState] /\ \A q \in Thread : ThreadOK(proc[q])
  BY DEF TypeOK, Thread, ThreadState, ThreadOK
<1>2. proc' = [proc EXCEPT ![p] = s] BY DEF Goes
<1>3. \A q \in Thread : proc'[q] = IF q = p THEN s ELSE proc[q] BY <1>1, <1>2
<1> QED BY <1>1, <1>2, <1>3

LEMMA JobTyped ==
  ASSUME NEW d \in JobDoc, NEW w \in Worker, NEW j
  PROVE  /\ Claimed(d, w) \in JobDoc /\ Completed(d) \in JobDoc /\ Failed(j, d) \in JobDoc
         /\ Requeued(d) \in JobDoc /\ DeadLettered(d) \in JobDoc
<1>1. Claimed(d, w) \in JobDoc
  <2>1. d.attempts + 1 \in Nat BY DEF JobDoc
  <2> QED BY <2>1 DEF JobDoc, Status, Claimed
<1>2. Completed(d) \in JobDoc BY DEF JobDoc, Status, Completed
<1>3. Requeued(d) \in JobDoc /\ DeadLettered(d) \in JobDoc
  BY DEF JobDoc, Status, Requeued, DeadLettered
<1>4. Failed(j, d) \in JobDoc
  <2>1. CASE d.cancel BY <2>1 DEF JobDoc, Status, Failed
  <2>2. CASE ~d.cancel /\ Exhausted(j, d) BY <2>2 DEF JobDoc, Status, Failed
  <2>3. CASE ~d.cancel /\ ~Exhausted(j, d) BY <2>3 DEF JobDoc, Status, Failed
  <2> QED BY <2>1, <2>2, <2>3
<1> QED BY <1>1, <1>2, <1>3, <1>4

LEMMA ReapedTyped == ASSUME TypeOK, TurnStreamAssumption PROVE Reaped \in JobDoc
<1>1. turn \in JobDoc BY DEF TypeOK
<1>2. Requeued(turn) \in JobDoc /\ DeadLettered(turn) \in JobDoc
  BY <1>1 DEF JobDoc, Status, Requeued, DeadLettered
<1> QED BY <1>1, <1>2 DEF Reaped

LEMMA InsertedTyped ==
  ASSUME TypeOK, NEW p \in Thread, proc[p].pc = "insert"
  PROVE  Inserted(p) \in ThreadState /\ ThreadOK(Inserted(p)) /\ Head(proc[p].todo) \in Kinds
<1>1. proc[p] \in ThreadState /\ proc[p].todo # <<>>
  BY DEF TypeOK, Thread, ThreadState
<1>2. PICK s \in ThreadState : s = proc[p] BY <1>1
<1>3. s.todo \in Seq(Kinds) /\ s.todo # <<>> BY <1>1, <1>2 DEF ThreadState
<1>4. Tail(s.todo) \in Seq(Kinds) /\ Head(s.todo) \in Kinds BY <1>3, HeadTailProperties
<1>5. PICK pc : pc = IF Tail(s.todo) = <<>> THEN Then(p, Head(s.todo)) ELSE "append" OBVIOUS
<1>6. pc \in {"idle", "handler", "fail", "complete", "append"}
      /\ (pc = "append" => Tail(s.todo) # <<>>)
  BY <1>5 DEF Then
<1>7. pc # "insert" BY <1>6
<1>8. Inserted(p) = [s EXCEPT !.todo = Tail(s.todo), !.base = 0, !.pc = pc]
  BY <1>2, <1>5 DEF Inserted, ThreadState
<1>9. PICK x : x = [s EXCEPT !.todo = Tail(s.todo), !.base = 0, !.pc = pc] OBVIOUS
<1>10. x.pc = pc /\ x.todo = Tail(s.todo) BY <1>9 DEF ThreadState
<1>11. x \in ThreadState BY <1>4, <1>6, <1>9 DEF ThreadState
<1>12. ThreadOK(x) BY <1>6, <1>7, <1>10 DEF ThreadOK
<1> QED BY <1>2, <1>4, <1>8, <1>9, <1>11, <1>12

\* Behind its end nothing of what was shown changes.
LEMMA TailOnAppend ==
  ASSUME NEW kind \in Kinds, stream \in Seq(Kinds), stream' = Append(stream, kind),
         NEW s, s.cursor \in Nat, TailOK(s)
  PROVE  TailOK(s)'
<1>1. stream' \in Seq(Kinds) /\ Len(stream') = Len(stream) + 1 OBVIOUS
<1>2. s.cursor <= Len(stream') BY <1>1 DEF TailOK
<1>3. SubSeq(stream', 1, s.cursor) = SubSeq(stream, 1, s.cursor)
  <2>1. PICK n \in Nat : n = s.cursor /\ n <= Len(stream) BY DEF TailOK
  <2>2. PICK a : a = SubSeq(stream, 1, n) OBVIOUS
  <2>3. PICK b : b = SubSeq(stream', 1, n) OBVIOUS
  <2>4. a \in Seq(Kinds) /\ Len(a) = n /\ \A i \in 1 .. n : a[i] = stream[i] BY <2>1, <2>2
  <2>5. b \in Seq(Kinds) /\ Len(b) = n /\ \A i \in 1 .. n : b[i] = stream'[i]
    BY <1>1, <1>2, <2>1, <2>3
  <2>6. \A i \in 1 .. n : stream'[i] = stream[i] BY <2>1
  <2>7. a = b BY <2>4, <2>5, <2>6, SeqEqual
  <2> QED BY <2>1, <2>2, <2>3, <2>7
<1> QED BY <1>2, <1>3 DEF TailOK

\* Delivering what follows the cursor extends the prefix.
LEMMA SubSeqJoins ==
  ASSUME NEW q \in Seq(Kinds), NEW k \in Nat, NEW n \in Nat, k + n <= Len(q)
  PROVE  SubSeq(q, 1, k) \o SubSeq(q, k + 1, k + n) = SubSeq(q, 1, k + n)
<1> DEFINE a == SubSeq(q, 1, k)
           b == SubSeq(q, k + 1, k + n)
           c == SubSeq(q, 1, k + n)
<1>1. a \in Seq(Kinds) /\ Len(a) = k /\ \A i \in 1 .. k : a[i] = q[i]
  OBVIOUS
<1>2. b \in Seq(Kinds) /\ Len(b) = n /\ \A i \in 1 .. n : b[i] = q[k + i]
  BY SubSeqProperties
<1>3. c \in Seq(Kinds) /\ Len(c) = k + n /\ \A i \in 1 .. (k + n) : c[i] = q[i]
  OBVIOUS
<1> HIDE DEF a, b, c
<1>4. /\ a \o b \in Seq(Kinds) /\ Len(a \o b) = k + n
      /\ \A i \in 1 .. (k + n) : (a \o b)[i] = IF i <= k THEN a[i] ELSE b[i - k]
  BY <1>1, <1>2, ConcatProperties
<1>5. \A i \in 1 .. (k + n) : (a \o b)[i] = q[i] BY <1>1, <1>2, <1>4
<1>6. a \o b = c BY <1>3, <1>4, <1>5, SeqEqual
<1> QED BY <1>6 DEF a, b, c

LEMMA InitTyped == ASSUME Init, TurnStreamAssumption PROVE Typed
<1>1. turn \in JobDoc BY DEF Init, Enqueued, Blank, JobDoc, Status
<1>2. stream \in Seq(Kinds) /\ stream = <<>> BY DEF Init
<1>3. proc \in [Thread -> ThreadState] /\ \A q \in Thread : ThreadOK(proc[q])
  BY IdleTyped DEF Init, Thread
<1>4. /\ tail \in [Client -> [open: BOOLEAN, over: BOOLEAN, cursor: Nat, seen: Seq(Kinds)]]
      /\ \A t \in Client : tail[t].cursor = 0 /\ tail[t].seen = <<>>
  <2>1. <<>> \in Seq(Kinds) OBVIOUS
  <2>2. NewTail \in [open: BOOLEAN, over: BOOLEAN, cursor: Nat, seen: Seq(Kinds)]
        /\ NewTail.cursor = 0 /\ NewTail.seen = <<>>
    BY <2>1 DEF NewTail
  <2> QED BY <2>2 DEF Init
<1>5. TypeOK BY <1>1, <1>2, <1>3, <1>4 DEF Init, TypeOK, Thread, ThreadState, ThreadOK
<1>6. \A t \in Client : TailOK(tail[t]) BY <1>2, <1>4, SubSeqEmpty DEF TailOK
<1> QED BY <1>5, <1>6 DEF Typed

\* The threads stay typed.
LEMMA ThreadsTyped ==
  ASSUME TypeOK, Next, TurnStreamAssumption
  PROVE  proc' \in [Thread -> ThreadState] /\ \A q \in Thread : ThreadOK(proc'[q])
<1>1. proc \in [Thread -> ThreadState] /\ \A q \in Thread : ThreadOK(proc[q])
  BY DEF TypeOK, Thread, ThreadState, ThreadOK
<1>2. CASE UNCHANGED proc BY <1>1, <1>2
<1>3. ASSUME NEW p \in Thread, NEW s \in ThreadState, ThreadOK(s), Goes(p, s)
      PROVE  proc' \in [Thread -> ThreadState] /\ \A q \in Thread : ThreadOK(proc'[q])
  BY <1>3, GoesTyped
<1>4. \A kind \in Kinds : <<kind>> \in Seq(Kinds) /\ <<kind>> # <<>> OBVIOUS
<1>5. ASSUME NEW p \in Proc, Work(p) /\ ~Act(p)
      PROVE  proc' \in [Thread -> ThreadState] /\ \A q \in Thread : ThreadOK(proc'[q])
  <2>1. p \in Thread BY DEF Thread
  <2>2. PICK s \in ThreadState : s = proc[p] /\ ThreadOK(s) BY <1>1, <2>1
  <2>3. CASE Claim(p)
    <3>1. [Idle EXCEPT !.pc = "seam"] \in ThreadState /\ ThreadOK([Idle EXCEPT !.pc = "seam"])
      BY IdleTyped DEF ThreadState, ThreadOK, Idle
    <3>2. Goes(p, [Idle EXCEPT !.pc = "seam"]) BY <2>3 DEF Claim
    <3> QED BY <1>3, <2>1, <3>1, <3>2
  <2>4. CASE ClaimNothing(p) BY <1>2, <2>4 DEF ClaimNothing
  <2>5. CASE MarkSeam(p)
    <3>1. [s EXCEPT !.pc = "handler"] \in ThreadState /\ ThreadOK([s EXCEPT !.pc = "handler"])
      BY DEF ThreadState, ThreadOK
    <3>2. /\ Appending(s, <<"restart">>) \in ThreadState
          /\ ThreadOK(Appending(s, <<"restart">>))
      BY <1>4, AppendingTyped DEF Kinds
    <3>3. Goes(p, [s EXCEPT !.pc = "handler"]) \/ Goes(p, Appending(s, <<"restart">>))
      BY <2>2, <2>5 DEF MarkSeam
    <3> QED BY <1>3, <2>1, <3>1, <3>2, <3>3
  <2>6. CASE Trace(p)
    <3>1. Goes(p, [Appending(s, <<"trace">>) EXCEPT !.traced = TRUE]) BY <2>2, <2>6 DEF Trace
    <3>2. <<"trace">> \in Seq(Kinds) /\ <<"trace">> # <<>> BY <1>4 DEF Kinds
    <3> QED BY <1>3, <2>1, <3>1, <3>2, AppendingTyped
  <2>7. ASSUME NEW kinds \in Endings, HandlerEnds(p, kinds)
        PROVE  proc' \in [Thread -> ThreadState] /\ \A q \in Thread : ThreadOK(proc'[q])
    <3>1. kinds \in Seq(Kinds) /\ kinds # <<>>
      <4>1. <<"message", "run">> \in Seq(Kinds) /\ <<"message", "run">> # <<>> BY DEF Kinds
      <4>2. CASE kinds = <<"message", "run">> BY <4>1, <4>2
      <4>3. CASE kinds # <<"message", "run">>
        <5>1. PICK kind \in Kinds : kinds = <<kind>> BY <4>3 DEF Endings, Kinds
        <5> QED BY <1>4, <5>1
      <4> QED BY <4>2, <4>3
    <3>2. Goes(p, Appending(s, kinds)) BY <2>2, <2>7 DEF HandlerEnds
    <3> QED BY <1>3, <2>1, <3>1, <3>2, AppendingTyped
  <2>8. CASE Complete(p)
    <3>1. <<"error">> \in Seq(Kinds) /\ <<"error">> # <<>> BY <1>4 DEF Kinds
    <3>2. Goes(p, Idle) \/ Goes(p, Appending(s, <<"error">>)) BY <2>2, <2>8 DEF Complete
    <3> QED BY <1>3, <2>1, <3>1, <3>2, AppendingTyped, IdleTyped
  <2>9. CASE Fail(p) BY <1>3, <2>1, <2>9, IdleTyped DEF Fail
  <2> QED BY <1>5, <2>3, <2>4, <2>5, <2>6, <2>7, <2>8, <2>9 DEF Work
<1>6. ASSUME NEW p \in Thread, Act(p)
      PROVE  proc' \in [Thread -> ThreadState] /\ \A q \in Thread : ThreadOK(proc'[q])
  <2>1. PICK s \in ThreadState : s = proc[p] /\ ThreadOK(s) BY <1>1
  <2>2. CASE ReadMaxSeq(p)
    <3>1. Len(stream) + 1 \in Nat BY DEF TypeOK
    <3>2. Goes(p, [s EXCEPT !.pc = "insert", !.base = Len(stream) + 1]) /\ s.pc = "append"
      BY <2>1, <2>2 DEF ReadMaxSeq
    <3>3. PICK x : x = [s EXCEPT !.pc = "insert", !.base = Len(stream) + 1] OBVIOUS
    <3>4. x \in ThreadState /\ x.todo = s.todo BY <3>1, <3>3 DEF ThreadState
    <3>5. ThreadOK(x) BY <2>1, <3>2, <3>4 DEF ThreadOK
    <3> QED BY <1>3, <3>2, <3>3, <3>4, <3>5
  <2>3. CASE Insert(p)
    <3>1. Goes(p, Inserted(p)) /\ proc[p].pc = "insert" BY <2>3 DEF Insert
    <3> QED BY <1>3, <3>1, InsertedTyped
  <2>4. CASE Collide(p)
    <3>1. PICK x : Goes(p, x) /\ x \in {[Idle EXCEPT !.traced = TRUE], Idle,
                      [s EXCEPT !.pc = "handler", !.todo = <<>>, !.base = 0],
                      [Appending(s, <<"error">>) EXCEPT !.base = 0]}
      BY <2>1, <2>4 DEF Collide, Gone
    <3>2. <<"error">> \in Seq(Kinds) /\ <<"error">> # <<>> BY <1>4 DEF Kinds
    <3>3. /\ [s EXCEPT !.pc = "handler", !.todo = <<>>, !.base = 0] \in ThreadState
          /\ ThreadOK([s EXCEPT !.pc = "handler", !.todo = <<>>, !.base = 0])
      <4>1. <<>> \in Seq(Kinds) OBVIOUS
      <4> QED BY <4>1 DEF ThreadState, ThreadOK
    <3>4. x \in ThreadState /\ ThreadOK(x) BY <3>1, <3>2, <3>3, AppendingTyped, IdleTyped
    <3> QED BY <1>3, <3>1, <3>4
  <2> QED BY <1>6, <2>2, <2>3, <2>4 DEF Act
<1>7. ASSUME NEW r \in Resolver, Answer(r)
      PROVE  proc' \in [Thread -> ThreadState] /\ \A q \in Thread : ThreadOK(proc'[q])
  <2>1. Goes(r, [Appending(Idle, <<"trace", "run">>) EXCEPT !.traced = TRUE]) /\ r \in Thread
    BY <1>7 DEF Answer, Thread
  <2>2. <<"trace", "run">> \in Seq(Kinds) /\ <<"trace", "run">> # <<>> BY DEF Kinds
  <2> QED BY <1>3, <2>1, <2>2, AppendingTyped, IdleTyped
<1>8. ASSUME NEW p \in Thread, ProcDies(p)
      PROVE  proc' \in [Thread -> ThreadState] /\ \A q \in Thread : ThreadOK(proc'[q])
  <2>1. Goes(p, Gone(p)) BY <1>8 DEF ProcDies
  <2> QED BY <1>3, <1>8, <2>1, IdleTyped DEF Gone
<1>9. ASSUME \/ LeaseRunsOut \/ BecomesDue
             \/ \E t \in Client : \/ Drop(t) \/ Reconnect(t)
                                  \/ \E n \in 1 .. Len(stream), onPause \in BOOLEAN : Deliver(t, n, onPause)
      PROVE  UNCHANGED proc
  BY <1>9 DEF LeaseRunsOut, BecomesDue, Drop, Reconnect, Deliver
<1>10. Proc \subseteq Thread /\ Resolver \subseteq Thread BY DEF Thread
<1> QED BY <1>2, <1>5, <1>6, <1>7, <1>8, <1>9, <1>10 DEF Next, Thread

LEMMA TailsOnStep ==
  ASSUME Typed, NEW t \in Client, NEW n \in 1 .. Len(stream), NEW onPause \in BOOLEAN,
         Deliver(t, n, onPause)
  PROVE  /\ tail' \in [Client -> [open: BOOLEAN, over: BOOLEAN, cursor: Nat, seen: Seq(Kinds)]]
         /\ \A u \in Client : TailOK(tail[u])'
<1> DEFINE Tail_ == [open: BOOLEAN, over: BOOLEAN, cursor: Nat, seen: Seq(Kinds)]
<1>1. stream \in Seq(Kinds) /\ tail \in [Client -> Tail_] BY DEF Typed, TypeOK
<1>2. PICK s \in Tail_ : s = tail[t] /\ TailOK(s) BY <1>1 DEF Typed
<1>3. PICK q \in Seq(Kinds) : q = stream BY <1>1
<1>4. PICK k \in Nat : k = s.cursor /\ k + n <= Len(q) BY <1>2, <1>3 DEF Deliver
<1>5. PICK got : got = SubSeq(q, k + 1, k + n) OBVIOUS
<1>6. got \in Seq(Kinds)
  <2>1. \A i \in k + 1 .. k + n : q[i] \in Kinds BY <1>4
  <2>2. k + 1 \in Int /\ k + n \in Int BY <1>4
  <2>3. PICK a \in Int, b \in Int : a = k + 1 /\ b = k + n BY <2>2
  <2>4. \A i \in a .. b : q[i] \in Kinds BY <2>1, <2>3
  <2>5. SubSeq(q, a, b) \in Seq(Kinds) BY <2>4, SubSeqProperties
  <2> QED BY <1>5, <2>3, <2>5
<1>7. s.seen = SubSeq(q, 1, k) /\ s.seen \in Seq(Kinds) BY <1>2, <1>3, <1>4 DEF TailOK
<1>8. PICK joined \in Seq(Kinds) : joined = s.seen \o got BY <1>6, <1>7, ConcatProperties
<1>9. joined = SubSeq(q, 1, k + n)
  <2>1. n \in Nat BY <1>1
  <2>2. SubSeq(q, 1, k) \o SubSeq(q, k + 1, k + n) = SubSeq(q, 1, k + n)
    BY <1>4, <2>1, SubSeqJoins
  <2> QED BY <1>5, <1>7, <1>8, <2>2, Zenon
<1>10. PICK x : /\ tail' = [tail EXCEPT ![t] = x] /\ x \in Tail_
                /\ x.cursor = k + n /\ x.seen = joined
  <2> DEFINE y == [open |-> ~Stops(got[n], onPause), cursor |-> s.cursor + n,
                   over |-> IsTerminal(got[n]), seen |-> s.seen \o got]
  <2>1. tail' = [tail EXCEPT ![t] = y] BY <1>2, <1>3, <1>4, <1>5 DEF Deliver
  <2>2. y.open \in BOOLEAN /\ y.over \in BOOLEAN BY DEF Stops, IsTerminal
  <2>3. y \in Tail_ /\ y.cursor = k + n /\ y.seen = joined BY <1>4, <1>8, <2>2
  <2> QED BY <2>1, <2>3
<1>11. UNCHANGED stream BY DEF Deliver
<1>12. TailOK(x) BY <1>3, <1>4, <1>9, <1>10 DEF TailOK
<1>13. \A u \in Client : tail'[u] = IF u = t THEN x ELSE tail[u] BY <1>1, <1>10
<1>14. tail' \in [Client -> Tail_] BY <1>1, <1>10
<1>15. ASSUME NEW u \in Client PROVE TailOK(tail'[u])
  BY <1>12, <1>13 DEF Typed
<1> QED BY <1>11, <1>14, <1>15 DEF TailOK

LEMMA TypedStep == ASSUME Typed, Next, TurnStreamAssumption PROVE Typed'
<1>1. proc' \in [Thread -> ThreadState] /\ \A q \in Thread : ThreadOK(proc'[q])
  BY ThreadsTyped DEF Typed
<1>2. turn' \in JobDoc /\ lapsed' \in BOOLEAN /\ faults' \in Nat
  <2>1. turn \in JobDoc /\ lapsed \in BOOLEAN /\ faults \in Nat BY DEF Typed, TypeOK
  <2>2. ASSUME NEW p \in Proc, Work(p)
        PROVE  turn' \in JobDoc /\ lapsed' \in BOOLEAN /\ faults' \in Nat
    <3>1. Id[p] \in Worker BY DEF TurnStreamAssumption
    <3>2. Reaped \in JobDoc BY ReapedTyped DEF Typed
    <3>3. UNCHANGED <<lapsed, faults>>
      BY <2>2 DEF Work, Claim, ClaimNothing, MarkSeam, Trace, HandlerEnds, Complete, Fail, Act,
                  ReadMaxSeq, Insert, Collide
    <3>4. \/ turn' = turn \/ turn' = Claimed(Reaped, Id[p]) \/ turn' = Reaped
          \/ turn' = Completed(turn) \/ turn' = Failed(Turn, turn)
      BY <2>2 DEF Work, Claim, ClaimNothing, MarkSeam, Trace, HandlerEnds, Complete, Fail, Act,
                  ReadMaxSeq, Insert, Collide
    <3> QED BY <2>1, <3>1, <3>2, <3>3, <3>4, JobTyped
  <2>3. CASE LeaseRunsOut BY <2>1, <2>3 DEF LeaseRunsOut, JobDoc
  <2>4. CASE BecomesDue BY <2>1, <2>4 DEF BecomesDue, JobDoc
  <2>5. CASE \E p \in Thread : ProcDies(p) BY <2>1, <2>5 DEF ProcDies, Fault
  <2>6. CASE \/ \E r \in Resolver : Answer(r) \/ Act(r)
             \/ \E t \in Client : \/ Drop(t) \/ Reconnect(t)
                                  \/ \E n \in 1 .. Len(stream), onPause \in BOOLEAN : Deliver(t, n, onPause)
    BY <2>1, <2>6 DEF Answer, Act, ReadMaxSeq, Insert, Collide, Drop, Reconnect, Deliver
  <2> QED BY <2>2, <2>3, <2>4, <2>5, <2>6 DEF Next, Thread
<1>3. /\ stream' \in Seq(Kinds)
      /\ tail' \in [Client -> [open: BOOLEAN, over: BOOLEAN, cursor: Nat, seen: Seq(Kinds)]]
      /\ \A t \in Client : TailOK(tail[t])'
  <2>1. /\ stream \in Seq(Kinds)
        /\ tail \in [Client -> [open: BOOLEAN, over: BOOLEAN, cursor: Nat, seen: Seq(Kinds)]]
        /\ \A t \in Client : TailOK(tail[t])
    BY DEF Typed, TypeOK
  <2>2. CASE UNCHANGED <<stream, tail>> BY <2>1, <2>2 DEF TailOK
  <2>3. ASSUME NEW p \in Thread, Insert(p)
        PROVE  stream' \in Seq(Kinds) /\ UNCHANGED tail /\ \A t \in Client : TailOK(tail[t])'
    <3>1. PICK kind \in Kinds : stream' = Append(stream, kind)
      BY <2>3, InsertedTyped DEF Insert, Typed
    <3>2. UNCHANGED tail BY <2>3 DEF Insert
    <3>3. stream' \in Seq(Kinds) BY <2>1, <3>1
    <3>4. ASSUME NEW t \in Client PROVE TailOK(tail[t])'
      <4>1. PICK s : s = tail[t] /\ TailOK(s) /\ s.cursor \in Nat BY <2>1
      <4>2. TailOK(s)' BY <2>1, <3>1, <4>1, TailOnAppend
      <4> QED BY <3>2, <4>1, <4>2 DEF TailOK
    <3> QED BY <3>2, <3>3, <3>4
  <2>4. ASSUME NEW t \in Client,
               \/ Drop(t) \/ Reconnect(t)
               \/ \E n \in 1 .. Len(stream), onPause \in BOOLEAN : Deliver(t, n, onPause)
        PROVE  /\ UNCHANGED stream
               /\ tail' \in [Client -> [open: BOOLEAN, over: BOOLEAN, cursor: Nat, seen: Seq(Kinds)]]
               /\ \A u \in Client : TailOK(tail[u])'
    <3>1. CASE Drop(t) \/ Reconnect(t)
      <4>1. /\ UNCHANGED stream
            /\ tail' \in [Client -> [open: BOOLEAN, over: BOOLEAN, cursor: Nat, seen: Seq(Kinds)]]
            /\ \A u \in Client : tail'[u].cursor = tail[u].cursor /\ tail'[u].seen = tail[u].seen
        <5>1. PICK b \in BOOLEAN : tail' = [tail EXCEPT ![t].open = b] /\ UNCHANGED stream
          BY <3>1 DEF Drop, Reconnect
        <5>2. \A u \in Client : tail'[u] = IF u = t THEN [tail[u] EXCEPT !.open = b] ELSE tail[u]
          BY <2>1, <5>1
        <5>3. \A u \in Client : tail'[u].cursor = tail[u].cursor /\ tail'[u].seen = tail[u].seen
          BY <2>1, <5>2
        <5> QED BY <2>1, <5>1, <5>3
      <4> QED BY <2>1, <4>1 DEF TailOK
    <3>2. CASE \E n \in 1 .. Len(stream), onPause \in BOOLEAN : Deliver(t, n, onPause)
      BY <3>2, TailsOnStep DEF Deliver
    <3> QED BY <2>4, <3>1, <3>2
  <2>5. CASE \/ \E p \in Proc : Work(p) /\ ~Insert(p)
             \/ \E r \in Resolver : Answer(r) \/ (Act(r) /\ ~Insert(r))
             \/ \E p \in Thread : ProcDies(p)
             \/ LeaseRunsOut \/ BecomesDue
    BY <2>2, <2>5 DEF Work, Claim, ClaimNothing, MarkSeam, Trace, HandlerEnds, Complete, Fail, Act,
                      ReadMaxSeq, Collide, Answer, ProcDies, LeaseRunsOut, BecomesDue
  <2> QED BY <2>1, <2>3, <2>4, <2>5 DEF Next, Thread
<1>4. TypeOK' BY <1>1, <1>2, <1>3 DEF TypeOK, Thread, ThreadState, ThreadOK
<1> QED BY <1>3, <1>4 DEF Typed
-----------------------------------------------------------------------------
(* A run frame is the last one. *)

\* An executing thread goes on, and neither the turn nor the stream changes.
LEMMA ProcGoes ==
  ASSUME Typed, Core, TurnStreamAssumption, NEW p \in Proc, NEW s, Goes(p, s),
         UNCHANGED <<stream, turn>>, proc[p].pc # "idle",
         s.pc \notin {"idle", "complete"} => NoEnd,
         s.pc \in {"append", "insert"} => s.todo \in Todos
  PROVE  Core'
<1>1. \A q \in Thread : proc'[q] = IF q = p THEN s ELSE proc[q]
  BY DEF Typed, TypeOK, Goes, Thread
<1>2. TurnOK' /\ RunLast' BY DEF Core, TurnOK, RunLast, NoEnd
<1>3. ASSUME NEW q \in Proc PROVE ProcOK(q)'
  <2>1. \A x \in Proc : proc[x].pc # "idle" => x = p BY DEF Core, ProcOK
  <2>2. \A x \in Proc : proc'[x].pc # "idle" => x = p BY <1>1, <2>1 DEF Thread
  <2>3. HeldBy(turn, Id[p])' BY DEF Core, ProcOK, HeldBy
  <2>4. proc'[p] = s BY <1>1 DEF Thread
  <2>5. NoEnd <=> NoEnd' BY DEF NoEnd
  <2> QED BY <2>2, <2>3, <2>4, <2>5 DEF ProcOK, HeldBy
<1>4. ASSUME NEW r \in Resolver PROVE ResolverOK(r)'
  <2>1. proc'[r] = proc[r] BY <1>1 DEF Thread, TurnStreamAssumption
  <2> QED BY <2>1 DEF Core, ResolverOK, Paused, NoRun
<1> QED BY <1>2, <1>3, <1>4 DEF Core

\* The same of a thread that answers.
LEMMA ResolverGoes ==
  ASSUME Typed, Core, TurnStreamAssumption, NEW r \in Resolver, NEW s, Goes(r, s),
         UNCHANGED <<stream, turn>>,
         s.traced \/ (proc[r].traced = s.traced),
         s.pc # "idle" => /\ Paused /\ NoRun /\ s.traced /\ s.pc \in {"append", "insert"}
                          /\ s.todo \in {<<"trace", "run">>, <<"run">>}
  PROVE  Core'
<1>1. \A q \in Thread : proc'[q] = IF q = r THEN s ELSE proc[q]
  BY DEF Typed, TypeOK, Goes, Thread
<1>2. TurnOK' /\ RunLast' BY DEF Core, TurnOK, RunLast, NoEnd
<1>3. \A q \in Proc : proc'[q] = proc[q] BY <1>1 DEF Thread, TurnStreamAssumption
<1>4. ASSUME NEW q \in Proc PROVE ProcOK(q)'
  BY <1>3 DEF Core, ProcOK, HeldBy, NoEnd
<1>5. ASSUME NEW x \in Resolver PROVE ResolverOK(x)'
  <2>1. (Paused <=> Paused') /\ (NoRun <=> NoRun') BY DEF Paused, NoRun
  <2>2. CASE x = r
    <3>1. proc'[x] = s BY <1>1, <2>2 DEF Thread
    <3>2. Paused /\ ~s.traced => NoRun BY DEF Core, ResolverOK
    <3> QED BY <2>1, <3>1, <3>2 DEF ResolverOK
  <2>3. CASE x # r
    <3>1. proc'[x] = proc[x] BY <1>1, <2>3 DEF Thread
    <3> QED BY <2>1, <3>1 DEF Core, ResolverOK
  <2> QED BY <2>2, <2>3
<1> QED BY <1>2, <1>4, <1>5 DEF Core

\* What an append adds.
LEMMA Appended ==
  ASSUME stream \in Seq(Kinds), NEW kind \in Kinds, stream' = Append(stream, kind)
  PROVE  /\ kind \notin {"pause", "run"} /\ NoEnd => NoEnd'
         /\ kind # "run" /\ NoRun => NoRun'
         /\ NoRun => RunLast'
         /\ Paused => Paused'
         /\ kind # "pause" /\ ~Paused => ~Paused'
         /\ NoEnd => NoRun /\ ~Paused
<1>1. /\ DOMAIN stream = 1 .. Len(stream) /\ Len(stream) \in Nat
      /\ DOMAIN stream' = 1 .. Len(stream') /\ Len(stream') = Len(stream) + 1
      /\ stream'[Len(stream) + 1] = kind
      /\ \A i \in 1 .. Len(stream) : stream'[i] = stream[i]
  OBVIOUS
<1>2. \A i \in DOMAIN stream' : i \in DOMAIN stream \/ i = Len(stream) + 1 BY <1>1
<1>3. kind \notin {"pause", "run"} /\ NoEnd => NoEnd' BY <1>1, <1>2 DEF NoEnd
<1>4. kind # "run" /\ NoRun => NoRun' BY <1>1, <1>2 DEF NoRun
<1>5. NoRun => RunLast' BY <1>1, <1>2 DEF NoRun, RunLast
<1>6. Paused => Paused' BY <1>1, <1>2 DEF Paused
<1>7. kind # "pause" /\ ~Paused => ~Paused' BY <1>1, <1>2 DEF Paused
<1>8. NoEnd => NoRun /\ ~Paused BY DEF NoEnd, NoRun, Paused
<1> QED BY <1>3, <1>4, <1>5, <1>6, <1>7, <1>8

\* What is left of a list of frames, and what a thread does behind the last one.
LEMMA Rests ==
  /\ \A todo \in Todos :
       /\ Head(todo) \in Kinds
       /\ Tail(todo) # <<>> => Head(todo) = "message" /\ Tail(todo) \in Todos
  /\ Head(<<"trace", "run">>) = "trace" /\ Tail(<<"trace", "run">>) = <<"run">>
  /\ Head(<<"run">>) = "run" /\ Tail(<<"run">>) = <<>>
<1>1. \A k : Head(<<k>>) = k /\ Tail(<<k>>) = <<>> OBVIOUS
<1>2. Head(<<"message", "run">>) = "message" /\ Tail(<<"message", "run">>) = <<"run">> OBVIOUS
<1>3. Head(<<"trace", "run">>) = "trace" /\ Tail(<<"trace", "run">>) = <<"run">> OBVIOUS
<1>4. ASSUME NEW todo \in Todos
      PROVE  Head(todo) \in Kinds
             /\ (Tail(todo) # <<>> => Head(todo) = "message" /\ Tail(todo) \in Todos)
  <2>1. CASE todo = <<"message", "run">> BY <1>2, <2>1 DEF Todos, Kinds
  <2>2. CASE todo # <<"message", "run">>
    <3>1. PICK k \in Kinds : todo = <<k>> BY <2>2 DEF Todos, Kinds
    <3>2. Head(todo) = k /\ Tail(todo) = <<>> BY <1>1, <3>1
    <3> QED BY <3>2
  <2> QED BY <2>1, <2>2
<1> QED BY <1>1, <1>3, <1>4

LEMMA ProcInserts ==
  ASSUME Typed, Core, TurnStreamAssumption, NEW p \in Proc, Insert(p)
  PROVE  Core'
<1>1. PICK s \in ThreadState : s = proc[p] BY DEF Typed, TypeOK, Thread, ThreadState
<1>2. /\ s.pc = "insert" /\ s.todo \in Todos /\ NoEnd /\ HeldBy(turn, Id[p])
      /\ \A q \in Proc : proc[q].pc # "idle" => q = p
  BY <1>1 DEF Insert, Core, ProcOK
<1>3. PICK kind : kind = Head(s.todo) OBVIOUS
<1>4. kind \in Kinds /\ (Tail(s.todo) # <<>> => kind = "message" /\ Tail(s.todo) \in Todos)
  BY <1>2, <1>3, Rests
<1>5. stream \in Seq(Kinds) /\ stream' = Append(stream, kind) /\ UNCHANGED turn
  BY <1>1, <1>3 DEF Insert, Typed, TypeOK
<1>6. PICK x : x = Inserted(p) OBVIOUS
<1>7. /\ x.todo = Tail(s.todo)
      /\ x.pc = IF Tail(s.todo) = <<>> THEN Then(p, kind) ELSE "append"
  BY <1>1, <1>3, <1>6 DEF Inserted, ThreadState
<1>8. p \notin Resolver BY DEF TurnStreamAssumption
<1>9. x.pc # "complete" => kind \notin {"pause", "run"}
  BY <1>4, <1>7, <1>8 DEF Then
<1>10. x.pc \in {"append", "insert"} => x.todo \in Todos BY <1>4, <1>7, <1>8 DEF Then
<1>11. \A q \in Thread : proc'[q] = IF q = p THEN x ELSE proc[q]
  BY <1>6 DEF Insert, Goes, Typed, TypeOK, Thread
<1>12. NoEnd' \/ x.pc = "complete" BY <1>2, <1>4, <1>5, <1>9, Appended
<1>13. NoRun /\ ~Paused /\ RunLast' /\ (kind # "run" => NoRun') /\ (kind # "pause" => ~Paused')
  BY <1>2, <1>4, <1>5, Appended
<1>14. TurnOK' BY <1>2, <1>5 DEF Core, TurnOK, HeldBy
<1>15. ASSUME NEW q \in Proc PROVE ProcOK(q)'
  <2>1. \A y \in Proc : proc'[y].pc # "idle" => y = p BY <1>2, <1>11 DEF Thread
  <2>2. HeldBy(turn, Id[p])' BY <1>2, <1>5 DEF HeldBy
  <2>3. proc'[p] = x BY <1>11 DEF Thread
  <2> QED BY <1>10, <1>12, <2>1, <2>2, <2>3 DEF ProcOK, HeldBy
<1>16. ASSUME NEW r \in Resolver PROVE ResolverOK(r)'
  <2>1. proc'[r] = proc[r] BY <1>11 DEF Thread, TurnStreamAssumption
  <2>2. proc[r].pc = "idle" BY <1>13 DEF Core, ResolverOK
  <2>3. Paused' => NoRun' BY <1>13
  <2> QED BY <2>1, <2>2, <2>3 DEF ResolverOK
<1> QED BY <1>13, <1>14, <1>15, <1>16 DEF Core

LEMMA ResolverInserts ==
  ASSUME Typed, Core, TurnStreamAssumption, OneResolver, NEW r \in Resolver, Insert(r)
  PROVE  Core'
<1>1. PICK s \in ThreadState : s = proc[r] BY DEF Typed, TypeOK, Thread, ThreadState
<1>2. /\ s.pc = "insert" /\ Paused /\ NoRun /\ s.traced
      /\ s.todo \in {<<"trace", "run">>, <<"run">>}
  BY <1>1 DEF Insert, Core, ResolverOK
<1>3. PICK kind : kind = Head(s.todo) OBVIOUS
<1>4. /\ kind \in {"trace", "run"}
      /\ Tail(s.todo) = IF kind = "trace" THEN <<"run">> ELSE <<>>
  BY <1>2, <1>3, Rests
<1>5. stream \in Seq(Kinds) /\ stream' = Append(stream, kind) /\ UNCHANGED turn /\ kind \in Kinds
  BY <1>1, <1>3, <1>4 DEF Insert, Typed, TypeOK, Kinds
<1>6. PICK x : x = Inserted(r) OBVIOUS
<1>7. /\ x.todo = Tail(s.todo) /\ x.traced
      /\ x.pc = IF Tail(s.todo) = <<>> THEN "idle" ELSE "append"
  BY <1>1, <1>2, <1>3, <1>6 DEF Inserted, ThreadState, Then
<1>8. <<"run">> # <<>> OBVIOUS
<1>9. \A q \in Thread : proc'[q] = IF q = r THEN x ELSE proc[q]
  BY <1>6 DEF Insert, Goes, Typed, TypeOK, Thread
<1>10. RunLast' /\ Paused' /\ (kind # "run" => NoRun') /\ ~NoEnd
  BY <1>2, <1>5, Appended
<1>11. TurnOK' BY <1>5, <1>10 DEF Core, TurnOK
<1>12. ASSUME NEW q \in Proc PROVE ProcOK(q)'
  <2>1. \A y \in Proc : proc'[y] = proc[y] BY <1>9 DEF Thread, TurnStreamAssumption
  <2>2. proc[q].pc # "idle" => proc[q].pc = "complete" BY <1>10 DEF Core, ProcOK
  <2> QED BY <1>5, <2>1, <2>2 DEF Core, ProcOK, HeldBy
<1>13. ASSUME NEW y \in Resolver PROVE ResolverOK(y)'
  <2>1. y = r BY DEF OneResolver
  <2>2. proc'[y] = x BY <1>9, <2>1 DEF Thread
  <2>3. x.pc # "idle" => kind = "trace" /\ x.pc = "append" /\ x.todo = <<"run">>
    BY <1>4, <1>7, <1>8
  <2> QED BY <1>7, <1>10, <2>2, <2>3 DEF ResolverOK
<1> QED BY <1>10, <1>11, <1>12, <1>13 DEF Core

\* The turn itself changes; no thread but p does.
LEMMA ProcReports ==
  ASSUME Typed, Core, TurnStreamAssumption, NEW p \in Proc, NEW s, Goes(p, s),
         UNCHANGED stream, \A q \in Proc \ {p} : proc[q].pc = "idle", TurnOK',
         s.pc # "idle" => s.pc = "seam" /\ NoEnd /\ HeldBy(turn', Id[p])
  PROVE  Core'
<1>1. \A q \in Thread : proc'[q] = IF q = p THEN s ELSE proc[q]
  BY DEF Typed, TypeOK, Goes, Thread
<1>2. RunLast' BY DEF Core, RunLast
<1>3. ASSUME NEW q \in Proc PROVE ProcOK(q)'
  <2>1. \A y \in Proc : proc'[y].pc # "idle" => y = p BY <1>1 DEF Thread
  <2>2. proc'[p] = s BY <1>1 DEF Thread
  <2>3. NoEnd <=> NoEnd' BY DEF NoEnd
  <2> QED BY <2>1, <2>2, <2>3 DEF ProcOK, HeldBy
<1>4. ASSUME NEW r \in Resolver PROVE ResolverOK(r)'
  <2>1. proc'[r] = proc[r] BY <1>1 DEF Thread, TurnStreamAssumption
  <2> QED BY <2>1 DEF Core, ResolverOK, Paused, NoRun
<1> QED BY <1>2, <1>3, <1>4 DEF Core

LEMMA ReportedTurn ==
  ASSUME turn \in JobDoc, NEW w \in Worker
  PROVE  /\ Claimed(turn, w).lease = "live" /\ HeldBy(Claimed(turn, w), w)
         /\ Completed(turn).lease = "none" /\ Completed(turn).status # "pending"
         /\ Failed(Turn, turn).lease = "none"
<1>1. Claimed(turn, w).lease = "live" /\ HeldBy(Claimed(turn, w), w) BY DEF Claimed, HeldBy, JobDoc
<1>2. Completed(turn).lease = "none" /\ Completed(turn).status # "pending" BY DEF Completed, JobDoc
<1>3. Failed(Turn, turn).lease = "none" BY DEF Failed, JobDoc
<1> QED BY <1>1, <1>2, <1>3

LEMMA WorkKeepsCore ==
  ASSUME Typed, Core, TurnStreamAssumption, NEW p \in Proc, Work(p)
  PROVE  Core'
<1>1. PICK s \in ThreadState : s = proc[p] BY DEF Typed, TypeOK, Thread, ThreadState
<1>2. turn \in JobDoc /\ Id[p] \in Worker BY DEF Typed, TypeOK, TurnStreamAssumption
<1>3. Reaped = turn BY DEF Reaped, ExpiredLease, Core, TurnOK
<1>4. s.pc # "idle" => \A q \in Proc \ {p} : proc[q].pc = "idle" BY <1>1 DEF Core, ProcOK
<1>5. s.pc \notin {"idle", "complete"} => NoEnd BY <1>1 DEF Core, ProcOK
<1>6. NoEnd => NoEnd' \/ stream' # stream BY DEF NoEnd
<1>7. CASE Claim(p)
  <2>1. turn.status = "pending" /\ NoEnd BY <1>3, <1>7 DEF Claim, Core, TurnOK
  <2>2. \A q \in Proc : proc[q].pc = "idle" BY <2>1 DEF Core, ProcOK, HeldBy
  <2>3. turn' = Claimed(turn, Id[p]) /\ UNCHANGED stream BY <1>3, <1>7 DEF Claim
  <2>4. TurnOK' /\ HeldBy(turn', Id[p]) BY <1>2, <1>6, <2>1, <2>3, ReportedTurn DEF TurnOK
  <2>5. PICK x : x = [Idle EXCEPT !.pc = "seam"] OBVIOUS
  <2>6. x.pc = "seam" BY <2>5 DEF Idle
  <2>7. Goes(p, x) /\ x.pc = "seam" BY <1>7, <2>5, <2>6 DEF Claim
  <2> QED BY <2>1, <2>2, <2>3, <2>4, <2>7, ProcReports
<1>8. CASE ClaimNothing(p) BY <1>3, <1>8 DEF ClaimNothing
<1>9. CASE MarkSeam(p)
  <2>1. s.pc = "seam" /\ UNCHANGED <<stream, turn>> BY <1>1, <1>9 DEF MarkSeam
  <2>2. PICK y : y = [s EXCEPT !.pc = "handler"] OBVIOUS
  <2>3. PICK z : z = Appending(s, <<"restart">>) OBVIOUS
  <2>4. y.pc = "handler" /\ z.pc = "append" /\ z.todo = <<"restart">>
    BY <2>2, <2>3 DEF Appending, ThreadState
  <2>5. Goes(p, y) \/ Goes(p, z) BY <1>1, <1>9, <2>2, <2>3 DEF MarkSeam
  <2>6. PICK x : Goes(p, x) /\ (\/ x.pc = "handler"
                                \/ x.pc = "append" /\ x.todo = <<"restart">>)
    BY <2>4, <2>5
  <2> QED BY <1>1, <1>5, <2>1, <2>6, ProcGoes DEF Todos
<1>10. CASE Trace(p)
  <2>1. s.pc = "handler" /\ UNCHANGED <<stream, turn>> BY <1>1, <1>10 DEF Trace
  <2>2. PICK x : x = [Appending(s, <<"trace">>) EXCEPT !.traced = TRUE] OBVIOUS
  <2>3. x.pc = "append" /\ x.todo = <<"trace">> BY <2>2 DEF Appending, ThreadState
  <2>4. Goes(p, x) /\ x.pc = "append" /\ x.todo = <<"trace">> BY <1>1, <1>10, <2>2, <2>3 DEF Trace
  <2> QED BY <1>1, <1>5, <2>1, <2>4, ProcGoes DEF Todos
<1>11. ASSUME NEW kinds \in Endings, HandlerEnds(p, kinds) PROVE Core'
  <2>1. s.pc = "handler" /\ UNCHANGED <<stream, turn>> BY <1>1, <1>11 DEF HandlerEnds
  <2>2. PICK x : x = Appending(s, kinds) OBVIOUS
  <2>3. x.pc = "append" /\ x.todo = kinds BY <2>2 DEF Appending, ThreadState
  <2>4. Goes(p, x) /\ x.pc = "append" /\ x.todo = kinds BY <1>1, <1>11, <2>2, <2>3 DEF HandlerEnds
  <2>5. kinds \in Todos BY DEF Endings, Todos
  <2> QED BY <1>1, <1>5, <2>1, <2>4, <2>5, ProcGoes
<1>12. CASE Complete(p)
  <2>1. proc[p].pc = "complete" /\ HeldBy(turn, Id[p]) BY <1>12 DEF Complete, Core, ProcOK
  <2>2. turn' = Completed(turn) /\ Goes(p, Idle) /\ UNCHANGED stream BY <1>12, <2>1 DEF Complete
  <2>3. TurnOK' BY <1>2, <2>2, ReportedTurn DEF TurnOK
  <2> QED BY <1>1, <1>4, <2>1, <2>2, <2>3, ProcReports DEF Idle
<1>13. CASE Fail(p)
  <2>1. proc[p].pc = "fail" /\ HeldBy(turn, Id[p]) /\ NoEnd
    BY <1>13 DEF Fail, Core, ProcOK
  <2>2. turn' = Failed(Turn, turn) /\ Goes(p, Idle) /\ UNCHANGED stream BY <1>13, <2>1 DEF Fail
  <2>3. TurnOK' BY <1>2, <1>6, <2>1, <2>2, ReportedTurn DEF TurnOK
  <2> QED BY <1>1, <1>4, <2>1, <2>2, <2>3, ProcReports DEF Idle
<1>14. CASE ReadMaxSeq(p)
  <2>1. s.pc = "append" /\ UNCHANGED <<stream, turn>> BY <1>1, <1>14 DEF ReadMaxSeq
  <2>2. PICK x : x = [s EXCEPT !.pc = "insert", !.base = Len(stream) + 1] OBVIOUS
  <2>3. x.pc = "insert" /\ x.todo = s.todo BY <2>2 DEF ThreadState
  <2>4. Goes(p, x) /\ x.pc = "insert" /\ x.todo = s.todo BY <1>1, <1>14, <2>2, <2>3 DEF ReadMaxSeq
  <2>5. s.todo \in Todos BY <1>1, <2>1 DEF Core, ProcOK
  <2> QED BY <1>1, <1>5, <2>1, <2>4, <2>5, ProcGoes
<1>15. CASE Insert(p) BY <1>15, ProcInserts
<1>16. CASE Collide(p)
  <2>1. s.pc = "insert" /\ UNCHANGED <<stream, turn>> /\ p \notin Resolver
    BY <1>1, <1>16 DEF Collide, TurnStreamAssumption
  <2>2. PICK y : y = [s EXCEPT !.pc = "handler", !.todo = <<>>, !.base = 0] OBVIOUS
  <2>3. PICK z : z = [Appending(s, <<"error">>) EXCEPT !.base = 0] OBVIOUS
  <2>4. y.pc = "handler" /\ z.pc = "append" /\ z.todo = <<"error">> /\ Idle.pc = "idle"
    BY <2>2, <2>3 DEF Appending, ThreadState, Idle
  <2>5. Goes(p, y) \/ Goes(p, z) \/ Goes(p, Idle)
    BY <1>1, <1>16, <2>1, <2>2, <2>3 DEF Collide, Gone
  <2>6. PICK x : Goes(p, x) /\ (\/ x.pc \in {"idle", "handler"}
                                \/ x.pc = "append" /\ x.todo = <<"error">>)
    BY <2>4, <2>5
  <2> QED BY <1>1, <1>5, <2>1, <2>6, ProcGoes DEF Todos
<1> QED BY <1>7, <1>8, <1>9, <1>10, <1>11, <1>12, <1>13, <1>14, <1>15, <1>16 DEF Work, Act

LEMMA ResolverKeepsCore ==
  ASSUME Typed, Core, TurnStreamAssumption, OneResolver, NEW r \in Resolver, Answer(r) \/ Act(r)
  PROVE  Core'
<1>1. PICK s \in ThreadState : s = proc[r] BY DEF Typed, TypeOK, Thread, ThreadState
<1>2. CASE Answer(r)
  <2>1. PICK x : x = [Appending(Idle, <<"trace", "run">>) EXCEPT !.traced = TRUE] OBVIOUS
  <2>2. x.pc = "append" /\ x.traced /\ x.todo = <<"trace", "run">> BY <2>1 DEF Appending, Idle
  <2>3. Goes(r, x) /\ x.pc = "append" /\ x.traced /\ x.todo = <<"trace", "run">>
    BY <1>2, <2>1, <2>2 DEF Answer
  <2>4. Paused /\ NoRun /\ UNCHANGED <<stream, turn>> BY <1>2 DEF Answer, Core, ResolverOK
  <2> QED BY <2>3, <2>4, ResolverGoes
<1>3. CASE ReadMaxSeq(r)
  <2>1. s.pc = "append" /\ UNCHANGED <<stream, turn>> BY <1>1, <1>3 DEF ReadMaxSeq
  <2>2. /\ Paused /\ NoRun /\ s.traced /\ s.todo \in {<<"trace", "run">>, <<"run">>}
    BY <1>1, <2>1 DEF Core, ResolverOK
  <2>3. PICK x : x = [s EXCEPT !.pc = "insert", !.base = Len(stream) + 1] OBVIOUS
  <2>4. x.pc = "insert" /\ x.todo = s.todo /\ x.traced = s.traced BY <2>3 DEF ThreadState
  <2>5. Goes(r, x) /\ x.pc = "insert" /\ x.todo = s.todo /\ x.traced = s.traced
    BY <1>1, <1>3, <2>3, <2>4 DEF ReadMaxSeq
  <2> QED BY <1>1, <2>1, <2>2, <2>5, ResolverGoes
<1>4. CASE Insert(r) BY <1>4, ResolverInserts
<1>5. CASE Collide(r)
  <2>1. PICK x : x = [Idle EXCEPT !.traced = TRUE] OBVIOUS
  <2>2. x.pc = "idle" /\ x.traced BY <2>1 DEF Idle
  <2>3. Goes(r, x) /\ x.pc = "idle" /\ x.traced BY <1>5, <2>1, <2>2 DEF Collide, Gone
  <2>4. UNCHANGED <<stream, turn>> BY <1>5 DEF Collide
  <2> QED BY <2>3, <2>4, ResolverGoes
<1> QED BY <1>2, <1>3, <1>4, <1>5 DEF Act

LEMMA QuietStep ==
  ASSUME Typed, Quiet, TurnStreamAssumption, OneResolver, Next
  PROVE  Quiet'
<1> SUFFICES ASSUME ~lapsed' PROVE Core' BY DEF Quiet
<1>1. CASE LeaseRunsOut BY <1>1 DEF LeaseRunsOut
<1>2. ~lapsed /\ Core
  <2>1. CASE \E p \in Proc : Work(p)
    <3>1. UNCHANGED lapsed
      BY <2>1 DEF Work, Claim, ClaimNothing, MarkSeam, Trace, HandlerEnds, Complete, Fail, Act,
                  ReadMaxSeq, Insert, Collide
    <3> QED BY <3>1 DEF Quiet
  <2>2. CASE ~\E p \in Proc : Work(p)
    <3>1. UNCHANGED lapsed \/ LeaseRunsOut
      BY <2>2 DEF Next, Act, ReadMaxSeq, Insert, Collide, Answer, ProcDies, BecomesDue, Drop,
                  Reconnect, Deliver
    <3> QED BY <1>1, <3>1 DEF Quiet, LeaseRunsOut
  <2> QED BY <2>1, <2>2
<1>3. ASSUME NEW p \in Proc, Work(p) PROVE Core' BY <1>2, <1>3, WorkKeepsCore
<1>4. ASSUME NEW r \in Resolver, Answer(r) \/ Act(r) PROVE Core'
  BY <1>2, <1>4, ResolverKeepsCore
<1>5. ASSUME NEW p \in Proc, ProcDies(p) PROVE Core'
  <2>1. /\ Goes(p, Idle) /\ UNCHANGED <<stream, turn>> /\ proc[p].pc # "idle" /\ Idle.pc = "idle"
    BY <1>5 DEF ProcDies, Gone, TurnStreamAssumption, Idle
  <2> QED BY <1>2, <2>1, ProcGoes
<1>6. ASSUME NEW r \in Resolver, ProcDies(r) PROVE Core'
  <2>1. PICK x : x = [Idle EXCEPT !.traced = TRUE] OBVIOUS
  <2>2. x.pc = "idle" /\ x.traced BY <2>1 DEF Idle
  <2>3. Goes(r, x) /\ UNCHANGED <<stream, turn>> BY <1>6, <2>1 DEF ProcDies, Gone
  <2> QED BY <1>2, <2>2, <2>3, ResolverGoes
<1>7. CASE BecomesDue
  <2>1. UNCHANGED <<stream, proc>> BY <1>7 DEF BecomesDue
  <2>2. turn'.status = turn.status /\ turn'.lease = turn.lease /\ turn'.worker = turn.worker
    BY <1>7 DEF BecomesDue, Typed, TypeOK, JobDoc
  <2> QED BY <1>2, <2>1, <2>2
          DEF Core, TurnOK, RunLast, ProcOK, ResolverOK, HeldBy, NoEnd, NoRun, Paused
<1>8. CASE UNCHANGED <<stream, turn, proc>>
  BY <1>2, <1>8 DEF Core, TurnOK, RunLast, ProcOK, ResolverOK, HeldBy, NoEnd, NoRun, Paused
<1>9. ASSUME NEW t \in Client,
             \/ Drop(t) \/ Reconnect(t)
             \/ \E n \in 1 .. Len(stream), onPause \in BOOLEAN : Deliver(t, n, onPause)
      PROVE  UNCHANGED <<stream, turn, proc>>
  BY <1>9 DEF Drop, Reconnect, Deliver
<1> QED BY <1>1, <1>3, <1>4, <1>5, <1>6, <1>7, <1>8, <1>9 DEF Next
-----------------------------------------------------------------------------
LEMMA TypedStutters == ASSUME Typed, UNCHANGED vars PROVE Typed'
BY DEF vars, Typed, TypeOK, TailOK

\* The stream, its executors and the tail keep their types, and the tail holds exactly
\* the frames up to its cursor (turns.py _run_turn, app.py _tail_turn).
THEOREM TypesHold == Spec => []Typed
<1>1. Init => Typed BY InitTyped, TurnStreamAssumption
<1>2. Typed /\ [Next]_vars => Typed' BY TypedStep, TypedStutters, TurnStreamAssumption
<1> QED BY <1>1, <1>2, PTL DEF Spec

\* Whoever appends, reads or drops, and however often, a client that comes back is shown
\* what follows the last frame it saw (app.py turn_stream_ep, _tail_turn).
THEOREM TailsMissNothing == Spec => []TailSeesEveryFrame
<1>1. Typed => TailSeesEveryFrame BY DEF Typed, TailOK, TailSeesEveryFrame
<1> QED BY <1>1, TypesHold, PTL

LEMMA QuietInit == Init => Quiet
<1> SUFFICES ASSUME Init PROVE Core BY DEF Quiet
<1>1. stream = <<>> /\ turn = Enqueued("due") /\ \A p \in Thread : proc[p] = Idle
  BY DEF Init, Thread
<1>2. turn.lease = "none" BY <1>1 DEF Enqueued, Blank
<1>3. DOMAIN stream = {} BY <1>1
<1>4. \A p \in Thread : proc[p].pc = "idle" BY <1>1 DEF Idle
<1> QED BY <1>2, <1>3, <1>4
        DEF Core, TurnOK, RunLast, ProcOK, ResolverOK, NoEnd, NoRun, Paused, Thread

LEMMA QuietStutters == ASSUME Quiet, UNCHANGED vars PROVE Quiet'
BY DEF vars, Quiet, Core, TurnOK, RunLast, ProcOK, ResolverOK, HeldBy, NoEnd, NoRun, Paused

\* Where an approval is answered once, no frame follows the run a turn ended in as long
\* as no lease runs out, whatever dies, fails or is retried (app.py post_event_stream;
\* turns.py _run_turn, resolve_on_stream).
THEOREM RunFrameEndsStream == OneResolver /\ Spec => []RunFrameIsLast
<1>1. Init => Quiet BY QuietInit
<1>2. OneResolver /\ Typed /\ Quiet /\ [Next]_vars => Quiet'
  BY QuietStep, QuietStutters, TurnStreamAssumption
<1>3. Quiet => RunFrameIsLast BY DEF Quiet, Core, RunLast, RunFrameIsLast
<1>4. OneResolver => []OneResolver
  <2>1. OneResolver => OneResolver' BY DEF OneResolver
  <2> QED BY <2>1, PTL
<1> QED BY <1>1, <1>2, <1>3, <1>4, TypesHold, PTL DEF Spec
=============================================================================
