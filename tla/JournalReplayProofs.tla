------------------------ MODULE JournalReplayProofs ------------------------
(***************************************************************************)
(* Theorems about JournalReplay, for every handler and every change of the *)
(* world around it.                                                        *)
(*                                                                         *)
(* A handler is a function of what it was told, so two passes that were    *)
(* told the same ask the same next.  The inductive invariant says that     *)
(* what was told is a path of the handler (Path), whose ordinals grow      *)
(* (Below) and which the journal would answer again (Backed); the journal  *)
(* is written at the ordinal after it only, which keeps it so.             *)
(***************************************************************************)
EXTENDS JournalReplay, SequenceTheorems, TLAPS

\* The key is that of this call, in some world.
KeyedAs(ask, key) ==
  /\ key.kind = ask.kind /\ key.id = ask.id
  /\ ~(ask.kind = "call" /\ ask.id \in Pinned) =>
       key.arg = (IF ask.kind = "note" THEN NoValue ELSE ask.arg)
  /\ ask.kind # "call" => key.permission = "none"

NextOf(h, items) == Asks(h, Outcomes(items))

\* x answers the call that handler h makes after these items, at the ordinal they left.
Follows(h, items, x) ==
  /\ NextOf(h, items).kind \in Kind /\ KeyedAs(NextOf(h, items), x.key)
  /\ x.seq = SeqAfter(items)
  /\ x.outcome = "denied" <=> Refused(x.key)

Path(h, items) == \A i \in 1 .. Len(items) : Follows(h, SubSeq(items, 1, i - 1), items[i])

\* Ordinals only grow.
Below(items) ==
  \A i \in 1 .. Len(items) : items[i].outcome # "denied" => items[i].seq < SeqAfter(items)

Sound(h, items) ==
  /\ items \in Seq(Item) /\ Len(items) <= MaxCalls
  /\ SeqAfter(items) \in 0 .. Len(items)
  /\ Path(h, items) /\ Below(items)

\* Journal j would answer this item again.
Backed(j, x) ==
  /\ x.outcome = "drift" =>
       /\ j[x.seq].key # x.key
       /\ IF x.key.kind = "gate" THEN j[x.seq].status # "absent" ELSE j[x.seq].status = "done"
  /\ x.outcome \in Value =>
       /\ j[x.seq].key = x.key /\ j[x.seq].answer = x.outcome
       /\ j[x.seq].status = (IF x.key.kind = "gate" THEN "approved" ELSE "done")

Holds(j, items) == \A i \in 1 .. Len(items) : Backed(j, items[i])

\* The entry of the last approval, in this state.
GateOf(app, outcome, answer) ==
  [status |-> outcome, key |-> app[Len(app)].question, answer |-> answer, approval |-> Len(app)]

\* The question of the last approval is what handler h asks after these items.
AtGate(h, items, app) ==
  /\ app # <<>> /\ Len(items) < MaxCalls
  /\ NextOf(h, items).kind = "gate" /\ KeyedAs(NextOf(h, items), app[Len(app)].question)

Waiting ==
  status = "waiting_approval" =>
    /\ AtGate(handler, tape, approval) /\ tape = told /\ body = Idle
    /\ Pending.status = "pending"
    /\ journal[SeqAfter(tape)] = GateOf(approval, "pending", NoValue)
    /\ \A s \in Ordinal : journal[s].approval = Len(approval) => s = SeqAfter(tape)

Retracing ==
  /\ steady => Holds(journal, tape)
  /\ steady => SameWorld
  /\ steady => status # "waiting_approval"
  /\ steady /\ approval = <<>> => tape = <<>>
  /\ steady /\ approval # <<>> => AtGate(handler, tape, approval) /\ Pending.answer \in Value
  /\ steady /\ approval # <<>> /\ Len(told) <= Len(tape) =>
       journal[SeqAfter(tape)] = GateOf(approval, "approved", Pending.answer)

InBody ==
  body # Idle =>
    /\ status = "running" /\ Len(told) < MaxCalls
    /\ body \in [pc : {"running"}, arg : Value, key : Key]
    /\ NextOf(handler, told).kind \in {"call", "note"}
    /\ KeyedAs(NextOf(handler, told), body.key)
    /\ ~Refused(body.key)
    /\ journal[SeqAfter(told)].status # "done"

EntryOK(s, e, app, items) ==
  /\ e.approval <= Len(app)
  /\ e.status = "done" =>
       /\ e.approval = 0 /\ e.answer \in Value
       /\ \E n \in 1 .. Len(items) : items[n] = [seq |-> s, key |-> e.key, outcome |-> e.answer]
  /\ e.status = "approved" =>
       /\ e.answer \in Value
       /\ \E a \in 1 .. Len(app) :
            app[a] = [status |-> "approved", question |-> e.key, answer |-> e.answer]

Entries == \A s \in Ordinal : EntryOK(s, journal[s], approval, log)

Logged == \A n \in 1 .. Len(log) : journal[log[n].seq].status = "done"

\* The two halves of AnswersAreOwn.
OnceEach(items) == \A m, n \in 1 .. Len(items) : items[m].seq = items[n].seq => m = n

Own(x, app, items) ==
  x.outcome \in Value =>
    IF x.key.kind = "gate"
    THEN \E a \in 1 .. Len(app) :
           app[a] = [status |-> "approved", question |-> x.key, answer |-> x.outcome]
    ELSE \E n \in 1 .. Len(items) : items[n] = x

AllOwn == OnceEach(log) /\ \A i \in 1 .. Len(told) : Own(told[i], approval, log)

\* What Retraces says, for sequences.
Agree(a, b) == \A i \in (1 .. Len(a)) \cap (1 .. Len(b)) : a[i] = b[i]

Retrace ==
  steady =>
    /\ Agree(told, tape)
    /\ approval # <<>> /\ (body # Idle \/ status # "running") => Len(told) > Len(tape)
    /\ approval # <<>> /\ Len(told) > Len(tape) =>
         told[Len(tape) + 1] = [seq |-> SeqAfter(tape), key |-> Pending.question,
                                outcome |-> Pending.answer]

IInv ==
  /\ TypeOK
  /\ Sound(handler, told)
  /\ Sound(handler, tape)
  /\ Holds(journal, told)
  /\ Waiting
  /\ Retracing
  /\ InBody
  /\ Entries
  /\ Logged
  /\ Retrace
  /\ AllOwn

-----------------------------------------------------------------------------
(* Items.                                                                  *)

LEMMA Assumptions ==
  /\ Pinned \subseteq Tool /\ Adopting \subseteq Tool
  /\ NoValue \notin Value /\ "denied" \notin Value /\ "failed" \notin Value /\ "drift" \notin Value
  /\ MaxCalls \in Nat /\ MaxChanges \in Nat
BY ToolAssumption, ValueAssumption, BoundAssumption DEF Errors

LEMMA OutcomesType ==
  ASSUME NEW items \in Seq(Item)
  PROVE  /\ Outcomes(items) \in [1 .. Len(items) -> Outcome]
         /\ \A i \in 1 .. Len(items) : items[i] \in Item /\ Outcomes(items)[i] = items[i].outcome
<1>1. DOMAIN items = 1 .. Len(items) OBVIOUS
<1>2. \A i \in 1 .. Len(items) : items[i] \in Item OBVIOUS
<1> QED BY <1>1, <1>2 DEF Outcomes, Item

\* The next call is one, and there is room for it.
LEMMA NextType ==
  ASSUME NEW h \in Handler, NEW items \in Seq(Item), Len(items) <= MaxCalls
  PROVE  /\ NextOf(h, items) \in Ask
         /\ NextOf(h, items).kind \in Kind => Len(items) < MaxCalls
<1>1. Outcomes(items) \in [1 .. Len(items) -> Outcome] BY OutcomesType
<1>2. Len(items) \in 0 .. MaxCalls BY Assumptions
<1>3. NextOf(h, items) \in Ask BY <1>1, <1>2, AskAssumption DEF NextOf
<1>4. ASSUME Len(items) = MaxCalls PROVE NextOf(h, items).kind \notin Kind
  BY <1>1, <1>4, LengthAssumption DEF NextOf
<1> QED BY <1>2, <1>3, <1>4, Assumptions

\* Sequences that agree up to n start alike.
LEMMA SameStart ==
  ASSUME NEW a \in Seq(Item), NEW b \in Seq(Item), NEW n \in Nat, n <= Len(a), n <= Len(b),
         \A i \in 1 .. n : a[i] = b[i]
  PROVE  /\ SubSeq(a, 1, n) = SubSeq(b, 1, n)
         /\ n = Len(a) => a = SubSeq(b, 1, n)
<1>1. Len(a) \in Nat /\ Len(b) \in Nat BY LenProperties
<1>2. \A i \in 1 .. n : a[i] \in Item /\ b[i] \in Item BY <1>1, ElementOfSeq
<1>3. /\ SubSeq(a, 1, n) \in Seq(Item) /\ Len(SubSeq(a, 1, n)) = n
      /\ \A i \in 1 .. n : SubSeq(a, 1, n)[i] = a[i]
  BY <1>2, SubSeqProperties
<1>4. /\ SubSeq(b, 1, n) \in Seq(Item) /\ Len(SubSeq(b, 1, n)) = n
      /\ \A i \in 1 .. n : SubSeq(b, 1, n)[i] = b[i]
  BY <1>2, SubSeqProperties
<1>5. SubSeq(a, 1, n) = SubSeq(b, 1, n) BY <1>3, <1>4, SeqEqual
<1>6. SubSeq(a, 1, Len(a)) = a BY SubSeqFull
<1> QED BY <1>5, <1>6

LEMMA SeqAfterAppend ==
  ASSUME NEW items \in Seq(Item), NEW x \in Item
  PROVE  /\ x.outcome = "denied" => SeqAfter(Append(items, x)) = x.seq
         /\ x.outcome # "denied" => SeqAfter(Append(items, x)) = x.seq + 1
<1>1. Append(items, x) # <<>> /\ Append(items, x)[Len(Append(items, x))] = x OBVIOUS
<1> QED BY <1>1 DEF SeqAfter

LEMMA AppendSound ==
  ASSUME NEW h, NEW items, NEW x \in Item,
         Sound(h, items), Len(items) < MaxCalls, Follows(h, items, x)
  PROVE  Sound(h, Append(items, x))
<1> DEFINE more == Append(items, x)
<1>1. items \in Seq(Item) /\ Len(items) \in Nat /\ SeqAfter(items) \in 0 .. Len(items)
  BY DEF Sound
<1>2. more \in Seq(Item) /\ Len(more) = Len(items) + 1 /\ more[Len(items) + 1] = x
      /\ \A i \in 1 .. Len(items) : more[i] = items[i]
  BY <1>1
<1>3. x.seq = SeqAfter(items) BY DEF Follows
<1>4. /\ SeqAfter(more) \in 0 .. Len(more) /\ SeqAfter(items) <= SeqAfter(more)
      /\ x.outcome # "denied" => x.seq < SeqAfter(more)
  BY <1>1, <1>2, <1>3, SeqAfterAppend
<1> HIDE DEF more
<1>5. ASSUME NEW i \in 1 .. Len(more) PROVE Follows(h, SubSeq(more, 1, i - 1), more[i])
  <2>1. CASE i \in 1 .. Len(items)
    <3>1. SubSeq(more, 1, i - 1) = SubSeq(items, 1, i - 1)
      <4>1. /\ i - 1 \in Nat /\ i - 1 <= Len(more) /\ i - 1 <= Len(items)
            /\ \A k \in 1 .. (i - 1) : more[k] = items[k]
        BY <1>1, <1>2, <2>1
      <4> QED BY <1>1, <1>2, <4>1, SameStart
    <3>2. Follows(h, SubSeq(items, 1, i - 1), items[i]) BY <2>1 DEF Sound, Path
    <3> QED BY <1>2, <2>1, <3>1, <3>2
  <2>2. CASE i = Len(items) + 1
    <3>1. SubSeq(more, 1, i - 1) = items
      <4>1. /\ i - 1 = Len(items) /\ Len(items) <= Len(more)
            /\ \A k \in 1 .. Len(items) : items[k] = more[k]
        BY <1>1, <1>2, <2>2
      <4> QED BY <1>1, <1>2, <4>1, SameStart
    <3> QED BY <1>2, <2>2, <3>1
  <2> QED BY <1>1, <1>2, <2>1, <2>2
<1>6. ASSUME NEW i \in 1 .. Len(more), more[i].outcome # "denied"
      PROVE  more[i].seq < SeqAfter(more)
  <2>1. CASE i \in 1 .. Len(items)
    <3>1. items[i].seq < SeqAfter(items) BY <1>2, <1>6, <2>1 DEF Sound, Below
    <3>2. items[i] \in Item BY <1>1, <2>1
    <3>3. items[i].seq \in Int BY <3>2, Assumptions DEF Item, Ordinal
    <3> QED BY <1>1, <1>2, <1>4, <2>1, <3>1, <3>3
  <2>2. CASE i = Len(items) + 1 BY <1>2, <1>4, <1>6, <2>2
  <2> QED BY <1>1, <1>2, <2>1, <2>2
<1>7. Len(more) <= MaxCalls BY <1>1, <1>2, Assumptions
<1>8. Path(h, more) BY <1>5 DEF Path
<1>9. Below(more) BY <1>6 DEF Below
<1> QED BY <1>2, <1>4, <1>7, <1>8, <1>9 DEF Sound, more

LEMMA EmptySound ==
  ASSUME NEW h
  PROVE  Sound(h, <<>>)
BY Assumptions DEF Sound, Path, Below, SeqAfter

\* Items that agree as far as the shorter goes.
LEMMA CommonPrefix ==
  ASSUME NEW a \in Seq(Item), NEW b \in Seq(Item), Len(a) <= Len(b),
         \A i \in (1 .. Len(a)) \cap (1 .. Len(b)) : a[i] = b[i]
  PROVE  /\ a = SubSeq(b, 1, Len(a))
         /\ Len(a) = Len(b) => a = b
<1>1. /\ Len(a) \in Nat /\ Len(b) \in Nat
      /\ \A i \in 1 .. Len(a) : a[i] = b[i]
  BY LenProperties
<1>2. a = SubSeq(b, 1, Len(a)) BY <1>1, SameStart
<1>3. SubSeq(b, 1, Len(b)) = b BY SubSeqFull
<1> QED BY <1>2, <1>3

\* Writing the journal after the items leaves what backs them.
LEMMA WriteAfter ==
  ASSUME NEW h, NEW items, Sound(h, items), NEW j, NEW j2, Holds(j, items),
         \A s \in Ordinal : s # SeqAfter(items) => j2[s] = j[s]
  PROVE  Holds(j2, items)
<1> SUFFICES ASSUME NEW i \in 1 .. Len(items) PROVE Backed(j2, items[i])
  BY DEF Holds
<1>1. items[i] \in Item /\ Backed(j, items[i]) BY DEF Sound, Holds
<1>2. CASE items[i].outcome = "denied" BY <1>2, Assumptions DEF Backed
<1>3. CASE items[i].outcome # "denied"
  <2>1. items[i].seq < SeqAfter(items) /\ SeqAfter(items) \in Int
    BY <1>3 DEF Sound, Below
  <2>2. items[i].seq \in Ordinal /\ items[i].seq \in Int BY <1>1, Assumptions DEF Item, Ordinal
  <2>3. j2[items[i].seq] = j[items[i].seq] BY <2>1, <2>2
  <2> QED BY <1>1, <2>3 DEF Backed
<1> QED BY <1>2, <1>3

-----------------------------------------------------------------------------
(* Calls.                                                                  *)

LEMMA KeyType ==
  ASSUME TypeOK, NEW ask \in Ask, ask.kind \in Kind
  PROVE  /\ ContentKey(ask) \in Key /\ KeyedAs(ask, ContentKey(ask))
         /\ ask.kind = "call" => ContentKey(ask).permission = permission[ask.id]
         /\ ask.kind = "call" /\ ask.id \in Pinned => ContentKey(ask).arg = mem
<1> DEFINE arg == CASE ask.kind = "call" /\ ask.id \in Pinned -> mem
                    [] ask.kind = "note" -> NoValue
                    [] OTHER -> ask.arg
           perm == IF ask.kind = "call" THEN permission[ask.id] ELSE "none"
<1>1. ask.id \in Tool /\ ask.arg \in Value BY DEF Ask
<1>2. arg \in Value \cup {NoValue} BY <1>1 DEF TypeOK
<1>3. perm \in Permission \cup {"none"} BY <1>1 DEF TypeOK
<1>4. PICK k : k = [kind |-> ask.kind, id |-> ask.id, arg |-> arg, permission |-> perm] OBVIOUS
<1>5. k.kind = ask.kind /\ k.id = ask.id /\ k.arg = arg /\ k.permission = perm BY <1>4
<1>6. k \in Key BY <1>1, <1>2, <1>3, <1>4 DEF Key
<1>7. k = ContentKey(ask) BY <1>4 DEF ContentKey
<1>8. KeyedAs(ask, k) BY <1>5 DEF KeyedAs
<1> QED BY <1>5, <1>6, <1>7, <1>8

LEMMA CallingFacts ==
  ASSUME IInv, NEW ask, NEW key, Calling(ask, key)
  PROVE  /\ ask \in Ask /\ ask = NextOf(handler, told) /\ key \in Key /\ KeyedAs(ask, key)
         /\ Len(told) < MaxCalls /\ Len(told) \in Nat /\ SeqAfter(told) \in Ordinal
         /\ status = "running" /\ body = Idle /\ ask.kind \in Kind
         /\ ask.kind = "call" => key.permission = permission[ask.id]
         /\ ask.kind = "call" /\ ask.id \in Pinned => key.arg = mem
<1>1. ask = NextOf(handler, told) BY DEF Calling, NextCall, NextOf
<1>2. told \in Seq(Item) /\ handler \in Handler /\ Len(told) <= MaxCalls
      /\ SeqAfter(told) \in 0 .. Len(told)
  BY DEF IInv, TypeOK, Sound
<1>3. Len(told) \in Nat BY <1>2, LenProperties
<1>4. ask \in Ask /\ Len(told) < MaxCalls BY <1>1, <1>2, NextType DEF Calling
<1>5. key \in Key /\ KeyedAs(ask, key)
      /\ (ask.kind = "call" => key.permission = permission[ask.id])
      /\ (ask.kind = "call" /\ ask.id \in Pinned => key.arg = mem)
  BY <1>4, KeyType DEF Calling, IInv
<1> QED BY <1>1, <1>2, <1>3, <1>4, <1>5, Assumptions DEF Calling, Ordinal

\* Two keys of one call, in one world, are the same.
LEMMA SameKey ==
  ASSUME NEW ask \in Ask, NEW a \in Key, NEW b \in Key, KeyedAs(ask, a), KeyedAs(ask, b),
         ask.kind = "call" => a.permission = b.permission,
         ask.kind = "call" /\ ask.id \in Pinned => a.arg = b.arg
  PROVE  a = b
<1>1. a.kind = b.kind /\ a.id = b.id /\ a.arg = b.arg /\ a.permission = b.permission
  BY DEF KeyedAs
<1>2. a = [kind |-> a.kind, id |-> a.id, arg |-> a.arg, permission |-> a.permission] BY DEF Key
<1>3. b = [kind |-> b.kind, id |-> b.id, arg |-> b.arg, permission |-> b.permission] BY DEF Key
<1> QED BY <1>1, <1>2, <1>3

\* A steady replay that has not come to its gate makes the call on its tape; then it
\* asks the question of its gate.
LEMMA OnTape ==
  ASSUME IInv, steady, approval # <<>>, NEW ask, NEW key, Calling(ask, key)
  PROVE  /\ Len(tape) \in Nat
         /\ Len(told) < Len(tape) =>
              LET x == tape[Len(told) + 1] IN
              /\ x \in Item /\ x.key = key /\ x.seq = SeqAfter(told)
              /\ x.outcome = "denied" <=> Refused(key)
              /\ x.outcome # "failed" /\ Backed(journal, x)
         /\ Len(told) = Len(tape) =>
              /\ ask.kind = "gate" /\ key.kind = "gate" /\ key = Pending.question
              /\ SeqAfter(told) = SeqAfter(tape) /\ Pending.answer \in Value
              /\ journal[SeqAfter(told)] = GateOf(approval, "approved", Pending.answer)
<1>1. /\ ask \in Ask /\ ask = NextOf(handler, told) /\ key \in Key /\ KeyedAs(ask, key)
      /\ Len(told) \in Nat /\ ask.kind \in Kind
      /\ ask.kind = "call" => key.permission = permission[ask.id]
      /\ ask.kind = "call" /\ ask.id \in Pinned => key.arg = mem
  BY CallingFacts
<1>2. told \in Seq(Item) /\ tape \in Seq(Item) /\ Path(handler, tape) BY DEF IInv, Sound
<1>3. Len(tape) \in Nat BY <1>2, LenProperties
<1>4. Agree(told, tape) /\ SameWorld /\ Holds(journal, tape)
      /\ AtGate(handler, tape, approval) /\ Pending.answer \in Value
  BY DEF IInv, Retrace, Retracing
<1>5. ASSUME Len(told) < Len(tape)
      PROVE  LET x == tape[Len(told) + 1] IN
             /\ x \in Item /\ x.key = key /\ x.seq = SeqAfter(told)
             /\ x.outcome = "denied" <=> Refused(key)
             /\ x.outcome # "failed" /\ Backed(journal, x)
  <2> DEFINE n == Len(told) + 1
             x == tape[n]
  <2>1. n \in 1 .. Len(tape) /\ n - 1 = Len(told) /\ Len(told) <= Len(tape) BY <1>1, <1>3, <1>5
  <2>2. x \in Item /\ x.key \in Key
    <3>1. x \in Item BY <1>2, <2>1
    <3> QED BY <3>1 DEF Item
  <2>3. told = SubSeq(tape, 1, n - 1) BY <1>2, <1>4, <2>1, CommonPrefix DEF Agree
  <2>4. Follows(handler, SubSeq(tape, 1, n - 1), x) BY <1>2, <2>1 DEF Path
  <2>5. Follows(handler, told, x) BY <2>3, <2>4
  <2>6. n \in DOMAIN tape BY <1>2, <2>1, LenProperties
  <2>7. /\ x.outcome # "failed"
        /\ x.key.kind = "call" => x.key.permission = permission[x.key.id]
        /\ x.key.kind = "call" /\ x.key.id \in Pinned => x.key.arg = mem
    BY <1>4, <2>6 DEF SameWorld
  <2>8. KeyedAs(ask, x.key) /\ x.seq = SeqAfter(told) /\ (x.outcome = "denied" <=> Refused(x.key))
    BY <1>1, <2>5 DEF Follows
  <2>9. x.key = key
    <3>1. x.key.kind = ask.kind /\ x.key.id = ask.id BY <2>8 DEF KeyedAs
    <3> QED BY <1>1, <2>2, <2>7, <2>8, <3>1, SameKey
  <2>10. Backed(journal, x) BY <1>4, <2>1 DEF Holds
  <2> QED BY <2>2, <2>7, <2>8, <2>9, <2>10
<1>6. ASSUME Len(told) = Len(tape)
      PROVE  /\ ask.kind = "gate" /\ key.kind = "gate" /\ key = Pending.question
             /\ SeqAfter(told) = SeqAfter(tape) /\ Pending.answer \in Value
             /\ journal[SeqAfter(told)] = GateOf(approval, "approved", Pending.answer)
  <2>1. Len(told) <= Len(tape) BY <1>3, <1>6
  <2>2. told = tape BY <1>2, <1>4, <1>6, <2>1, CommonPrefix DEF Agree
  <2>3. ask.kind = "gate" /\ KeyedAs(ask, Pending.question)
    BY <1>1, <1>4, <2>2 DEF AtGate, Pending
  <2>4. Pending \in ApprovalDoc /\ Pending.question \in Key
    <3>1. approval \in Seq(ApprovalDoc) /\ approval # <<>> BY DEF IInv, TypeOK
    <3>2. approval[Len(approval)] \in ApprovalDoc BY <3>1
    <3> QED BY <3>2 DEF Pending, ApprovalDoc
  <2>5. key = Pending.question BY <1>1, <2>3, <2>4, SameKey
  <2>6. journal[SeqAfter(tape)] = GateOf(approval, "approved", Pending.answer)
    BY <2>1 DEF IInv, Retracing
  <2>7. key.kind = "gate" BY <1>1, <2>3 DEF KeyedAs
  <2> QED BY <1>4, <2>2, <2>3, <2>5, <2>6, <2>7
<1> QED BY <1>3, <1>5, <1>6

LEMMA ItemOf ==
  ASSUME NEW seq \in Ordinal, NEW key \in Key, NEW outcome \in Outcome
  PROVE  LET x == [seq |-> seq, key |-> key, outcome |-> outcome] IN
         x \in Item /\ x.seq = seq /\ x.key = key /\ x.outcome = outcome
BY DEF Item

\* What a journal answers to a call is one thing.
LEMMA SameAnswer ==
  ASSUME NEW j, NEW x \in Item, NEW y \in Item, x.key = y.key, x.seq = y.seq,
         Backed(j, x), Backed(j, y), x.outcome # "failed", y.outcome # "failed",
         x.outcome = "denied" <=> y.outcome = "denied"
  PROVE  x = y
<1>1. /\ x = [seq |-> x.seq, key |-> x.key, outcome |-> x.outcome]
      /\ y = [seq |-> y.seq, key |-> y.key, outcome |-> y.outcome]
  BY DEF Item
<1>2. /\ x.outcome \in Value \cup {"denied", "failed", "drift"}
      /\ y.outcome \in Value \cup {"denied", "failed", "drift"}
  BY DEF Item, Outcome, Errors
<1>3. x.outcome = y.outcome BY <1>2 DEF Backed
<1> QED BY <1>1, <1>3

\* The handler is told one thing more: what does not depend on the journal.
LEMMA ToldOne ==
  ASSUME IInv, NEW x \in Item, status = "running", Len(told) < MaxCalls,
         Follows(handler, told, x),
         steady /\ approval # <<>> /\ Len(told) < Len(tape) => x = tape[Len(told) + 1],
         steady /\ approval # <<>> /\ Len(told) = Len(tape) =>
           x = [seq |-> SeqAfter(tape), key |-> Pending.question, outcome |-> Pending.answer],
         told' = Append(told, x), body' = Idle,
         UNCHANGED <<handler, status, approval, tape>>, steady' => steady
  PROVE  /\ told' \in Seq(Item) /\ Len(told') = Len(told) + 1 /\ Len(told) \in Nat
         /\ told'[Len(told) + 1] = x /\ \A i \in 1 .. Len(told) : told'[i] = told[i]
         /\ Sound(handler, told)' /\ Waiting' /\ InBody' /\ Retrace'
<1>1. told \in Seq(Item) /\ tape \in Seq(Item) /\ Sound(handler, told) BY DEF IInv, Sound
<1>2. Len(told) \in Nat /\ Len(tape) \in Nat BY <1>1, LenProperties
<1>3. /\ told' \in Seq(Item) /\ Len(told') = Len(told) + 1
      /\ told'[Len(told) + 1] = x /\ \A i \in 1 .. Len(told) : told'[i] = told[i]
  BY <1>1, <1>2
<1>4. Sound(handler, told)'
  <2>1. Sound(handler, Append(told, x)) BY <1>1, AppendSound
  <2> QED BY <2>1
<1>5. Waiting' /\ InBody' BY DEF Waiting, InBody
<1>6. Retrace'
  <2> SUFFICES ASSUME steady'
               PROVE  /\ Agree(told, tape)'
                      /\ approval # <<>> /\ Len(told') > Len(tape) =>
                           told'[Len(tape) + 1] =
                             [seq |-> SeqAfter(tape), key |-> Pending.question,
                              outcome |-> Pending.answer]
    BY DEF Retrace, Pending
  <2>1. /\ steady /\ Agree(told, tape)
        /\ approval # <<>> /\ Len(told) > Len(tape) =>
             told[Len(tape) + 1] = [seq |-> SeqAfter(tape), key |-> Pending.question,
                                    outcome |-> Pending.answer]
    BY DEF IInv, Retrace
  <2>2. approval = <<>> => tape = <<>> BY <2>1 DEF IInv, Retracing
  <2>3. \A i \in (1 .. Len(told')) \cap (1 .. Len(tape)) : told'[i] = tape[i]
    <3> TAKE i \in (1 .. Len(told')) \cap (1 .. Len(tape))
    <3>1. CASE i \in 1 .. Len(told) BY <1>3, <2>1, <3>1 DEF Agree
    <3>2. CASE i = Len(told) + 1
      <4>1. approval # <<>> BY <1>2, <2>2
      <4> QED BY <1>2, <1>3, <2>1, <3>2, <4>1
    <3> QED BY <1>2, <1>3, <3>1, <3>2
  <2>4. ASSUME approval # <<>>, Len(told') > Len(tape)
        PROVE  told'[Len(tape) + 1] = [seq |-> SeqAfter(tape), key |-> Pending.question,
                                       outcome |-> Pending.answer]
    <3>1. CASE Len(told) > Len(tape)
      <4>1. Len(tape) + 1 \in 1 .. Len(told) BY <1>2, <3>1
      <4>2. told'[Len(tape) + 1] = told[Len(tape) + 1] BY <1>3, <4>1
      <4> QED BY <2>1, <2>4, <3>1, <4>2
    <3>2. CASE Len(told) = Len(tape) BY <1>3, <2>1, <2>4, <3>2
    <3> QED BY <1>2, <1>3, <2>4, <3>1, <3>2
  <2> QED BY <2>3, <2>4 DEF Agree
<1> QED BY <1>2, <1>3, <1>4, <1>5, <1>6

\* The handler is told what the journal, the approvals or prepare say: nothing else changes.
LEMMA Telling ==
  ASSUME IInv, NEW x \in Item, status = "running", Len(told) < MaxCalls,
         Follows(handler, told, x), Backed(journal, x), Own(x, approval, log),
         steady /\ approval # <<>> /\ Len(told) < Len(tape) => x = tape[Len(told) + 1],
         steady /\ approval # <<>> /\ Len(told) = Len(tape) =>
           x = [seq |-> SeqAfter(tape), key |-> Pending.question, outcome |-> Pending.answer],
         told' = Append(told, x), body' = Idle,
         UNCHANGED <<handler, world, run, changes, tape, log>>, StaysSteady
  PROVE  IInv'
<1>1. /\ UNCHANGED <<handler, permission, mem, status, journal, approval, changes, tape, log>>
      /\ steady' => steady /\ SameWorld'
      /\ steady' \in BOOLEAN
  BY DEF world, run, StaysSteady, IInv, TypeOK
<1>2. /\ told' \in Seq(Item) /\ Len(told') = Len(told) + 1 /\ Len(told) \in Nat
      /\ told'[Len(told) + 1] = x /\ \A i \in 1 .. Len(told) : told'[i] = told[i]
      /\ Sound(handler, told)' /\ Waiting' /\ InBody' /\ Retrace'
  BY <1>1, ToldOne
<1>3. TypeOK' BY <1>1, <1>2 DEF IInv, TypeOK
<1>4. Sound(handler, tape)' BY <1>1 DEF IInv
<1>5. ASSUME NEW i \in 1 .. Len(told') PROVE Backed(journal, told'[i]) /\ Own(told'[i], approval, log)
  <2>1. CASE i \in 1 .. Len(told) BY <1>2, <2>1 DEF IInv, Holds, AllOwn
  <2>2. CASE i = Len(told) + 1 BY <1>2, <2>2
  <2> QED BY <1>2, <2>1, <2>2
<1>6. Holds(journal, told)' BY <1>1, <1>5 DEF Holds
<1>7. AllOwn' BY <1>1, <1>5 DEF AllOwn, IInv
<1>8. Entries' /\ Logged' BY <1>1 DEF IInv, Entries, Logged
<1>9. Retracing'
  <2>0. Len(tape) \in Nat BY LenProperties DEF IInv, Sound
  <2>1. Len(told') <= Len(tape) => Len(told) <= Len(tape) BY <1>2, <2>0
  <2> QED BY <1>1, <2>1 DEF IInv, Retracing, Pending
<1> QED BY <1>2, <1>3, <1>4, <1>6, <1>7, <1>8, <1>9 DEF IInv

\* The handler's call is answered without being executed.
LEMMA Answering ==
  ASSUME IInv, NEW ask, NEW key, NEW outcome \in Outcome, Calling(ask, key),
         outcome = "denied" <=> Refused(key), outcome # "failed",
         LET x == [seq |-> SeqAfter(told), key |-> key, outcome |-> outcome] IN
           Backed(journal, x) /\ Own(x, approval, log),
         Tell(outcome, key),
         UNCHANGED <<handler, world, run, body, changes, tape, log>>, StaysSteady
  PROVE  IInv'
<1> DEFINE x == [seq |-> SeqAfter(told), key |-> key, outcome |-> outcome]
<1>1. /\ ask \in Ask /\ ask = NextOf(handler, told) /\ key \in Key /\ KeyedAs(ask, key)
      /\ Len(told) < MaxCalls /\ SeqAfter(told) \in Ordinal
      /\ status = "running" /\ body = Idle /\ ask.kind \in Kind
  BY CallingFacts
<1>2. x \in Item /\ x.seq = SeqAfter(told) /\ x.key = key /\ x.outcome = outcome BY <1>1, ItemOf
<1>3. Backed(journal, x) /\ Own(x, approval, log) OBVIOUS
<1>4. told' = Append(told, x) BY DEF Tell
<1> HIDE DEF x
<1>5. Follows(handler, told, x) BY <1>1, <1>2 DEF Follows
<1>6. ASSUME steady, approval # <<>>, Len(told) < Len(tape) PROVE x = tape[Len(told) + 1]
  <2> DEFINE y == tape[Len(told) + 1]
  <2>1. /\ y \in Item /\ y.key = key /\ y.seq = SeqAfter(told)
        /\ y.outcome = "denied" <=> Refused(key)
        /\ y.outcome # "failed" /\ Backed(journal, y)
    BY <1>6, OnTape
  <2> HIDE DEF y
  <2>2. x = y BY <1>2, <1>3, <2>1, SameAnswer
  <2> QED BY <2>2 DEF y
<1>7. ASSUME steady, approval # <<>>, Len(told) = Len(tape)
      PROVE  x = [seq |-> SeqAfter(tape), key |-> Pending.question, outcome |-> Pending.answer]
  <2>1. /\ key.kind = "gate" /\ key = Pending.question
        /\ SeqAfter(told) = SeqAfter(tape) /\ Pending.answer \in Value
        /\ journal[SeqAfter(told)] = GateOf(approval, "approved", Pending.answer)
    BY <1>7, OnTape
  <2>2. journal[SeqAfter(told)].key = key /\ journal[SeqAfter(told)].answer = Pending.answer
    BY <2>1 DEF GateOf, Pending
  <2>3. outcome \in Value \cup {"drift"}
    <3>1. ~Refused(key) BY <2>1 DEF Refused
    <3> QED BY <3>1 DEF Outcome, Errors
  <2>4. outcome = Pending.answer BY <1>2, <1>3, <2>2, <2>3 DEF Backed
  <2>5. x = [seq |-> SeqAfter(told), key |-> key, outcome |-> outcome] BY DEF x
  <2> QED BY <2>1, <2>4, <2>5
<1>8. body' = Idle BY <1>1
<1> QED BY <1>1, <1>2, <1>3, <1>4, <1>5, <1>6, <1>7, <1>8, Telling

LEMMA RefuseKeeps ==
  ASSUME IInv, NEW ask, NEW key, Refuse(ask, key)
  PROVE  IInv'
<1>1. /\ Calling(ask, key) /\ Refused(key) /\ Tell("denied", key) /\ StaysSteady
      /\ UNCHANGED <<handler, world, run, body, changes, tape, log>>
  BY DEF Refuse
<1>2. "denied" \in Outcome BY DEF Outcome, Errors
<1>3. LET x == [seq |-> SeqAfter(told), key |-> key, outcome |-> "denied"] IN
      Backed(journal, x) /\ Own(x, approval, log)
  BY Assumptions DEF Backed, Own
<1> QED BY <1>1, <1>2, <1>3, Answering

\* What the journal holds at the ordinal.
LEMMA LookingFacts ==
  ASSUME IInv, NEW ask, NEW key, NEW e, Looking(ask, key, e)
  PROVE  /\ Calling(ask, key) /\ ~Refused(key)
         /\ e = journal[SeqAfter(told)] /\ e \in Entry /\ SeqAfter(told) \in Ordinal
         /\ EntryOK(SeqAfter(told), e, approval, log)
         /\ key \in Key /\ key.kind = ask.kind
<1>1. Calling(ask, key) /\ ~Refused(key) /\ e = journal[SeqAfter(told)] BY DEF Looking
<1>2. SeqAfter(told) \in Ordinal /\ key \in Key /\ KeyedAs(ask, key) BY <1>1, CallingFacts
<1>3. e \in Entry BY <1>1, <1>2 DEF IInv, TypeOK
<1>4. EntryOK(SeqAfter(told), e, approval, log) BY <1>1, <1>2 DEF IInv, Entries
<1> QED BY <1>1, <1>2, <1>3, <1>4 DEF KeyedAs

LEMMA RecallKeeps ==
  ASSUME IInv, NEW ask, NEW key, NEW e, Recall(ask, key, e)
  PROVE  IInv'
<1>1. /\ Looking(ask, key, e) /\ ask.kind # "gate" /\ e.status = "done" /\ e.key = key
      /\ Tell(e.answer, key) /\ StaysSteady
      /\ UNCHANGED <<handler, world, run, body, changes, tape, log>>
  BY DEF Recall
<1>2. /\ Calling(ask, key) /\ ~Refused(key) /\ e = journal[SeqAfter(told)]
      /\ EntryOK(SeqAfter(told), e, approval, log) /\ key.kind # "gate"
  BY <1>1, LookingFacts
<1>3. /\ e.answer \in Value
      /\ \E n \in 1 .. Len(log) : log[n] = [seq |-> SeqAfter(told), key |-> key, outcome |-> e.answer]
  BY <1>1, <1>2 DEF EntryOK
<1>4. e.answer \in Outcome /\ e.answer # "denied" /\ e.answer # "failed" /\ e.answer # "drift"
  BY <1>3, Assumptions DEF Outcome
<1>5. LET x == [seq |-> SeqAfter(told), key |-> key, outcome |-> e.answer] IN
      Backed(journal, x) /\ Own(x, approval, log)
  <2>1. PICK x : x = [seq |-> SeqAfter(told), key |-> key, outcome |-> e.answer] OBVIOUS
  <2>2. x.seq = SeqAfter(told) /\ x.key = key /\ x.outcome = e.answer BY <2>1
  <2>3. Backed(journal, x) BY <1>1, <1>2, <1>4, <2>2 DEF Backed
  <2>4. Own(x, approval, log) BY <1>2, <1>3, <2>1, <2>2 DEF Own
  <2> QED BY <2>1, <2>3, <2>4
<1> QED BY <1>1, <1>2, <1>4, <1>5, Answering

LEMMA DriftKeeps ==
  ASSUME IInv, NEW ask, NEW key, NEW e, Drift(ask, key, e) \/ GateDrift(ask, key, e)
  PROVE  IInv'
<1>1. /\ Looking(ask, key, e) /\ e.key # key /\ Tell("drift", key) /\ StaysSteady
      /\ ask.kind # "gate" => e.status = "done"
      /\ ask.kind = "gate" => e.status # "absent"
      /\ UNCHANGED <<handler, world, run, body, changes, tape, log>>
  BY DEF Drift, GateDrift
<1>2. Calling(ask, key) /\ ~Refused(key) /\ e = journal[SeqAfter(told)] /\ key.kind = ask.kind
  BY <1>1, LookingFacts
<1>3. "drift" \in Outcome BY DEF Outcome, Errors
<1>4. LET x == [seq |-> SeqAfter(told), key |-> key, outcome |-> "drift"] IN
      Backed(journal, x) /\ Own(x, approval, log)
  BY <1>1, <1>2, Assumptions DEF Backed, Own
<1> QED BY <1>1, <1>2, <1>3, <1>4, Answering

LEMMA PassGateKeeps ==
  ASSUME IInv, NEW ask, NEW key, NEW e, PassGate(ask, key, e)
  PROVE  IInv'
<1>1. /\ Looking(ask, key, e) /\ ask.kind = "gate" /\ e.status = "approved" /\ e.key = key
      /\ Tell(e.answer, key) /\ StaysSteady
      /\ UNCHANGED <<handler, world, run, body, changes, tape, log>>
  BY DEF PassGate
<1>2. /\ Calling(ask, key) /\ ~Refused(key) /\ e = journal[SeqAfter(told)]
      /\ EntryOK(SeqAfter(told), e, approval, log) /\ key.kind = "gate"
  BY <1>1, LookingFacts
<1>3. /\ e.answer \in Value
      /\ \E a \in 1 .. Len(approval) :
           approval[a] = [status |-> "approved", question |-> key, answer |-> e.answer]
  BY <1>1, <1>2 DEF EntryOK
<1>4. e.answer \in Outcome /\ e.answer # "denied" /\ e.answer # "failed" /\ e.answer # "drift"
  BY <1>3, Assumptions DEF Outcome
<1>5. LET x == [seq |-> SeqAfter(told), key |-> key, outcome |-> e.answer] IN
      Backed(journal, x) /\ Own(x, approval, log)
  BY <1>1, <1>2, <1>3, <1>4 DEF Backed, Own
<1> QED BY <1>1, <1>2, <1>4, <1>5, Answering

LEMMA BeginKeeps ==
  ASSUME IInv, NEW ask, NEW key, NEW e, Begin(ask, key, e)
  PROVE  IInv'
<1>1. /\ Looking(ask, key, e) /\ ask.kind # "gate" /\ e.status # "done"
      /\ body' = Running(ask.arg, key) /\ StaysSteady
      /\ UNCHANGED <<handler, permission, mem, status, journal, approval, told, changes, tape, log>>
  BY DEF Begin, world, run
<1>2. /\ Calling(ask, key) /\ ~Refused(key) /\ e = journal[SeqAfter(told)] /\ key \in Key
      /\ key.kind = ask.kind
  BY <1>1, LookingFacts
<1>3. /\ ask \in Ask /\ ask = NextOf(handler, told) /\ KeyedAs(ask, key)
      /\ Len(told) < MaxCalls /\ Len(told) \in Nat
      /\ status = "running" /\ ask.kind \in {"call", "note"}
  BY <1>1, <1>2, CallingFacts DEF Kind
<1>4. /\ body' \in [pc : {"running"}, arg : Value, key : Key] /\ body'.key = key
  BY <1>1, <1>2, <1>3 DEF Running, Ask
<1>5. /\ steady' => steady /\ SameWorld'
      /\ steady' \in BOOLEAN
  BY <1>1 DEF StaysSteady, IInv, TypeOK
<1>6. TypeOK' BY <1>1, <1>4, <1>5 DEF IInv, TypeOK
<1>7. InBody' BY <1>1, <1>2, <1>3, <1>4 DEF InBody
<1>8. Waiting' BY <1>1, <1>3 DEF Waiting
<1>9. Retracing' BY <1>1, <1>5 DEF IInv, Retracing, Pending
<1>10. Retrace'
  <2>1. ASSUME steady, approval # <<>> PROVE Len(told) > Len(tape)
    <3>0. Len(tape) \in Nat BY <1>2, <2>1, OnTape
    <3>1. ASSUME Len(told) < Len(tape) PROVE FALSE
      <4> DEFINE y == tape[Len(told) + 1]
      <4>1. /\ y \in Item /\ y.key = key /\ y.seq = SeqAfter(told)
            /\ y.outcome = "denied" <=> Refused(key)
            /\ y.outcome # "failed" /\ Backed(journal, y)
        BY <1>2, <2>1, <3>1, OnTape
      <4> HIDE DEF y
      <4>2. y.outcome \in Value \cup {"drift"} BY <1>2, <4>1 DEF Item, Outcome, Errors
      <4>3. y.key.kind # "gate" /\ journal[y.seq].status # "done" BY <1>1, <1>2, <4>1
      <4> QED BY <4>1, <4>2, <4>3 DEF Backed
    <3>2. ASSUME Len(told) = Len(tape) PROVE FALSE BY <1>1, <1>2, <2>1, <3>2, OnTape
    <3> QED BY <1>3, <3>0, <3>1, <3>2
  <2> QED BY <1>1, <1>5, <2>1 DEF IInv, Retrace, Agree, Pending
<1> QED BY <1>1, <1>6, <1>7, <1>8, <1>9, <1>10 DEF IInv, Entries, Logged, AllOwn

\* What a running body is of.
LEMMA BodyFacts ==
  ASSUME IInv, body.pc = "running"
  PROVE  /\ status = "running" /\ Len(told) < MaxCalls /\ SeqAfter(told) \in Ordinal
         /\ Len(told) \in Nat /\ Len(tape) \in Nat
         /\ body.key \in Key /\ body.arg \in Value /\ body.key.kind \in {"call", "note"}
         /\ NextOf(handler, told).kind \in Kind /\ KeyedAs(NextOf(handler, told), body.key)
         /\ ~Refused(body.key) /\ journal[SeqAfter(told)].status # "done"
         /\ steady /\ approval # <<>> => Len(told) > Len(tape)
<1>1. body # Idle BY DEF Idle
<1>2. /\ status = "running" /\ Len(told) < MaxCalls
      /\ body \in [pc : {"running"}, arg : Value, key : Key]
      /\ NextOf(handler, told).kind \in {"call", "note"}
      /\ KeyedAs(NextOf(handler, told), body.key)
      /\ ~Refused(body.key)
      /\ journal[SeqAfter(told)].status # "done"
  BY <1>1 DEF IInv, InBody
<1>3. told \in Seq(Item) /\ tape \in Seq(Item) /\ SeqAfter(told) \in 0 .. Len(told)
  BY DEF IInv, Sound
<1>4. Len(told) \in Nat /\ Len(tape) \in Nat BY <1>3, LenProperties
<1>5. SeqAfter(told) \in Ordinal BY <1>2, <1>3, <1>4, Assumptions DEF Ordinal
<1>6. steady /\ approval # <<>> => Len(told) > Len(tape) BY <1>1 DEF IInv, Retrace
<1>7. body.key \in Key /\ body.arg \in Value BY <1>2
<1>8. body.key.kind \in {"call", "note"} BY <1>2 DEF KeyedAs
<1> QED BY <1>2, <1>4, <1>5, <1>6, <1>7, <1>8 DEF Kind

LEMMA FailKeeps ==
  ASSUME IInv, Fail
  PROVE  IInv'
<1> DEFINE x == [seq |-> SeqAfter(told), key |-> body.key, outcome |-> "failed"]
<1>1. /\ body.pc = "running" /\ told' = Append(told, x) /\ body' = Idle /\ StaysSteady
      /\ UNCHANGED <<handler, world, run, changes, tape, log>>
  BY DEF Fail, Tell
<1>2. /\ status = "running" /\ Len(told) < MaxCalls /\ SeqAfter(told) \in Ordinal
      /\ Len(told) \in Nat /\ Len(tape) \in Nat /\ body.key \in Key
      /\ NextOf(handler, told).kind \in Kind /\ KeyedAs(NextOf(handler, told), body.key)
      /\ ~Refused(body.key)
      /\ steady /\ approval # <<>> => Len(told) > Len(tape)
  BY <1>1, BodyFacts
<1>3. "failed" \in Outcome BY DEF Outcome, Errors
<1>4. x \in Item /\ x.seq = SeqAfter(told) /\ x.key = body.key /\ x.outcome = "failed"
  BY <1>2, <1>3, ItemOf
<1> HIDE DEF x
<1>5. Follows(handler, told, x) BY <1>2, <1>4 DEF Follows
<1>6. Backed(journal, x) /\ Own(x, approval, log) BY <1>4, Assumptions DEF Backed, Own
<1>7. /\ steady /\ approval # <<>> /\ Len(told) < Len(tape) => x = tape[Len(told) + 1]
      /\ steady /\ approval # <<>> /\ Len(told) = Len(tape) =>
           x = [seq |-> SeqAfter(tape), key |-> Pending.question, outcome |-> Pending.answer]
  BY <1>2
<1> QED BY <1>1, <1>2, <1>4, <1>5, <1>6, <1>7, Telling

\* Items that a longer journal of calls and approvals still owns.
LEMMA StillOwn ==
  ASSUME NEW x, NEW app, NEW app2, NEW items, NEW items2, Own(x, app, items),
         \A a \in 1 .. Len(app) :
           app[a].status = "approved" => a \in 1 .. Len(app2) /\ app2[a] = app[a],
         \A n \in 1 .. Len(items) : n \in 1 .. Len(items2) /\ items2[n] = items[n]
  PROVE  Own(x, app2, items2)
<1> SUFFICES ASSUME x.outcome \in Value
             PROVE  IF x.key.kind = "gate"
                    THEN \E a \in 1 .. Len(app2) :
                           app2[a] = [status |-> "approved", question |-> x.key,
                                      answer |-> x.outcome]
                    ELSE \E n \in 1 .. Len(items2) : items2[n] = x
  BY DEF Own
<1>1. CASE x.key.kind = "gate"
  <2>1. PICK a \in 1 .. Len(app) :
          app[a] = [status |-> "approved", question |-> x.key, answer |-> x.outcome]
    BY <1>1 DEF Own
  <2>2. app[a].status = "approved" BY <2>1
  <2> QED BY <1>1, <2>1, <2>2
<1>2. CASE x.key.kind # "gate"
  <2>1. PICK n \in 1 .. Len(items) : items[n] = x BY <1>2 DEF Own
  <2> QED BY <1>2, <2>1
<1> QED BY <1>1, <1>2

LEMMA StillOK ==
  ASSUME NEW s, NEW e, NEW app, NEW app2, NEW items, NEW items2, EntryOK(s, e, app, items),
         e.approval \in Nat, Len(app) \in Nat, Len(app2) \in Nat, Len(app) <= Len(app2),
         \A a \in 1 .. Len(app) :
           app[a].status = "approved" => a \in 1 .. Len(app2) /\ app2[a] = app[a],
         \A n \in 1 .. Len(items) : n \in 1 .. Len(items2) /\ items2[n] = items[n]
  PROVE  EntryOK(s, e, app2, items2)
<1>1. e.approval <= Len(app2) BY DEF EntryOK
<1>2. ASSUME e.status = "done"
      PROVE  /\ e.approval = 0 /\ e.answer \in Value
             /\ \E n \in 1 .. Len(items2) :
                  items2[n] = [seq |-> s, key |-> e.key, outcome |-> e.answer]
  <2>1. PICK n \in 1 .. Len(items) : items[n] = [seq |-> s, key |-> e.key, outcome |-> e.answer]
    BY <1>2 DEF EntryOK
  <2> QED BY <1>2, <2>1 DEF EntryOK
<1>3. ASSUME e.status = "approved"
      PROVE  /\ e.answer \in Value
             /\ \E a \in 1 .. Len(app2) :
                  app2[a] = [status |-> "approved", question |-> e.key, answer |-> e.answer]
  <2>1. PICK a \in 1 .. Len(app) :
          app[a] = [status |-> "approved", question |-> e.key, answer |-> e.answer]
    BY <1>3 DEF EntryOK
  <2>2. app[a].status = "approved" BY <2>1
  <2> QED BY <1>3, <2>1, <2>2 DEF EntryOK
<1> QED BY <1>1, <1>2, <1>3 DEF EntryOK

LEMMA CommitKeeps ==
  ASSUME IInv, NEW v \in Value, Commit(v)
  PROVE  IInv'
<1> DEFINE at == SeqAfter(told)
           x == [seq |-> at, key |-> body.key, outcome |-> v]
           done == [status |-> "done", key |-> body.key, answer |-> v, approval |-> 0]
<1>1. /\ body.pc = "running" /\ told' = Append(told, x) /\ body' = Idle /\ StaysSteady
      /\ mem' = (IF body.key.kind = "note" THEN v ELSE Adopted(body.key.id, v))
      /\ journal' = [journal EXCEPT ![at] = done] /\ log' = Append(log, x)
      /\ UNCHANGED <<handler, permission, status, approval, changes, tape>>
  BY DEF Commit, Tell
<1>2. /\ status = "running" /\ Len(told) < MaxCalls /\ at \in Ordinal
      /\ Len(told) \in Nat /\ Len(tape) \in Nat /\ body.key \in Key
      /\ body.key.kind \in {"call", "note"}
      /\ NextOf(handler, told).kind \in Kind /\ KeyedAs(NextOf(handler, told), body.key)
      /\ ~Refused(body.key) /\ journal[at].status # "done"
      /\ steady /\ approval # <<>> => Len(told) > Len(tape)
  BY <1>1, BodyFacts
<1>3. v \in Outcome /\ v # "denied" /\ v # "drift" BY Assumptions DEF Outcome
<1>4. x \in Item /\ x.seq = at /\ x.key = body.key /\ x.outcome = v BY <1>2, <1>3, ItemOf
<1>5. journal \in [Ordinal -> Entry] /\ log \in Seq(Item) /\ approval \in Seq(ApprovalDoc)
      /\ told \in Seq(Item) /\ tape \in Seq(Item)
  BY DEF IInv, TypeOK
<1>6. done \in Entry /\ done.status = "done" /\ done.key = body.key /\ done.answer = v
      /\ done.approval = 0
  BY <1>2 DEF Entry
<1>7. journal' \in [Ordinal -> Entry] /\ journal'[at] = done
      /\ \A s \in Ordinal : s # at => journal'[s] = journal[s]
  BY <1>1, <1>2, <1>5, <1>6
<1>8. /\ log' \in Seq(Item) /\ Len(log') = Len(log) + 1 /\ Len(log) \in Nat
      /\ log'[Len(log) + 1] = x /\ \A n \in 1 .. Len(log) : log'[n] = log[n]
  BY <1>1, <1>4, <1>5
<1>9. mem' \in Value BY <1>1 DEF Adopted, IInv, TypeOK
<1>10. /\ steady' => steady /\ SameWorld'
       /\ steady' \in BOOLEAN
  BY <1>1 DEF StaysSteady, IInv, TypeOK
<1> HIDE DEF x, done
<1>11. Follows(handler, told, x) BY <1>2, <1>3, <1>4 DEF Follows
<1>12. /\ told' \in Seq(Item) /\ Len(told') = Len(told) + 1
       /\ told'[Len(told) + 1] = x /\ \A i \in 1 .. Len(told) : told'[i] = told[i]
       /\ Sound(handler, told)' /\ Waiting' /\ InBody' /\ Retrace'
  <2>1. /\ steady /\ approval # <<>> /\ Len(told) < Len(tape) => x = tape[Len(told) + 1]
        /\ steady /\ approval # <<>> /\ Len(told) = Len(tape) =>
             x = [seq |-> SeqAfter(tape), key |-> Pending.question, outcome |-> Pending.answer]
    BY <1>2
  <2> QED BY <1>1, <1>2, <1>4, <1>10, <1>11, <2>1, ToldOne
<1>13. TypeOK' BY <1>1, <1>7, <1>8, <1>9, <1>10, <1>12 DEF IInv, TypeOK
<1>14. Sound(handler, tape)' BY <1>1 DEF IInv
<1>15. Holds(journal', told)
  BY <1>7, WriteAfter DEF IInv
<1>16. Holds(journal, told)'
  <2>1. Backed(journal', x) BY <1>2, <1>3, <1>4, <1>6, <1>7 DEF Backed
  <2>2. ASSUME NEW i \in 1 .. Len(told') PROVE Backed(journal', told'[i])
    <3>1. CASE i \in 1 .. Len(told) BY <1>12, <1>15, <3>1 DEF Holds
    <3>2. CASE i = Len(told) + 1 BY <1>12, <2>1, <3>2
    <3> QED BY <1>2, <1>12, <3>1, <3>2
  <2> QED BY <2>2 DEF Holds
<1>17. Entries'
  <2> SUFFICES ASSUME NEW s \in Ordinal PROVE EntryOK(s, journal'[s], approval, log')
    BY <1>1 DEF Entries
  <2>0. Len(approval) \in Nat BY <1>5, LenProperties
  <2>1. CASE s = at
    <3>1. log'[Len(log) + 1] = [seq |-> s, key |-> body.key, outcome |-> v] BY <1>8, <2>1 DEF x
    <3>2. Len(log) + 1 \in 1 .. Len(log') BY <1>8
    <3> QED BY <1>6, <1>7, <2>0, <2>1, <3>1, <3>2 DEF EntryOK
  <2>2. CASE s # at
    <3>1. EntryOK(s, journal[s], approval, log) /\ journal[s] \in Entry
      BY <1>5 DEF IInv, Entries
    <3>2. journal[s].approval \in Nat BY <3>1 DEF Entry
    <3>3. EntryOK(s, journal[s], approval, log') BY <1>8, <2>0, <3>1, <3>2, StillOK
    <3> QED BY <1>7, <2>2, <3>3
  <2> QED BY <2>1, <2>2
<1>18. ASSUME NEW n \in 1 .. Len(log) PROVE log[n].seq \in Ordinal /\ log[n].seq # at
  <2>1. log[n] \in Item BY <1>5
  <2>2. journal[log[n].seq].status = "done" BY DEF IInv, Logged
  <2> QED BY <1>2, <2>1, <2>2 DEF Item
<1>19. Logged'
  <2> SUFFICES ASSUME NEW n \in 1 .. Len(log') PROVE journal'[log'[n].seq].status = "done"
    BY DEF Logged
  <2>1. CASE n \in 1 .. Len(log) BY <1>7, <1>8, <1>18, <2>1 DEF IInv, Logged
  <2>2. CASE n = Len(log) + 1 BY <1>4, <1>6, <1>7, <1>8, <2>2
  <2> QED BY <1>8, <2>1, <2>2
<1>20. AllOwn'
  <2>1. OnceEach(log')
    <3> SUFFICES ASSUME NEW m \in 1 .. Len(log'), NEW n \in 1 .. Len(log'),
                        log'[m].seq = log'[n].seq
                 PROVE  m = n
      BY DEF OnceEach
    <3>1. m \in 1 .. Len(log) \/ m = Len(log) + 1 BY <1>8
    <3>2. n \in 1 .. Len(log) \/ n = Len(log) + 1 BY <1>8
    <3>3. \A k \in 1 .. Len(log) : log'[k].seq # at BY <1>8, <1>18
    <3>4. log'[Len(log) + 1].seq = at BY <1>4, <1>8
    <3>5. CASE m \in 1 .. Len(log) /\ n \in 1 .. Len(log)
      BY <1>8, <3>5 DEF IInv, AllOwn, OnceEach
    <3> QED BY <3>1, <3>2, <3>3, <3>4, <3>5
  <2>2. ASSUME NEW i \in 1 .. Len(told') PROVE Own(told'[i], approval, log')
    <3>1. CASE i \in 1 .. Len(told)
      <4>1. Own(told[i], approval, log) BY <3>1 DEF IInv, AllOwn
      <4>2. Own(told[i], approval, log') BY <1>8, <4>1, StillOwn
      <4> QED BY <1>12, <3>1, <4>2
    <3>2. CASE i = Len(told) + 1
      <4>1. log'[Len(log) + 1] = x /\ Len(log) + 1 \in 1 .. Len(log') BY <1>8
      <4>2. Own(x, approval, log') BY <1>2, <1>4, <4>1 DEF Own
      <4> QED BY <1>12, <3>2, <4>2
    <3> QED BY <1>2, <1>12, <3>1, <3>2
  <2> QED BY <1>1, <2>1, <2>2 DEF AllOwn
<1>21. Retracing'
  <2> SUFFICES ASSUME steady' PROVE Retracing' BY DEF Retracing
  <2>1. steady /\ SameWorld' BY <1>10
  <2>2. approval = <<>> => tape = <<>> BY <2>1 DEF IInv, Retracing
  <2>3. Holds(journal', tape)
    <3>1. CASE approval = <<>> BY <1>5, <2>2, <3>1 DEF Holds
    <3>2. CASE approval # <<>>
      <4>1. Len(told) > Len(tape) BY <1>2, <2>1, <3>2
      <4>2. Agree(told, tape) BY <2>1 DEF IInv, Retrace
      <4>3. \A i \in 1 .. Len(tape) : i \in 1 .. Len(told) /\ tape[i] = told[i]
        BY <1>2, <4>1, <4>2 DEF Agree
      <4> QED BY <1>15, <4>3 DEF Holds
    <3> QED BY <3>1, <3>2
  <2>4. approval # <<>> => AtGate(handler, tape, approval) /\ Pending.answer \in Value
    BY <2>1 DEF IInv, Retracing
  <2>5. approval # <<>> => ~(Len(told') <= Len(tape)) BY <1>2, <1>12, <2>1
  <2> QED BY <1>1, <1>2, <2>1, <2>2, <2>3, <2>4, <2>5 DEF Retracing, Pending
<1> QED BY <1>12, <1>13, <1>14, <1>16, <1>17, <1>19, <1>20, <1>21 DEF IInv

LEMMA FinishKeeps ==
  ASSUME IInv, Finish
  PROVE  IInv'
<1>1. /\ status = "running" /\ body = Idle /\ NextOf(handler, told).kind \notin Kind
      /\ status' \in {"completed", "failed"} /\ StaysSteady
      /\ UNCHANGED <<handler, permission, mem, journal, approval, body, told, changes, tape, log>>
  BY DEF Finish, world, NextCall, NextOf
<1>2. /\ steady' => steady /\ SameWorld'
      /\ steady' \in BOOLEAN
  BY <1>1 DEF StaysSteady, IInv, TypeOK
<1>3. TypeOK' BY <1>1, <1>2 DEF IInv, TypeOK
<1>4. Waiting' /\ InBody' BY <1>1 DEF Waiting, InBody
<1>5. Retracing' BY <1>1, <1>2 DEF IInv, Retracing, Pending
<1>6. Retrace'
  <2>1. ASSUME steady, approval # <<>> PROVE Len(told) > Len(tape)
    <3>1. told \in Seq(Item) /\ tape \in Seq(Item) /\ Path(handler, tape) BY DEF IInv, Sound
    <3>2. Len(told) \in Nat /\ Len(tape) \in Nat BY <3>1, LenProperties
    <3>3. Agree(told, tape) /\ AtGate(handler, tape, approval)
      BY <2>1 DEF IInv, Retrace, Retracing
    <3>4. ASSUME Len(told) < Len(tape) PROVE FALSE
      <4> DEFINE n == Len(told) + 1
      <4>1. n \in 1 .. Len(tape) /\ n - 1 = Len(told) /\ Len(told) <= Len(tape) BY <3>2, <3>4
      <4>2. told = SubSeq(tape, 1, n - 1) BY <3>1, <3>3, <4>1, CommonPrefix DEF Agree
      <4>3. Follows(handler, SubSeq(tape, 1, n - 1), tape[n]) BY <3>1, <4>1 DEF Path
      <4>4. Follows(handler, told, tape[n]) BY <4>2, <4>3
      <4> QED BY <1>1, <4>4 DEF Follows
    <3>5. ASSUME Len(told) = Len(tape) PROVE FALSE
      <4>1. told = tape BY <3>1, <3>2, <3>3, <3>5, CommonPrefix DEF Agree
      <4> QED BY <1>1, <3>3, <4>1 DEF AtGate, Kind
    <3> QED BY <3>2, <3>4, <3>5
  <2> QED BY <1>1, <1>2, <2>1 DEF IInv, Retrace, Agree, Pending
<1> QED BY <1>1, <1>3, <1>4, <1>5, <1>6 DEF IInv, Entries, Logged, AllOwn

-----------------------------------------------------------------------------
(* Approvals.                                                              *)

LEMMA SuspendKeeps ==
  ASSUME IInv, NEW ask, NEW key, NEW e, Suspend(ask, key, e)
  PROVE  IInv'
<1> DEFINE at == SeqAfter(told)
           app == Append(approval, [status |-> "pending", question |-> key, answer |-> NoValue])
           entry == [status |-> "pending", key |-> key, answer |-> NoValue, approval |-> Len(app)]
<1>1. /\ Looking(ask, key, e) /\ ask.kind = "gate" /\ e.status = "absent"
      /\ approval' = app /\ journal' = [journal EXCEPT ![at] = entry]
      /\ status' = "waiting_approval" /\ tape' = told /\ steady' = FALSE
      /\ UNCHANGED <<handler, permission, mem, body, told, changes, log>>
  BY DEF Suspend, world
<1>2. Calling(ask, key) /\ e = journal[at] /\ key \in Key BY <1>1, LookingFacts
<1>3. /\ ask = NextOf(handler, told) /\ KeyedAs(ask, key) /\ at \in Ordinal
      /\ Len(told) < MaxCalls /\ status = "running" /\ body = Idle
  BY <1>2, CallingFacts
<1>4. journal \in [Ordinal -> Entry] /\ log \in Seq(Item) /\ approval \in Seq(ApprovalDoc)
      /\ told \in Seq(Item) /\ Sound(handler, told)
  BY DEF IInv, TypeOK
<1>5. /\ app \in Seq(ApprovalDoc) /\ Len(app) = Len(approval) + 1 /\ Len(approval) \in Nat
      /\ app # <<>> /\ \A a \in 1 .. Len(approval) : app[a] = approval[a]
      /\ app[Len(app)] = [status |-> "pending", question |-> key, answer |-> NoValue]
  <2>1. [status |-> "pending", question |-> key, answer |-> NoValue] \in ApprovalDoc
    BY <1>2 DEF ApprovalDoc
  <2> QED BY <1>4, <2>1
<1> HIDE DEF app
<1>6. entry \in Entry /\ entry.status = "pending" /\ entry.approval = Len(app)
  BY <1>2, <1>5 DEF Entry
<1>7. journal' \in [Ordinal -> Entry] /\ journal'[at] = entry
      /\ \A s \in Ordinal : s # at => journal'[s] = journal[s]
  BY <1>1, <1>3, <1>4, <1>6
<1>8. entry = GateOf(app, "pending", NoValue) BY <1>5 DEF GateOf
<1> HIDE DEF entry
<1>9. TypeOK' BY <1>1, <1>5, <1>7 DEF IInv, TypeOK
<1>10. Sound(handler, told)' /\ Sound(handler, tape)' BY <1>1, <1>4
<1>11. Holds(journal, told)'
  <2>1. Holds(journal', told) BY <1>4, <1>7, WriteAfter DEF IInv
  <2> QED BY <1>1, <2>1
<1>12. ASSUME NEW s \in Ordinal, s # at PROVE EntryOK(s, journal[s], app, log)
              /\ journal[s].approval \in Nat /\ journal[s].approval <= Len(approval)
  <2>1. EntryOK(s, journal[s], approval, log) /\ journal[s] \in Entry BY <1>4 DEF IInv, Entries
  <2>2. journal[s].approval \in Nat BY <2>1 DEF Entry
  <2>3. journal[s].approval <= Len(approval) BY <2>1 DEF EntryOK
  <2>4. Len(app) \in Nat /\ Len(approval) <= Len(app) BY <1>5
  <2>5. \A a \in 1 .. Len(approval) :
          approval[a].status = "approved" => a \in 1 .. Len(app) /\ app[a] = approval[a]
    BY <1>5
  <2>6. EntryOK(s, journal[s], app, log) BY <1>5, <2>1, <2>2, <2>4, <2>5, StillOK
  <2> QED BY <2>2, <2>3, <2>6
<1>13. Entries'
  <2> SUFFICES ASSUME NEW s \in Ordinal PROVE EntryOK(s, journal'[s], app, log)
    BY <1>1 DEF Entries
  <2>1. CASE s = at BY <1>5, <1>6, <1>7, <2>1 DEF EntryOK
  <2>2. CASE s # at BY <1>7, <1>12, <2>2
  <2> QED BY <2>1, <2>2
<1>14. Waiting'
  <2>1. AtGate(handler, told, app)
    <3>1. app[Len(app)].question = key BY <1>5
    <3> QED BY <1>1, <1>3, <1>5, <3>1 DEF AtGate
  <2>2. app[Len(app)].status = "pending" BY <1>5
  <2>3. journal'[at] = GateOf(app, "pending", NoValue) BY <1>7, <1>8
  <2>4. \A s \in Ordinal : journal'[s].approval = Len(app) => s = at BY <1>5, <1>7, <1>12
  <2> QED BY <1>1, <1>3, <2>1, <2>2, <2>3, <2>4 DEF Waiting, Pending
<1>15. Retracing' /\ Retrace' BY <1>1 DEF Retracing, Retrace
<1>16. InBody' BY <1>1, <1>3 DEF InBody
<1>17. Logged'
  <2> SUFFICES ASSUME NEW n \in 1 .. Len(log) PROVE journal'[log[n].seq].status = "done"
    BY <1>1 DEF Logged
  <2>1. log[n] \in Item BY <1>4
  <2>2. journal[log[n].seq].status = "done" BY DEF IInv, Logged
  <2>3. log[n].seq \in Ordinal /\ log[n].seq # at BY <1>1, <1>2, <2>1, <2>2 DEF Item
  <2> QED BY <1>7, <2>2, <2>3
<1>18. AllOwn'
  <2>1. ASSUME NEW i \in 1 .. Len(told) PROVE Own(told[i], app, log)
    <3>1. Own(told[i], approval, log) BY DEF IInv, AllOwn
    <3>2. \A a \in 1 .. Len(approval) :
            approval[a].status = "approved" => a \in 1 .. Len(app) /\ app[a] = approval[a]
      BY <1>5
    <3> QED BY <3>1, <3>2, StillOwn
  <2> QED BY <1>1, <2>1 DEF IInv, AllOwn
<1> QED BY <1>9, <1>10, <1>11, <1>13, <1>14, <1>15, <1>16, <1>17, <1>18 DEF IInv

\* The run waits, and for its last approval.
LEMMA WaitingFacts ==
  ASSUME IInv, status = "waiting_approval"
  PROVE  /\ AtGate(handler, tape, approval) /\ tape = told /\ body = Idle /\ ~steady
         /\ Pending.status = "pending" /\ approval \in Seq(ApprovalDoc)
         /\ Len(approval) \in 1 .. Len(approval) /\ Len(approval) \in Nat
         /\ Pending \in ApprovalDoc /\ Pending.question \in Key
         /\ SeqAfter(tape) \in Ordinal
         /\ journal[SeqAfter(tape)] = GateOf(approval, "pending", NoValue)
         /\ \A s \in Ordinal : journal[s].approval = Len(approval) <=> s = SeqAfter(tape)
<1>1. /\ AtGate(handler, tape, approval) /\ tape = told /\ body = Idle
      /\ Pending.status = "pending"
      /\ journal[SeqAfter(tape)] = GateOf(approval, "pending", NoValue)
      /\ \A s \in Ordinal : journal[s].approval = Len(approval) => s = SeqAfter(tape)
  BY DEF IInv, Waiting
<1>2. ~steady BY DEF IInv, Retracing
<1>3. approval \in Seq(ApprovalDoc) /\ approval # <<>> BY <1>1 DEF IInv, TypeOK, AtGate
<1>4. Len(approval) \in 1 .. Len(approval) /\ Len(approval) \in Nat BY <1>3
<1>5. Pending \in ApprovalDoc
  <2>1. approval[Len(approval)] \in ApprovalDoc BY <1>3, <1>4
  <2> QED BY <2>1 DEF Pending
<1>6. Pending.question \in Key BY <1>5 DEF ApprovalDoc
<1>7. SeqAfter(tape) \in Ordinal
  <2>1. tape \in Seq(Item) /\ SeqAfter(tape) \in 0 .. Len(tape) BY DEF IInv, Sound
  <2>2. Len(tape) \in Nat /\ Len(tape) < MaxCalls BY <1>1, <2>1, LenProperties DEF AtGate
  <2> QED BY <2>1, <2>2, Assumptions DEF Ordinal
<1>8. journal[SeqAfter(tape)].approval = Len(approval) BY <1>1 DEF GateOf
<1> QED BY <1>1, <1>2, <1>3, <1>4, <1>5, <1>6, <1>7, <1>8

\* An entry, resolved.
Stamp(e, outcome, answer) == [e EXCEPT !.status = outcome, !.answer = answer]

\* The last approval: replaced, answered, refused.
Last(app, doc) == [app EXCEPT ![Len(app)] = doc]
Answer(app, outcome, answer) ==
  [app EXCEPT ![Len(app)].status = outcome, ![Len(app)].answer = answer]
Refusal(app, outcome) == [app EXCEPT ![Len(app)].status = outcome]

LEMMA Stamped ==
  ASSUME NEW before, NEW key, NEW none, NEW n, NEW outcome, NEW answer
  PROVE  Stamp([status |-> before, key |-> key, answer |-> none, approval |-> n], outcome, answer)
           = [status |-> outcome, key |-> key, answer |-> answer, approval |-> n]
<1>1. PICK e : e = [status |-> before, key |-> key, answer |-> none, approval |-> n] OBVIOUS
<1>2. [e EXCEPT !.status = outcome] = [status |-> outcome, key |-> key, answer |-> none, approval |-> n]
  BY <1>1
<1>3. PICK f : f = [status |-> outcome, key |-> key, answer |-> none, approval |-> n] OBVIOUS
<1>4. [f EXCEPT !.answer = answer] = [status |-> outcome, key |-> key, answer |-> answer, approval |-> n]
  BY <1>3
<1> QED BY <1>1, <1>2, <1>3, <1>4 DEF Stamp

\* The approval and its entry are resolved: what both human answers do.
LEMMA Resolving ==
  ASSUME IInv, status = "waiting_approval",
         NEW outcome \in {"approved", "rejected"}, NEW answer \in Value \cup {NoValue},
         NEW said \in Value \cup {NoValue},
         outcome = "approved" => answer \in Value /\ said = answer,
         NEW app, app = Last(approval, [status |-> outcome, question |-> Pending.question,
                                        answer |-> said])
  PROVE  /\ app \in Seq(ApprovalDoc) /\ Len(app) = Len(approval) /\ app # <<>>
         /\ app[Len(app)] = [status |-> outcome, question |-> Pending.question, answer |-> said]
         /\ AtGate(handler, tape, app)
         /\ \A a \in 1 .. Len(approval) :
              approval[a].status = "approved" => a \in 1 .. Len(app) /\ app[a] = approval[a]
         /\ Resolved(outcome, answer) \in [Ordinal -> Entry]
         /\ Resolved(outcome, answer)[SeqAfter(tape)] = GateOf(app, outcome, answer)
         /\ \A s \in Ordinal : s # SeqAfter(tape) => Resolved(outcome, answer)[s] = journal[s]
         /\ \A s \in Ordinal : EntryOK(s, Resolved(outcome, answer)[s], app, log)
         /\ Holds(Resolved(outcome, answer), tape)
         /\ \A n \in 1 .. Len(log) : Resolved(outcome, answer)[log[n].seq].status = "done"
<1> DEFINE at == SeqAfter(tape)
           j == Resolved(outcome, answer)
           doc == [status |-> outcome, question |-> Pending.question, answer |-> said]
<1>1. /\ AtGate(handler, tape, approval) /\ tape = told
      /\ Pending.status = "pending" /\ approval \in Seq(ApprovalDoc)
      /\ Len(approval) \in 1 .. Len(approval) /\ Len(approval) \in Nat
      /\ Pending.question \in Key /\ at \in Ordinal
      /\ journal[at] = GateOf(approval, "pending", NoValue)
      /\ \A s \in Ordinal : journal[s].approval = Len(approval) <=> s = at
  BY WaitingFacts
<1>2. doc \in ApprovalDoc /\ doc.status = outcome /\ doc.question = Pending.question
      /\ doc.answer = said
  BY <1>1 DEF ApprovalDoc
<1>3. app = [approval EXCEPT ![Len(approval)] = doc] BY DEF Last
<1> HIDE DEF doc
<1>4. /\ app \in Seq(ApprovalDoc) /\ Len(app) = Len(approval) /\ app # <<>>
      /\ app[Len(app)] = doc
      /\ \A a \in 1 .. Len(approval) : a # Len(approval) => app[a] = approval[a]
  BY <1>1, <1>2, <1>3
<1>5. AtGate(handler, tape, app)
  <2>1. app[Len(app)].question = approval[Len(approval)].question
    BY <1>2, <1>4 DEF Pending
  <2> QED BY <1>1, <1>4, <2>1 DEF AtGate
<1>6. \A a \in 1 .. Len(approval) :
        approval[a].status = "approved" => a \in 1 .. Len(app) /\ app[a] = approval[a]
  <2>1. approval[Len(approval)].status # "approved" BY <1>1 DEF Pending
  <2> QED BY <1>4, <2>1
<1>7. journal \in [Ordinal -> Entry] BY DEF IInv, TypeOK
<1>8. j = [s \in Ordinal |-> IF s = at THEN Stamp(journal[s], outcome, answer) ELSE journal[s]]
  BY <1>1 DEF Resolved, Stamp
<1>9. /\ \A s \in Ordinal : s # at => j[s] = journal[s]
      /\ j[at] = Stamp(journal[at], outcome, answer)
  BY <1>1, <1>8
<1>10. j[at] = GateOf(app, outcome, answer)
  <2>1. journal[at] = [status |-> "pending", key |-> Pending.question, answer |-> NoValue,
                       approval |-> Len(approval)]
    BY <1>1 DEF GateOf, Pending
  <2>2. j[at] = [status |-> outcome, key |-> Pending.question, answer |-> answer,
                 approval |-> Len(approval)]
    <3>1. Stamp(journal[at], outcome, answer)
            = [status |-> outcome, key |-> Pending.question, answer |-> answer,
               approval |-> Len(approval)]
      BY <2>1, Stamped
    <3> QED BY <1>9, <3>1
  <2> QED BY <1>2, <1>4, <2>2 DEF GateOf
<1>11. GateOf(app, outcome, answer) \in Entry
  <2>1. app[Len(app)].question \in Key BY <1>1, <1>2, <1>4
  <2> QED BY <1>1, <1>4, <2>1 DEF GateOf, Entry
<1>12. j \in [Ordinal -> Entry]
  <2>1. DOMAIN j = Ordinal /\ j = [s \in Ordinal |-> j[s]] BY <1>8
  <2>2. \A s \in Ordinal : j[s] \in Entry BY <1>7, <1>9, <1>10, <1>11
  <2> QED BY <2>1, <2>2
<1> HIDE DEF j
<1>13. ASSUME NEW s \in Ordinal PROVE EntryOK(s, j[s], app, log)
  <2>0. Len(app) = Len(approval) /\ Len(approval) \in Nat /\ Len(app) \in 1 .. Len(app)
    BY <1>1, <1>4
  <2>1. CASE s = at
    <3>1. /\ j[at].status = outcome /\ j[at].answer = answer
          /\ j[at].key = app[Len(app)].question /\ j[at].approval = Len(app)
      BY <1>10 DEF GateOf
    <3>2. app[Len(app)] = [status |-> outcome, question |-> Pending.question, answer |-> said]
      BY <1>4 DEF doc
    <3>3. app[Len(app)].question = Pending.question BY <3>2
    <3>4. j[s].approval <= Len(app) /\ j[s].status # "done" BY <2>0, <2>1, <3>1
    <3>5. ASSUME outcome = "approved"
          PROVE  /\ j[s].answer \in Value
                 /\ app[Len(app)] = [status |-> "approved", question |-> j[s].key,
                                     answer |-> j[s].answer]
      BY <2>1, <3>1, <3>2, <3>3, <3>5
    <3>6. CASE outcome = "approved" BY <2>0, <3>4, <3>5, <3>6 DEF EntryOK
    <3>7. CASE outcome = "rejected" BY <2>1, <3>1, <3>4, <3>7 DEF EntryOK
    <3> QED BY <3>6, <3>7
  <2>2. CASE s # at
    <3>1. EntryOK(s, journal[s], approval, log) /\ journal[s] \in Entry
      BY <1>7 DEF IInv, Entries
    <3>2. journal[s].approval \in Nat BY <3>1 DEF Entry
    <3>3. Len(app) \in Nat /\ Len(approval) <= Len(app) BY <2>0
    <3>4. EntryOK(s, journal[s], app, log) BY <1>1, <1>6, <3>1, <3>2, <3>3, StillOK
    <3> QED BY <1>9, <2>2, <3>4
  <2> QED BY <2>1, <2>2
<1>14. Holds(j, tape) BY <1>1, <1>9, WriteAfter DEF IInv
<1>15. ASSUME NEW n \in 1 .. Len(log) PROVE j[log[n].seq].status = "done"
  <2>1. log \in Seq(Item) BY DEF IInv, TypeOK
  <2>2. log[n] \in Item BY <2>1
  <2>3. journal[log[n].seq].status = "done" BY DEF IInv, Logged
  <2>4. journal[at].status # "done" BY <1>1 DEF GateOf
  <2> QED BY <1>9, <2>2, <2>3, <2>4 DEF Item
<1> QED BY <1>4, <1>5, <1>6, <1>9, <1>10, <1>12, <1>13, <1>14, <1>15 DEF doc, j

LEMMA Answered ==
  ASSUME NEW app \in Seq(ApprovalDoc), Len(app) \in 1 .. Len(app), NEW outcome, NEW answer
  PROVE  /\ Answer(app, outcome, answer)
              = Last(app, [status |-> outcome, question |-> app[Len(app)].question,
                           answer |-> answer])
         /\ Refusal(app, outcome)
              = Last(app, [status |-> outcome, question |-> app[Len(app)].question,
                           answer |-> app[Len(app)].answer])
<1> DEFINE n == Len(app)
<1>1. app[n] \in ApprovalDoc /\ n \in DOMAIN app OBVIOUS
<1> HIDE DEF n
<1>2. PICK d : d = app[n] OBVIOUS
<1>3. d = [status |-> d.status, question |-> d.question, answer |-> d.answer]
  BY <1>1, <1>2 DEF ApprovalDoc
<1>4. [d EXCEPT !.status = outcome]
        = [status |-> outcome, question |-> d.question, answer |-> d.answer]
  BY <1>3
<1>5. PICK f : f = [status |-> outcome, question |-> d.question, answer |-> d.answer] OBVIOUS
<1>6. [f EXCEPT !.answer = answer]
        = [status |-> outcome, question |-> d.question, answer |-> answer]
  BY <1>5
<1>7. [app EXCEPT ![n].status = outcome] = [app EXCEPT ![n] = f] BY <1>2, <1>4, <1>5
<1>8. PICK b : b = [app EXCEPT ![n] = f] OBVIOUS
<1>9. b[n] = f /\ [b EXCEPT ![n].answer = answer] = [b EXCEPT ![n] = [f EXCEPT !.answer = answer]]
  BY <1>1, <1>8
<1>10. PICK g : g = [status |-> outcome, question |-> d.question, answer |-> answer] OBVIOUS
<1>11. [b EXCEPT ![n] = g] = [app EXCEPT ![n] = g] BY <1>8
<1>12. [b EXCEPT ![n].answer = answer] = [app EXCEPT ![n] = g] BY <1>6, <1>9, <1>10, <1>11
<1>13. [app EXCEPT ![n].status = outcome, ![n].answer = answer] = [b EXCEPT ![n].answer = answer]
  BY <1>7, <1>8
<1> QED BY <1>2, <1>5, <1>7, <1>10, <1>12, <1>13 DEF Answer, Refusal, Last, n

LEMMA ApproveKeeps ==
  ASSUME IInv, NEW v \in Value, Approve(v)
  PROVE  IInv'
<1>1. /\ status = "waiting_approval"
      /\ mem' = Adopted(Pending.question.id, v)
      /\ approval' = Answer(approval, "approved", v)
      /\ journal' = Resolved("approved", v)
      /\ status' = "running" /\ told' = <<>> /\ steady' = SameWorld'
      /\ UNCHANGED <<handler, permission, body, changes, tape, log>>
  BY DEF Approve, Answer
<1>2. /\ body = Idle /\ Len(approval) \in 1 .. Len(approval) /\ approval \in Seq(ApprovalDoc)
  BY <1>1, WaitingFacts
<1>3. approval' = Last(approval, [status |-> "approved", question |-> Pending.question,
                                  answer |-> v])
  BY <1>1, <1>2, Answered DEF Pending
<1>4. /\ approval' \in Seq(ApprovalDoc) /\ Len(approval') = Len(approval) /\ approval' # <<>>
      /\ approval'[Len(approval')] = [status |-> "approved", question |-> Pending.question,
                                      answer |-> v]
      /\ AtGate(handler, tape, approval')
      /\ journal' \in [Ordinal -> Entry]
      /\ journal'[SeqAfter(tape)] = GateOf(approval', "approved", v)
      /\ \A s \in Ordinal : EntryOK(s, journal'[s], approval', log)
      /\ Holds(journal', tape)
      /\ \A n \in 1 .. Len(log) : journal'[log[n].seq].status = "done"
  BY <1>1, <1>3, Resolving
<1>5. Pending'.answer = v BY <1>4 DEF Pending
<1>6. steady' \in BOOLEAN BY <1>1 DEF SameWorld
<1>7. TypeOK'
  <2>1. mem' \in Value BY <1>1 DEF Adopted, IInv, TypeOK
  <2>2. told' \in Seq(Item) BY <1>1
  <2> QED BY <1>1, <1>4, <1>6, <2>1, <2>2 DEF IInv, TypeOK
<1>8. Sound(handler, told)' /\ Sound(handler, tape)' BY <1>1, EmptySound DEF IInv
<1>9. Holds(journal, told)' BY <1>1 DEF Holds
<1>10. Waiting' /\ InBody' BY <1>1, <1>2 DEF Waiting, InBody
<1>11. Retracing' BY <1>1, <1>4, <1>5 DEF Retracing, Pending
<1>12. Entries' /\ Logged' BY <1>1, <1>4 DEF Entries, Logged
<1>13. Retrace'
  <2>1. tape \in Seq(Item) BY DEF IInv, Sound
  <2>2. Len(told') = 0 /\ Len(tape) \in Nat BY <1>1, <2>1, LenProperties
  <2> QED BY <1>1, <1>2, <2>2 DEF Retrace, Agree
<1>14. AllOwn' BY <1>1 DEF IInv, AllOwn
<1> QED BY <1>7, <1>8, <1>9, <1>10, <1>11, <1>12, <1>13, <1>14 DEF IInv

LEMMA RejectKeeps ==
  ASSUME IInv, Reject
  PROVE  IInv'
<1>1. /\ status = "waiting_approval"
      /\ approval' = Refusal(approval, "rejected")
      /\ journal' = Resolved("rejected", NoValue)
      /\ status' = "rejected" /\ StaysSteady
      /\ UNCHANGED <<handler, permission, mem, body, told, changes, tape, log>>
  BY DEF Reject, world, Refusal
<1>2. /\ body = Idle /\ tape = told /\ ~steady
      /\ Len(approval) \in 1 .. Len(approval) /\ approval \in Seq(ApprovalDoc)
      /\ Pending \in ApprovalDoc
  BY <1>1, WaitingFacts
<1>3. approval' = Last(approval, [status |-> "rejected", question |-> Pending.question,
                                  answer |-> Pending.answer])
  BY <1>1, <1>2, Answered DEF Pending
<1>4. Pending.answer \in Value \cup {NoValue} BY <1>2 DEF ApprovalDoc
<1>5. /\ approval' \in Seq(ApprovalDoc)
      /\ \A a \in 1 .. Len(approval) :
           approval[a].status = "approved" => a \in 1 .. Len(approval') /\ approval'[a] = approval[a]
      /\ journal' \in [Ordinal -> Entry]
      /\ \A s \in Ordinal : EntryOK(s, journal'[s], approval', log)
      /\ Holds(journal', tape)
      /\ \A n \in 1 .. Len(log) : journal'[log[n].seq].status = "done"
  BY <1>1, <1>3, <1>4, Resolving
<1>6. steady' = FALSE BY <1>1, <1>2 DEF StaysSteady, IInv, TypeOK
<1>7. TypeOK' BY <1>1, <1>5, <1>6 DEF IInv, TypeOK
<1>8. Sound(handler, told)' /\ Sound(handler, tape)' BY <1>1 DEF IInv
<1>9. Holds(journal, told)' BY <1>1, <1>2, <1>5
<1>10. Waiting' /\ InBody' /\ Retracing' /\ Retrace'
  BY <1>1, <1>2, <1>6 DEF Waiting, InBody, Retracing, Retrace
<1>11. Entries' /\ Logged' BY <1>1, <1>5 DEF Entries, Logged
<1>12. AllOwn'
  <2>1. ASSUME NEW i \in 1 .. Len(told) PROVE Own(told[i], approval', log)
    <3>1. Own(told[i], approval, log) BY DEF IInv, AllOwn
    <3> QED BY <1>5, <3>1, StillOwn
  <2> QED BY <1>1, <2>1 DEF IInv, AllOwn
<1> QED BY <1>7, <1>8, <1>9, <1>10, <1>11, <1>12 DEF IInv

\* The world changes: only what depends on it does.
LEMMA OutsideKeeps ==
  ASSUME IInv, Outside
  PROVE  IInv'
<1>1. /\ permission' \in [Tool -> Permission] /\ mem' \in Value /\ changes' \in 0 .. MaxChanges
      /\ UNCHANGED <<handler, status, journal, approval, body, told, tape, log>> /\ StaysSteady
  <2>1. permission \in [Tool -> Permission] /\ mem \in Value /\ changes \in 0 .. MaxChanges
    BY DEF IInv, TypeOK
  <2>2. CASE \E t \in Tool, p \in Permission : SetPermission(t, p)
    BY <2>1, <2>2, Assumptions DEF SetPermission, run
  <2>3. CASE \E v \in Value : OtherRunWrites(v)
    BY <2>1, <2>3, Assumptions DEF OtherRunWrites, run
  <2> QED BY <2>2, <2>3 DEF Outside
<1>2. /\ steady' => steady /\ SameWorld'
      /\ steady' \in BOOLEAN
  BY <1>1 DEF StaysSteady, IInv, TypeOK
<1>3. TypeOK' BY <1>1, <1>2 DEF IInv, TypeOK
<1>4. Retracing' BY <1>1, <1>2 DEF IInv, Retracing, Pending
<1>5. Retrace' BY <1>1, <1>2 DEF IInv, Retrace, Agree, Pending
<1>6. Waiting' BY <1>1 DEF IInv, Waiting, Pending
<1>7. InBody' BY <1>1 DEF IInv, InBody
<1> QED BY <1>1, <1>3, <1>4, <1>5, <1>6, <1>7 DEF IInv, Entries, Logged, AllOwn

-----------------------------------------------------------------------------

LEMMA InitIInv == Init => IInv
<1> SUFFICES ASSUME Init PROVE IInv OBVIOUS
<1>1. /\ handler \in Handler /\ permission \in [Tool -> Permission] /\ mem \in Value
      /\ status = "running" /\ journal = [s \in Ordinal |-> NoEntry] /\ approval = <<>>
      /\ body = Idle /\ told = <<>> /\ changes = 0 /\ tape = <<>> /\ steady = TRUE /\ log = <<>>
  BY DEF Init
<1>2. NoEntry \in Entry /\ NoEntry.status = "absent" /\ NoEntry.approval = 0 BY DEF NoEntry, Entry
<1>3. journal \in [Ordinal -> Entry] /\ \A s \in Ordinal : journal[s] = NoEntry BY <1>1, <1>2
<1>4. TypeOK BY <1>1, <1>3, Assumptions DEF TypeOK
<1>5. Sound(handler, told) /\ Sound(handler, tape) BY <1>1, EmptySound
<1>6. Len(told) = 0 /\ Len(tape) = 0 /\ Len(log) = 0 /\ Len(approval) = 0 BY <1>1
<1>7. Holds(journal, told) /\ Holds(journal, tape) BY <1>6 DEF Holds
<1>8. Waiting /\ InBody BY <1>1 DEF Waiting, InBody
<1>9. SameWorld BY <1>1 DEF SameWorld
<1>10. Retracing BY <1>1, <1>7, <1>9 DEF Retracing
<1>11. Retrace BY <1>1, <1>6 DEF Retrace, Agree
<1>12. Entries BY <1>2, <1>3, <1>6 DEF Entries, EntryOK
<1>13. Logged /\ AllOwn BY <1>6 DEF Logged, AllOwn, OnceEach
<1> QED BY <1>4, <1>5, <1>7, <1>8, <1>10, <1>11, <1>12, <1>13 DEF IInv

LEMMA CallKeeps ==
  ASSUME IInv, NEW ask, NEW key, NEW e, Call(ask, key, e)
  PROVE  IInv'
<1>1. CASE Recall(ask, key, e) BY <1>1, RecallKeeps
<1>2. CASE Drift(ask, key, e) \/ GateDrift(ask, key, e) BY <1>2, DriftKeeps
<1>3. CASE Begin(ask, key, e) BY <1>3, BeginKeeps
<1>4. CASE Suspend(ask, key, e) BY <1>4, SuspendKeeps
<1>5. CASE PassGate(ask, key, e) BY <1>5, PassGateKeeps
<1> QED BY <1>1, <1>2, <1>3, <1>4, <1>5 DEF Call

LEMMA NextIInv == IInv /\ [Next]_vars => IInv'
<1> SUFFICES ASSUME IInv, [Next]_vars PROVE IInv' OBVIOUS
<1>1. ASSUME NEW ask, NEW key, Refuse(ask, key) \/ Call(ask, key, journal[SeqAfter(told)])
      PROVE  IInv'
  BY <1>1, RefuseKeeps, CallKeeps
<1>2. CASE Work
  <2>1. CASE LET ask == NextCall(told)
                 key == ContentKey(ask)
             IN  Refuse(ask, key) \/ Call(ask, key, journal[SeqAfter(told)])
    BY <1>1, <2>1
  <2>2. CASE \E v \in Value : Commit(v) BY <2>2, CommitKeeps
  <2>3. CASE Fail BY <2>3, FailKeeps
  <2>4. CASE Finish BY <2>4, FinishKeeps
  <2> QED BY <1>2, <2>1, <2>2, <2>3, <2>4 DEF Work
<1>3. CASE Human BY <1>3, ApproveKeeps, RejectKeeps DEF Human
<1>4. CASE Outside BY <1>4, OutsideKeeps
<1>5. CASE UNCHANGED vars
  <2>1. UNCHANGED <<handler, permission, mem, status, journal, approval, body, told, changes,
                    tape, steady, log>>
    BY <1>5 DEF vars, world, run
  <2>2. /\ TypeOK' /\ Sound(handler, told)' /\ Sound(handler, tape)' /\ Holds(journal, told)'
        /\ Entries' /\ Logged' /\ AllOwn'
    BY <2>1 DEF IInv, TypeOK, Entries, Logged, AllOwn
  <2>3. Waiting' /\ InBody' BY <2>1 DEF IInv, Waiting, InBody, Pending
  <2>4. Retracing' BY <2>1 DEF IInv, Retracing, SameWorld, Pending
  <2>5. Retrace' BY <2>1 DEF IInv, Retrace, Agree, Pending
  <2> QED BY <2>2, <2>3, <2>4, <2>5 DEF IInv
<1> QED BY <1>2, <1>3, <1>4, <1>5 DEF Next

LEMMA InvariantHolds == Spec => []IInv
<1>1. Init => IInv BY InitIInv
<1>2. IInv /\ [Next]_vars => IInv' BY NextIInv
<1> QED BY <1>1, <1>2, PTL DEF Spec

\* Every variable keeps its type (context.py content_key, _replay and _commit; engine.py
\* approve): in particular a run has one status and an ordinal one entry.
THEOREM ReplayTypeCorrect == Spec => []TypeOK
<1>1. IInv => TypeOK BY DEF IInv
<1> QED BY <1>1, InvariantHolds, PTL

\* For every handler: while nothing the tape depends on changes, the handler resumed by
\* engine.approve is told exactly what it was told before it paused, executes nothing on
\* the way, never drifts, and gets the human's answer to the question it had asked.
THEOREM ReplayRetraces == Spec => []Retraces
<1>1. IInv => Retraces
  <2> SUFFICES ASSUME IInv PROVE Retraces OBVIOUS
  <2>1. told \in Seq(Item) /\ tape \in Seq(Item) BY DEF IInv, Sound
  <2>2. DOMAIN told = 1 .. Len(told) /\ DOMAIN tape = 1 .. Len(tape) BY <2>1, LenProperties
  <2> QED BY <2>2 DEF IInv, Retrace, Agree, Retraces
<1> QED BY <1>1, InvariantHolds, PTL

\* For every handler and every change around the run: a call that was completed at an
\* ordinal is never executed there again, and what context.py _replay or the gate return
\* is the result of a call, or the answer to a question, with that very content key.
THEOREM AnswersStayOwn == Spec => []AnswersAreOwn
<1>1. IInv => AnswersAreOwn
  <2> SUFFICES ASSUME IInv PROVE AnswersAreOwn OBVIOUS
  <2>1. told \in Seq(Item) /\ log \in Seq(Item) /\ approval \in Seq(ApprovalDoc)
    BY DEF IInv, TypeOK
  <2>2. /\ DOMAIN told = 1 .. Len(told) /\ DOMAIN log = 1 .. Len(log)
        /\ DOMAIN approval = 1 .. Len(approval)
    BY <2>1, LenProperties
  <2> QED BY <2>2 DEF IInv, AllOwn, OnceEach, Own, AnswersAreOwn
<1> QED BY <1>1, InvariantHolds, PTL
=============================================================================
