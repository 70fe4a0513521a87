-------------------------- MODULE JobGroupsProofs --------------------------
(***************************************************************************)
(* Proofs about JobGroups, for any jobs, groups and workers and any number *)
(* of attempts, faults and commands.  What is said of rows assumes that    *)
(* the commands of operators do not overlap (OneOperator): retry_job reads *)
(* a dead job and writes it later, so two of them can put a job back that  *)
(* is running again.                                                       *)
(*                                                                         *)
(* The argument for on_complete: a member is counted by the only worker    *)
(* that saved it as done, and nothing takes "done" back, so remaining      *)
(* never falls faster than the number of members done and counted grows.   *)
(***************************************************************************)
EXTENDS JobGroups, FiniteSetTheorems, TLAPS

OneOperator == \A p, q \in Operator : p = q

Thread == [pc: {"idle", "claimed", "read", "running", "ran", "won", "lost", "firing", "fired"},
           j: Job \cup {NoJob}, doc: Doc]
ThreadOK(s) == s.pc # "idle" => s.j \in Job

Running == {"claimed", "read", "running", "ran"}
Held == {"claimed", "running"}

\* A job nobody ran by hand has one worker at most while it is claimed or running, and
\* none while an operator is about to put it back.
Alone ==
  /\ \A w \in Worker : wk[w].pc \in Running /\ wk[w].j \notin byHand
       => job[wk[w].j].status \in Held
  /\ JobRunsAlone
  /\ \A p \in Operator : op[p].pc = "retrying" /\ op[p].j \notin byHand
       => job[op[p].j].status = "failed"

\* What is done has succeeded, and one worker at most is about to count it.
DoneOK ==
  /\ \A j \in Job : job[j].status = "done" => j \in won
  /\ \A w \in Worker : wk[w].pc = "ran" /\ wk[w].doc.status = "done" => wk[w].j \in won
  /\ \A w \in Worker : wk[w].pc = "won" /\ wk[w].j \notin byHand => job[wk[w].j].status = "done"
  /\ \A v, w \in Worker : v # w /\ wk[v].pc = "won" /\ wk[w].pc = "won"
       => wk[v].j # wk[w].j \/ wk[v].j \in byHand

\* Before its row exists nothing of a group does.
BegunOK ==
  \A g \in Group : par[g] = "none" =>
    /\ \A j \in Members(g) : job[j].status = "none"
    /\ \A w \in Worker : wk[w].pc # "idle" => GroupOf[wk[w].j] # g
    /\ \A p \in Operator : op[p].pc = "retrying" => GroupOf[op[p].j] # g
    /\ made[g] = 0

\* The members done and counted.
Out(g) == {j \in Members(g) :
             job[j].status = "done" /\ \A w \in Worker : wk[w].pc = "won" => wk[w].j # j}

CountOK ==
  \A g \in Group : par[g] # "none" /\ Members(g) \cap byHand = {}
    => Cardinality(Members(g)) - grp[g].remaining <= Cardinality(Out(g))

\* Whoever fires does so for a group that is complete, and the flag lets one through.
FiredOK ==
  /\ \A w \in Worker : wk[w].pc \in {"firing", "fired"} => grp[GroupOf[wk[w].j]].remaining <= 0
  /\ \A w \in Worker : wk[w].pc = "fired" =>
       grp[GroupOf[wk[w].j]].fired /\ made[GroupOf[wk[w].j]] = 0
  /\ \A v, w \in Worker : v # w /\ wk[v].pc = "fired" /\ wk[w].pc = "fired"
       => GroupOf[wk[v].j] # GroupOf[wk[w].j]
  /\ \A g \in Group : made[g] # 0 => made[g] = 1 /\ grp[g].fired /\ grp[g].remaining <= 0

IInv == TypeOK /\ Alone /\ DoneOK /\ BegunOK /\ CountOK /\ FiredOK
-----------------------------------------------------------------------------
(* Types. *)

LEMMA FreeTyped == Free \in Thread /\ ThreadOK(Free) /\ NewDoc \in Doc /\ NoDoc \in Doc
                   /\ Free.pc = "idle" /\ Free.j = NoJob /\ NewDoc.status = "pending"
BY DEF Free, Thread, ThreadOK, NewDoc, NoDoc, Doc, Statuses

\* What a thread goes on with replaces its record and no other.
LEMMA GoesTyped ==
  ASSUME wk \in [Worker -> Thread], \A v \in Worker : ThreadOK(wk[v]),
         NEW w \in Worker, NEW s \in Thread, ThreadOK(s), Goes(w, s)
  PROVE  /\ wk' \in [Worker -> Thread] /\ \A v \in Worker : ThreadOK(wk'[v])
         /\ \A v \in Worker : wk'[v] = IF v = w THEN s ELSE wk[v]
<1>1. wk' = [wk EXCEPT ![w] = s] BY DEF Goes
<1>2. wk' \in [Worker -> Thread] BY <1>1
<1>3. \A v \in Worker : wk'[v] = IF v = w THEN s ELSE wk[v] BY <1>1
<1> QED BY <1>2, <1>3

LEMMA WriteTyped ==
  ASSUME job \in [Job -> Doc], NEW j \in Job, NEW doc \in Doc, Write(j, doc)
  PROVE  /\ job' \in [Job -> Doc]
         /\ \A i \in Job : job'[i] = IF i = j THEN doc ELSE job[i]
<1>1. job' = [job EXCEPT ![j] = doc] BY DEF Write
<1> QED BY <1>1

\* A run that ends as done has completed, whatever its row said.
LEMMA AfterTyped ==
  ASSUME NEW doc \in Doc, NEW outcome \in {"completed", "waiting", "failed"}
  PROVE  After(doc, outcome) \in Doc /\ (After(doc, outcome).status = "done" => outcome = "completed")
<1>1. doc.attempts + 1 \in Nat /\ doc.attempts \in Nat BY DEF Doc
<1>2. CASE outcome = "completed"
  <2>1. After(doc, outcome) = [doc EXCEPT !.status = "done"] BY <1>2 DEF After
  <2> QED BY <1>2, <2>1 DEF Doc, Statuses
<1>3. CASE outcome = "waiting"
  <2>1. After(doc, outcome) = [doc EXCEPT !.status = "waiting"] BY <1>3 DEF After
  <2> QED BY <2>1 DEF Doc, Statuses
<1>4. CASE outcome = "failed" /\ doc.attempts + 1 < MaxAttempts
  <2>1. After(doc, outcome) = [status |-> "pending", attempts |-> doc.attempts + 1] BY <1>4 DEF After
  <2> QED BY <1>1, <2>1 DEF Doc, Statuses
<1>5. CASE outcome = "failed" /\ ~(doc.attempts + 1 < MaxAttempts)
  <2>1. After(doc, outcome) = [status |-> "failed", attempts |-> doc.attempts + 1] BY <1>5 DEF After
  <2> QED BY <1>1, <2>1 DEF Doc, Statuses
<1> QED BY <1>2, <1>3, <1>4, <1>5

\* The rows of TypeOK that are records, under their names.
LEMMA TypeOKNamed ==
  TypeOK <=> /\ job \in [Job -> Doc]
             /\ grp \in [Group -> [remaining: Int, failed: BOOLEAN, fired: BOOLEAN]]
             /\ made \in [Group -> Nat]
             /\ wk \in [Worker -> Thread] /\ \A w \in Worker : ThreadOK(wk[w])
             /\ par \in [Group -> {"none", "making", "ended"}]
             /\ op \in [Operator -> [pc: {"idle", "retrying"}, j: Job \cup {NoJob}, doc: Doc]]
             /\ \A p \in Operator : op[p].pc # "idle" => op[p].j \in Job
             /\ won \subseteq Job /\ byHand \subseteq Job /\ faults \in Nat /\ commands \in Nat
BY DEF TypeOK, Thread, ThreadOK

\* Where a thread goes after the three steps that have a choice.
LEMMA SaveResultGoes ==
  ASSUME TypeOK, NEW w \in Worker, SaveResult(w)
  PROVE  \E s \in Thread : /\ Goes(w, s) /\ ThreadOK(s)
                           /\ s.pc \in {"idle", "won", "lost"}
                           /\ s.pc = "won" => wk[w].doc.status = "done"
                           /\ s.pc # "idle" => s.j = wk[w].j
<1>1. wk[w] \in Thread /\ wk[w].j \in Job BY TypeOKNamed DEF SaveResult, ThreadOK
<1>2. CASE wk[w].doc.status = "done"
  <2>1. PICK s : s = [wk[w] EXCEPT !.pc = "won"] OBVIOUS
  <2>2. s \in Thread /\ s.pc = "won" /\ s.j = wk[w].j BY <1>1, <2>1 DEF Thread
  <2>3. Goes(w, s) BY <1>2, <2>1 DEF SaveResult
  <2> QED BY <1>1, <1>2, <2>2, <2>3 DEF ThreadOK
<1>3. CASE wk[w].doc.status = "failed"
  <2>1. PICK s : s = [wk[w] EXCEPT !.pc = "lost"] OBVIOUS
  <2>2. s \in Thread /\ s.pc = "lost" /\ s.j = wk[w].j BY <1>1, <2>1 DEF Thread
  <2>3. Goes(w, s) BY <1>3, <2>1 DEF SaveResult
  <2> QED BY <1>1, <2>2, <2>3 DEF ThreadOK
<1>4. CASE wk[w].doc.status \notin {"done", "failed"}
  <2>1. Goes(w, Free) BY <1>4 DEF SaveResult
  <2> QED BY <2>1, FreeTyped
<1> QED BY <1>2, <1>3, <1>4

LEMMA CountDownGoes ==
  ASSUME TypeOK, NEW w \in Worker, CountDown(w)
  PROVE  \E s \in Thread :
           /\ Goes(w, s) /\ ThreadOK(s) /\ s.pc \in {"idle", "firing"}
           /\ s.pc = "firing" => s.j = wk[w].j /\ grp[GroupOf[wk[w].j]].remaining - 1 <= 0
<1>1. wk[w] \in Thread /\ wk[w].j \in Job BY TypeOKNamed DEF CountDown, ThreadOK
<1>2. GroupOf[wk[w].j] \in Group BY <1>1, JobGroupsAssumption
<1>3. PICK row : row = [grp[GroupOf[wk[w].j]] EXCEPT !.remaining = @ - 1] OBVIOUS
<1>4. row.remaining = grp[GroupOf[wk[w].j]].remaining - 1 BY <1>2, <1>3, TypeOKNamed
<1>5. CASE Complete(row)
  <2>1. PICK s : s = [wk[w] EXCEPT !.pc = "firing"] OBVIOUS
  <2>2. s \in Thread /\ s.pc = "firing" /\ s.j = wk[w].j BY <1>1, <2>1 DEF Thread
  <2>3. Goes(w, s) BY <1>3, <1>5, <2>1 DEF CountDown
  <2>4. row.remaining <= 0 BY <1>5 DEF Complete
  <2> QED BY <1>1, <1>4, <2>2, <2>3, <2>4 DEF ThreadOK
<1>6. CASE ~Complete(row)
  <2>1. Goes(w, Free) BY <1>3, <1>6 DEF CountDown
  <2> QED BY <2>1, FreeTyped
<1> QED BY <1>5, <1>6

LEMMA FireGoes ==
  ASSUME TypeOK, NEW w \in Worker, Fire(w)
  PROVE  \E s \in Thread :
           /\ Goes(w, s) /\ ThreadOK(s) /\ s.pc \in {"idle", "fired"}
           /\ s.pc = "fired" => s.j = wk[w].j /\ ~grp[GroupOf[wk[w].j]].fired
<1>1. wk[w] \in Thread /\ wk[w].j \in Job BY TypeOKNamed DEF Fire, ThreadOK
<1>2. CASE grp[GroupOf[wk[w].j]].fired
  <2>1. Goes(w, Free) BY <1>2 DEF Fire
  <2> QED BY <2>1, FreeTyped
<1>3. CASE ~grp[GroupOf[wk[w].j]].fired
  <2>1. PICK s : s = [wk[w] EXCEPT !.pc = "fired"] OBVIOUS
  <2>2. s \in Thread /\ s.pc = "fired" /\ s.j = wk[w].j BY <1>1, <2>1 DEF Thread
  <2>3. Goes(w, s) BY <1>3, <2>1 DEF Fire
  <2> QED BY <1>1, <1>3, <2>2, <2>3 DEF ThreadOK
<1> QED BY <1>2, <1>3

LEMMA TypeInit == Init => TypeOK
<1> SUFFICES ASSUME Init PROVE TypeOK OBVIOUS
<1>1. job \in [Job -> Doc] BY FreeTyped DEF Init
<1>2. grp \in [Group -> [remaining: Int, failed: BOOLEAN, fired: BOOLEAN]] BY DEF Init
<1>3. made \in [Group -> Nat] /\ par \in [Group -> {"none", "making", "ended"}] BY DEF Init
<1>4. wk \in [Worker -> Thread] /\ \A w \in Worker : ThreadOK(wk[w]) BY FreeTyped DEF Init
<1>5. op \in [Operator -> [pc: {"idle", "retrying"}, j: Job \cup {NoJob}, doc: Doc]]
      /\ \A p \in Operator : op[p].pc # "idle" => op[p].j \in Job
  BY FreeTyped DEF Init, NoCommand
<1> QED BY <1>1, <1>2, <1>3, <1>4, <1>5, TypeOKNamed DEF Init

\* The steps that release their thread: nothing else changes but rows of groups.
LEMMA ReleaseTyped ==
  ASSUME TypeOK, NEW w \in Worker, Goes(w, Free)
  PROVE  wk' \in [Worker -> Thread] /\ \A v \in Worker : ThreadOK(wk'[v])
BY TypeOKNamed, FreeTyped, GoesTyped

LEMMA TypeStep ==
  ASSUME TypeOK, Next
  PROVE  TypeOK'
<1> USE TypeOKNamed
<1> DEFINE WkOK == wk' \in [Worker -> Thread] /\ \A w \in Worker : ThreadOK(wk'[w])
<1> DEFINE RowsOK ==
      /\ job' \in [Job -> Doc]
      /\ grp' \in [Group -> [remaining: Int, failed: BOOLEAN, fired: BOOLEAN]]
      /\ made' \in [Group -> Nat]
      /\ WkOK
      /\ par' \in [Group -> {"none", "making", "ended"}]
      /\ op' \in [Operator -> [pc: {"idle", "retrying"}, j: Job \cup {NoJob}, doc: Doc]]
      /\ \A p \in Operator : op'[p].pc # "idle" => op'[p].j \in Job
      /\ won' \subseteq Job /\ byHand' \subseteq Job /\ faults' \in Nat /\ commands' \in Nat
<1>0. RowsOK => TypeOK' BY DEF TypeOK, Thread, ThreadOK
<1>1. ASSUME NEW g \in Group, CreateGroup(g) PROVE TypeOK'
  <2>1. Cardinality(Members(g)) \in Int
    BY FS_Subset, FS_CardinalityType, JobGroupsAssumption DEF Members
  <2> QED BY <1>0, <1>1, <2>1 DEF CreateGroup, count
<1>2. ASSUME NEW g \in Group, NEW j \in Job, CreateMember(g, j) PROVE TypeOK'
  <2>1. job' \in [Job -> Doc] BY <1>2, WriteTyped, FreeTyped DEF CreateMember
  <2> QED BY <1>0, <1>2, <2>1 DEF CreateMember, count
<1>3. ASSUME NEW g \in Group, ParentDies(g) PROVE TypeOK'
  BY <1>0, <1>3 DEF ParentDies, count, Fault
<1>4. ASSUME NEW w \in Worker, NEW j \in Job, ClaimDueJob(w, j) PROVE TypeOK'
  <2>1. [job[j] EXCEPT !.status = "claimed"] \in Doc BY DEF Doc, Statuses
  <2>2. job' \in [Job -> Doc] BY <1>4, <2>1, WriteTyped DEF ClaimDueJob
  <2>3. PICK s : s = [Free EXCEPT !.pc = "claimed", !.j = j] OBVIOUS
  <2>4. s \in Thread /\ ThreadOK(s) BY <2>3, FreeTyped DEF Thread, ThreadOK
  <2>5. WkOK BY <1>4, <2>3, <2>4, GoesTyped DEF ClaimDueJob
  <2> QED BY <1>0, <1>4, <2>2, <2>5 DEF ClaimDueJob, count
<1>5. ASSUME NEW w \in Worker, NEW j \in Job, RunByHand(w, j) PROVE TypeOK'
  <2>3. PICK s : s = [Free EXCEPT !.pc = "claimed", !.j = j] OBVIOUS
  <2>4. s \in Thread /\ ThreadOK(s) BY <2>3, FreeTyped DEF Thread, ThreadOK
  <2>5. WkOK BY <1>5, <2>3, <2>4, GoesTyped DEF RunByHand
  <2> QED BY <1>0, <1>5, <2>5 DEF RunByHand, Command
<1>6. ASSUME NEW w \in Worker, ReadJob(w) PROVE TypeOK'
  <2>1. wk[w] \in Thread /\ wk[w].j \in Job BY <1>6 DEF ReadJob, ThreadOK
  <2>2. job[wk[w].j] \in Doc BY <2>1
  <2>3. PICK s : s = [wk[w] EXCEPT !.pc = "read", !.doc = job[wk[w].j]] OBVIOUS
  <2>4. s \in Thread /\ ThreadOK(s) BY <2>1, <2>2, <2>3 DEF Thread, ThreadOK
  <2>5. WkOK BY <1>6, <2>3, <2>4, GoesTyped DEF ReadJob
  <2> QED BY <1>0, <1>6, <2>5 DEF ReadJob, count
<1>7. ASSUME NEW w \in Worker, RunJobRaises(w) PROVE TypeOK'
  BY <1>0, <1>7, ReleaseTyped DEF RunJobRaises, count, Fault
<1>8. ASSUME NEW w \in Worker, SaveRunning(w) PROVE TypeOK'
  <2>1. wk[w] \in Thread /\ wk[w].j \in Job BY <1>8 DEF SaveRunning, ThreadOK
  <2>2. PICK doc : doc = [wk[w].doc EXCEPT !.status = "running"] OBVIOUS
  <2>3. doc \in Doc BY <2>1, <2>2 DEF Thread, Doc, Statuses
  <2>4. PICK s : s = [wk[w] EXCEPT !.pc = "running", !.doc = doc] OBVIOUS
  <2>5. s \in Thread /\ ThreadOK(s) BY <2>1, <2>3, <2>4 DEF Thread, ThreadOK
  <2>6. Goes(w, s) /\ Write(wk[w].j, doc) BY <1>8, <2>2, <2>4 DEF SaveRunning
  <2>7. WkOK /\ job' \in [Job -> Doc] BY <2>1, <2>3, <2>5, <2>6, GoesTyped, WriteTyped
  <2> QED BY <1>0, <1>8, <2>7 DEF SaveRunning, count
<1>9. ASSUME NEW w \in Worker, NEW outcome \in {"completed", "waiting", "failed"},
             Execute(w, outcome)
      PROVE  TypeOK'
  <2>1. wk[w] \in Thread /\ wk[w].j \in Job BY <1>9 DEF Execute, ThreadOK
  <2>2. PICK doc : doc = After(wk[w].doc, outcome) OBVIOUS
  <2>3. doc \in Doc BY <2>1, <2>2, AfterTyped DEF Thread
  <2>4. PICK s : s = [wk[w] EXCEPT !.pc = "ran", !.doc = doc] OBVIOUS
  <2>5. s \in Thread /\ ThreadOK(s) BY <2>1, <2>3, <2>4 DEF Thread, ThreadOK
  <2>6. Goes(w, s) BY <1>9, <2>2, <2>4 DEF Execute
  <2>7. WkOK BY <2>5, <2>6, GoesTyped
  <2>8. won' \subseteq Job BY <1>9, <2>1 DEF Execute
  <2> QED BY <1>0, <1>9, <2>7, <2>8 DEF Execute, count
<1>10. ASSUME NEW w \in Worker, SaveResult(w) PROVE TypeOK'
  <2>1. wk[w] \in Thread /\ wk[w].j \in Job /\ wk[w].doc \in Doc
    BY <1>10 DEF SaveResult, ThreadOK, Thread
  <2>2. PICK s \in Thread : Goes(w, s) /\ ThreadOK(s) BY <1>10, SaveResultGoes
  <2>3. WkOK BY <2>2, GoesTyped
  <2>4. job' \in [Job -> Doc] BY <1>10, <2>1, WriteTyped DEF SaveResult
  <2> QED BY <1>0, <1>10, <2>3, <2>4 DEF SaveResult, count
<1>11. ASSUME NEW w \in Worker, MarkFailed(w) PROVE TypeOK'
  BY <1>0, <1>11, ReleaseTyped DEF MarkFailed, count
<1>12. ASSUME NEW w \in Worker, CountDown(w) PROVE TypeOK'
  <2>1. wk[w] \in Thread /\ wk[w].j \in Job BY <1>12 DEF CountDown, ThreadOK
  <2>2. PICK s \in Thread : Goes(w, s) /\ ThreadOK(s) BY <1>12, CountDownGoes
  <2>3. WkOK BY <2>2, GoesTyped
  <2>4. GroupOf[wk[w].j] \in Group BY <2>1, JobGroupsAssumption
  <2>5. PICK row : row = [grp[GroupOf[wk[w].j]] EXCEPT !.remaining = @ - 1] OBVIOUS
  <2>6. row \in [remaining: Int, failed: BOOLEAN, fired: BOOLEAN] BY <2>4, <2>5
  <2>7. grp' = [grp EXCEPT ![GroupOf[wk[w].j]] = row] BY <1>12, <2>5 DEF CountDown
  <2>8. grp' \in [Group -> [remaining: Int, failed: BOOLEAN, fired: BOOLEAN]] BY <2>6, <2>7
  <2> QED BY <1>0, <1>12, <2>3, <2>8 DEF CountDown, count
<1>13. ASSUME NEW w \in Worker, Fire(w) PROVE TypeOK'
  <2>2. PICK s \in Thread : Goes(w, s) /\ ThreadOK(s) BY <1>13, FireGoes
  <2>3. WkOK BY <2>2, GoesTyped
  <2> QED BY <1>0, <1>13, <2>3 DEF Fire, count
<1>14. ASSUME NEW w \in Worker, CreateFanIn(w) PROVE TypeOK'
  <2>1. wk[w].j \in Job BY <1>14 DEF CreateFanIn, ThreadOK
  <2>2. GroupOf[wk[w].j] \in Group BY <2>1, JobGroupsAssumption
  <2>3. PICK n : n = made[GroupOf[wk[w].j]] + 1 OBVIOUS
  <2>4. n \in Nat BY <2>2, <2>3
  <2>5. made' = [made EXCEPT ![GroupOf[wk[w].j]] = n] BY <1>14, <2>3 DEF CreateFanIn
  <2>6. made' \in [Group -> Nat] BY <2>4, <2>5
  <2>7. WkOK BY <1>14, ReleaseTyped DEF CreateFanIn
  <2> QED BY <1>0, <1>14, <2>6, <2>7 DEF CreateFanIn, count
<1>15. ASSUME NEW w \in Worker, GroupErrorSwallowed(w) PROVE TypeOK'
  BY <1>0, <1>15, ReleaseTyped DEF GroupErrorSwallowed, count, Fault
<1>16. ASSUME NEW w \in Worker, WorkerDies(w) PROVE TypeOK'
  BY <1>0, <1>16, ReleaseTyped DEF WorkerDies, count, Fault
<1>17. ASSUME NEW p \in Operator, NEW j \in Job, BeginRetry(p, j) PROVE TypeOK'
  BY <1>0, <1>17 DEF BeginRetry, Command
<1>18. ASSUME NEW p \in Operator, SaveRetried(p) PROVE TypeOK'
  <2>1. job' \in [Job -> Doc] BY <1>18, WriteTyped, FreeTyped DEF SaveRetried
  <2> QED BY <1>0, <1>18, <2>1, FreeTyped DEF SaveRetried, count, NoCommand
<1> QED BY <1>1, <1>2, <1>3, <1>4, <1>5, <1>6, <1>7, <1>8, <1>9, <1>10, <1>11, <1>12, <1>13,
           <1>14, <1>15, <1>16, <1>17, <1>18 DEF Next, Work, Schedule

\* Jobs, groups, workers and operators keep their types, for any number of each
\* (engine.py run_job, store_postgres.py claim_due_job, group_job_done).
THEOREM GroupsTypeCorrect == Spec => []TypeOK
<1>1. TypeOK /\ [Next]_vars => TypeOK'
  <2>1. CASE UNCHANGED vars BY <2>1 DEF vars, count, TypeOK
  <2> QED BY <2>1, TypeStep
<1> QED BY <1>1, TypeInit, PTL DEF Spec
-----------------------------------------------------------------------------
(* One worker to a job. *)

\* A thread that goes on with its job, or lets it go, and writes no row of it.
LEMMA AloneGoes ==
  ASSUME TypeOK, Alone, NEW w \in Worker, NEW s \in Thread, ThreadOK(s), Goes(w, s),
         s.pc \in Running => wk[w].pc \in Running /\ s.j = wk[w].j,
         job' = job, op' = op, byHand' = byHand
  PROVE  Alone'
<1>1. \A v \in Worker : wk'[v] = IF v = w THEN s ELSE wk[v] BY TypeOKNamed, GoesTyped
<1>2. \A v \in Worker : wk'[v].pc \in Running => wk[v].pc \in Running /\ wk'[v].j = wk[v].j
  BY <1>1
<1>3. \A v \in Worker : wk'[v].pc \in Running /\ wk'[v].j \notin byHand'
        => job'[wk'[v].j].status \in Held
  BY <1>2 DEF Alone
<1>4. JobRunsAlone'
  <2> SUFFICES ASSUME NEW u \in Worker, NEW v \in Worker, u # v,
                      wk'[u].pc \in Running, wk'[v].pc \in Running
               PROVE  wk'[u].j # wk'[v].j \/ wk'[u].j \in byHand'
    BY DEF JobRunsAlone, Running
  <2> QED BY <1>2 DEF Alone, JobRunsAlone, Running
<1> QED BY <1>3, <1>4 DEF Alone

\* A thread that writes the row of its job.
LEMMA AloneSaves ==
  ASSUME TypeOK, Alone, NEW w \in Worker, NEW s \in Thread, ThreadOK(s), Goes(w, s),
         wk[w].pc \in Running, NEW doc \in Doc, Write(wk[w].j, doc),
         s.pc \in Running => s.j = wk[w].j /\ doc.status \in Held,
         op' = op, byHand' = byHand
  PROVE  Alone'
<1>1. wk[w].j \in Job BY TypeOKNamed DEF ThreadOK, Running
<1>2. \A v \in Worker : wk'[v] = IF v = w THEN s ELSE wk[v] BY TypeOKNamed, GoesTyped
<1>3. \A i \in Job : job'[i] = IF i = wk[w].j THEN doc ELSE job[i]
  BY <1>1, TypeOKNamed, WriteTyped
<1>4. \A v \in Worker : wk'[v].pc \in Running => wk[v].pc \in Running /\ wk'[v].j = wk[v].j
  BY <1>2
<1>5. JobRunsAlone'
  <2> SUFFICES ASSUME NEW u \in Worker, NEW v \in Worker, u # v,
                      wk'[u].pc \in Running, wk'[v].pc \in Running
               PROVE  wk'[u].j # wk'[v].j \/ wk'[u].j \in byHand'
    BY DEF JobRunsAlone, Running
  <2> QED BY <1>4 DEF Alone, JobRunsAlone, Running
<1>6. ASSUME NEW v \in Worker, wk'[v].pc \in Running, wk'[v].j \notin byHand'
      PROVE  job'[wk'[v].j].status \in Held
  <2>1. wk[v].pc \in Running /\ wk'[v].j = wk[v].j /\ wk[v].j \in Job
    BY <1>4, <1>6, TypeOKNamed DEF ThreadOK, Running
  <2>2. CASE v = w BY <1>2, <1>3, <1>6, <2>1, <2>2
  <2>3. CASE v # w
    <3>1. wk[v].j # wk[w].j BY <1>6, <2>1, <2>3 DEF Alone, JobRunsAlone, Running
    <3>2. job[wk[v].j].status \in Held BY <1>6, <2>1 DEF Alone
    <3> QED BY <1>3, <2>1, <3>1, <3>2
  <2> QED BY <2>2, <2>3
<1>7. ASSUME NEW p \in Operator, op'[p].pc = "retrying", op'[p].j \notin byHand'
      PROVE  job'[op'[p].j].status = "failed"
  <2>1. op[p].j \in Job /\ job[op[p].j].status = "failed" BY <1>7, TypeOKNamed DEF Alone
  <2>2. op[p].j # wk[w].j BY <1>7, <2>1 DEF Alone, Held
  <2> QED BY <1>3, <2>1, <2>2
<1> QED BY <1>5, <1>6, <1>7 DEF Alone

\* The only operator puts back what is still dead, so nobody is at it.
LEMMA AloneRetried ==
  ASSUME OneOperator, TypeOK, Alone, NEW p \in Operator, SaveRetried(p)
  PROVE  Alone'
<1>1. op[p].j \in Job BY TypeOKNamed DEF SaveRetried
<1>2. \A i \in Job : job'[i] = IF i = op[p].j THEN NewDoc ELSE job[i]
  BY <1>1, TypeOKNamed, FreeTyped, WriteTyped DEF SaveRetried
<1>3. wk' = wk /\ byHand' = byHand BY DEF SaveRetried, count
<1>4. op[p].j \notin byHand => job[op[p].j].status = "failed" BY DEF SaveRetried, Alone
<1>5. JobRunsAlone' BY <1>3 DEF Alone, JobRunsAlone
<1>6. ASSUME NEW v \in Worker, wk'[v].pc \in Running, wk'[v].j \notin byHand'
      PROVE  job'[wk'[v].j].status \in Held
  <2>1. wk[v].j \in Job BY <1>3, <1>6, TypeOKNamed DEF ThreadOK, Running
  <2>2. job[wk[v].j].status \in Held BY <1>3, <1>6 DEF Alone
  <2>3. wk[v].j # op[p].j BY <1>3, <1>4, <1>6, <2>2 DEF Held
  <2> QED BY <1>2, <1>3, <2>1, <2>2, <2>3
<1>7. op' = [op EXCEPT ![p] = NoCommand] /\ NoCommand.pc = "idle" BY DEF SaveRetried, NoCommand
<1>8. \A q \in Operator : op'[q].pc # "retrying" BY <1>7, TypeOKNamed DEF OneOperator
<1> QED BY <1>5, <1>6, <1>8 DEF Alone

LEMMA AloneClaims ==
  ASSUME TypeOK, Alone, NEW w \in Worker, NEW j \in Job, ClaimDueJob(w, j)
  PROVE  Alone'
<1>1. PICK s : s = [Free EXCEPT !.pc = "claimed", !.j = j] OBVIOUS
<1>2. s \in Thread /\ ThreadOK(s) /\ s.j = j BY <1>1, FreeTyped DEF Thread, ThreadOK
<1>3. PICK doc : doc = [job[j] EXCEPT !.status = "claimed"] OBVIOUS
<1>4. doc \in Doc /\ doc.status = "claimed" BY <1>3, TypeOKNamed DEF Doc, Statuses
<1>5. Goes(w, s) /\ Write(j, doc) BY <1>1, <1>3 DEF ClaimDueJob
<1>6. \A v \in Worker : wk'[v] = IF v = w THEN s ELSE wk[v] BY <1>2, <1>5, TypeOKNamed, GoesTyped
<1>7. \A i \in Job : job'[i] = IF i = j THEN doc ELSE job[i]
  BY <1>4, <1>5, TypeOKNamed, WriteTyped
<1>8. op' = op /\ byHand' = byHand /\ job[j].status = "pending" BY DEF ClaimDueJob, count
<1>9. \A v \in Worker : wk[v].pc \in Running /\ wk[v].j \notin byHand => wk[v].j # j
  BY <1>8 DEF Alone, Held
<1>10. JobRunsAlone'
  <2> SUFFICES ASSUME NEW u \in Worker, NEW v \in Worker, u # v,
                      wk'[u].pc \in Running, wk'[v].pc \in Running
               PROVE  wk'[u].j # wk'[v].j \/ wk'[u].j \in byHand'
    BY DEF JobRunsAlone, Running
  <2>1. CASE u = w BY <1>2, <1>6, <1>8, <1>9, <2>1
  <2>2. CASE v = w BY <1>2, <1>6, <1>8, <1>9, <2>2
  <2>3. CASE u # w /\ v # w BY <1>6, <1>8, <2>3 DEF Alone, JobRunsAlone, Running
  <2> QED BY <2>1, <2>2, <2>3
<1>11. ASSUME NEW v \in Worker, wk'[v].pc \in Running, wk'[v].j \notin byHand'
       PROVE  job'[wk'[v].j].status \in Held
  <2>1. CASE v = w BY <1>2, <1>4, <1>6, <1>7, <2>1 DEF Held
  <2>2. CASE v # w
    <3>1. wk'[v] = wk[v] BY <1>6, <2>2
    <3>2. wk[v].j \in Job /\ job[wk[v].j].status \in Held
      BY <1>8, <1>11, <3>1, TypeOKNamed DEF Alone, ThreadOK, Running
    <3> QED BY <1>4, <1>7, <3>1, <3>2 DEF Held
  <2> QED BY <2>1, <2>2
<1>12. ASSUME NEW p \in Operator, op'[p].pc = "retrying", op'[p].j \notin byHand'
       PROVE  job'[op'[p].j].status = "failed"
  <2>1. op[p].j \in Job /\ job[op[p].j].status = "failed" BY <1>8, <1>12, TypeOKNamed DEF Alone
  <2> QED BY <1>7, <1>8, <2>1
<1> QED BY <1>10, <1>11, <1>12 DEF Alone

\* What is run by hand is excused.
LEMMA AloneByHand ==
  ASSUME TypeOK, Alone, NEW w \in Worker, NEW j \in Job, RunByHand(w, j)
  PROVE  Alone'
<1>1. PICK s : s = [Free EXCEPT !.pc = "claimed", !.j = j] OBVIOUS
<1>2. s \in Thread /\ ThreadOK(s) /\ s.j = j BY <1>1, FreeTyped DEF Thread, ThreadOK
<1>3. \A v \in Worker : wk'[v] = IF v = w THEN s ELSE wk[v]
  BY <1>1, <1>2, TypeOKNamed, GoesTyped DEF RunByHand
<1>4. op' = op /\ job' = job /\ byHand' = byHand \cup {j} BY DEF RunByHand
<1>5. JobRunsAlone'
  <2> SUFFICES ASSUME NEW u \in Worker, NEW v \in Worker, u # v,
                      wk'[u].pc \in Running, wk'[v].pc \in Running
               PROVE  wk'[u].j # wk'[v].j \/ wk'[u].j \in byHand'
    BY DEF JobRunsAlone, Running
  <2>1. CASE u = w \/ v = w BY <1>2, <1>3, <1>4, <2>1
  <2>2. CASE u # w /\ v # w BY <1>3, <1>4, <2>2 DEF Alone, JobRunsAlone, Running
  <2> QED BY <2>1, <2>2
<1>6. ASSUME NEW v \in Worker, wk'[v].pc \in Running, wk'[v].j \notin byHand'
      PROVE  job'[wk'[v].j].status \in Held
  <2>1. v # w BY <1>2, <1>3, <1>4, <1>6
  <2> QED BY <1>3, <1>4, <1>6, <2>1 DEF Alone
<1>7. \A p \in Operator : op'[p].pc = "retrying" /\ op'[p].j \notin byHand'
        => job'[op'[p].j].status = "failed"
  BY <1>4 DEF Alone
<1> QED BY <1>5, <1>6, <1>7 DEF Alone

LEMMA AloneRetries ==
  ASSUME TypeOK, Alone, NEW p \in Operator, NEW j \in Job, BeginRetry(p, j)
  PROVE  Alone'
<1>1. PICK c : c = [pc |-> "retrying", j |-> j, doc |-> job[j]] OBVIOUS
<1>2. op' = [op EXCEPT ![p] = c] BY <1>1 DEF BeginRetry
<1>3. \A q \in Operator : op'[q] = IF q = p THEN c ELSE op[q] BY <1>2, TypeOKNamed
<1>4. wk' = wk /\ job' = job /\ byHand' = byHand /\ job[j].status = "failed" BY DEF BeginRetry
<1>5. c.j = j BY <1>1
<1>6. \A q \in Operator : op'[q].pc = "retrying" /\ op'[q].j \notin byHand'
        => job'[op'[q].j].status = "failed"
  BY <1>3, <1>4, <1>5 DEF Alone
<1> QED BY <1>4, <1>6 DEF Alone, JobRunsAlone

LEMMA AloneStep ==
  ASSUME OneOperator, TypeOK, Alone, Next
  PROVE  Alone'
<1> USE TypeOKNamed
<1>1. ASSUME NEW g \in Group, CreateGroup(g) PROVE Alone'
  BY <1>1 DEF CreateGroup, count, Alone, JobRunsAlone
<1>2. ASSUME NEW g \in Group, NEW j \in Job, CreateMember(g, j) PROVE Alone'
  <2>1. job[j].status = "none" /\ wk' = wk /\ op' = op /\ byHand' = byHand /\ Write(j, NewDoc)
    BY <1>2 DEF CreateMember, count
  <2>2. \A i \in Job : job'[i] = IF i = j THEN NewDoc ELSE job[i]
    BY <2>1, FreeTyped, WriteTyped
  <2>3. JobRunsAlone' BY <2>1 DEF Alone, JobRunsAlone
  <2>4. ASSUME NEW v \in Worker, wk'[v].pc \in Running, wk'[v].j \notin byHand'
        PROVE  job'[wk'[v].j].status \in Held
    BY <2>1, <2>2, <2>4 DEF Alone, ThreadOK, Running, Held
  <2>5. ASSUME NEW p \in Operator, op'[p].pc = "retrying", op'[p].j \notin byHand'
        PROVE  job'[op'[p].j].status = "failed"
    BY <2>1, <2>2, <2>5 DEF Alone
  <2> QED BY <2>3, <2>4, <2>5 DEF Alone
<1>3. ASSUME NEW g \in Group, ParentDies(g) PROVE Alone'
  BY <1>3 DEF ParentDies, count, Alone, JobRunsAlone
<1>4. ASSUME NEW w \in Worker, NEW j \in Job, ClaimDueJob(w, j) PROVE Alone'
  BY <1>4, AloneClaims
<1>5. ASSUME NEW w \in Worker, NEW j \in Job, RunByHand(w, j) PROVE Alone'
  BY <1>5, AloneByHand
<1>6. ASSUME NEW w \in Worker, ReadJob(w) PROVE Alone'
  <2>1. wk[w] \in Thread /\ wk[w].j \in Job BY <1>6 DEF ReadJob, ThreadOK
  <2>2. PICK s : s = [wk[w] EXCEPT !.pc = "read", !.doc = job[wk[w].j]] OBVIOUS
  <2>3. s \in Thread /\ s.j = wk[w].j BY <2>1, <2>2 DEF Thread
  <2>4. Goes(w, s) /\ wk[w].pc \in Running /\ job' = job /\ op' = op /\ byHand' = byHand
    BY <1>6, <2>2 DEF ReadJob, count, Running
  <2> QED BY <2>1, <2>3, <2>4, AloneGoes DEF ThreadOK
<1>7. ASSUME NEW w \in Worker, SaveRunning(w) PROVE Alone'
  <2>1. wk[w] \in Thread /\ wk[w].j \in Job BY <1>7 DEF SaveRunning, ThreadOK
  <2>2. PICK doc : doc = [wk[w].doc EXCEPT !.status = "running"] OBVIOUS
  <2>3. doc \in Doc /\ doc.status = "running" BY <2>1, <2>2 DEF Thread, Doc, Statuses
  <2>4. PICK s : s = [wk[w] EXCEPT !.pc = "running", !.doc = doc] OBVIOUS
  <2>5. s \in Thread /\ ThreadOK(s) /\ s.j = wk[w].j BY <2>1, <2>3, <2>4 DEF Thread, ThreadOK
  <2>6. Goes(w, s) /\ Write(wk[w].j, doc) BY <1>7, <2>2, <2>4 DEF SaveRunning
  <2>7. wk[w].pc \in Running /\ op' = op /\ byHand' = byHand
    BY <1>7 DEF SaveRunning, count, Running
  <2> QED BY <2>3, <2>5, <2>6, <2>7, AloneSaves DEF Held
<1>8. ASSUME NEW w \in Worker, NEW outcome \in {"completed", "waiting", "failed"},
             Execute(w, outcome)
      PROVE  Alone'
  <2>1. wk[w] \in Thread /\ wk[w].j \in Job BY <1>8 DEF Execute, ThreadOK
  <2>2. PICK doc : doc = After(wk[w].doc, outcome) OBVIOUS
  <2>3. doc \in Doc BY <2>1, <2>2, AfterTyped DEF Thread
  <2>4. PICK s : s = [wk[w] EXCEPT !.pc = "ran", !.doc = doc] OBVIOUS
  <2>5. s \in Thread /\ ThreadOK(s) /\ s.j = wk[w].j BY <2>1, <2>3, <2>4 DEF Thread, ThreadOK
  <2>6. Goes(w, s) BY <1>8, <2>2, <2>4 DEF Execute
  <2>7. wk[w].pc \in Running /\ job' = job /\ op' = op /\ byHand' = byHand
    BY <1>8 DEF Execute, count, Running
  <2> QED BY <2>5, <2>6, <2>7, AloneGoes
<1>9. ASSUME NEW w \in Worker, SaveResult(w) PROVE Alone'
  <2>1. wk[w] \in Thread /\ wk[w].j \in Job /\ wk[w].doc \in Doc
    BY <1>9 DEF SaveResult, ThreadOK, Thread
  <2>2. PICK s \in Thread : Goes(w, s) /\ ThreadOK(s) /\ s.pc \in {"idle", "won", "lost"}
    BY <1>9, SaveResultGoes
  <2>3. wk[w].pc \in Running /\ op' = op /\ byHand' = byHand /\ Write(wk[w].j, wk[w].doc)
    BY <1>9 DEF SaveResult, count, Running
  <2>4. s.pc \notin Running BY <2>2 DEF Running
  <2> QED BY <2>1, <2>2, <2>3, <2>4, AloneSaves
<1>10. ASSUME NEW w \in Worker, Goes(w, Free), job' = job, op' = op, byHand' = byHand
       PROVE  Alone'
  <2>1. Free.pc \notin Running BY FreeTyped DEF Running
  <2> QED BY <1>10, <2>1, FreeTyped, AloneGoes
<1>11. ASSUME NEW w \in Worker,
              \/ MarkFailed(w) \/ CreateFanIn(w) \/ GroupErrorSwallowed(w)
              \/ WorkerDies(w) \/ RunJobRaises(w)
       PROVE  Alone'
  BY <1>10, <1>11
     DEF MarkFailed, CreateFanIn, GroupErrorSwallowed, WorkerDies, RunJobRaises, count
<1>12. ASSUME NEW w \in Worker, CountDown(w) PROVE Alone'
  <2>1. PICK s \in Thread : Goes(w, s) /\ ThreadOK(s) /\ s.pc \in {"idle", "firing"}
    BY <1>12, CountDownGoes
  <2>2. s.pc \notin Running BY <2>1 DEF Running
  <2> QED BY <1>12, <2>1, <2>2, AloneGoes DEF CountDown, count
<1>13. ASSUME NEW w \in Worker, Fire(w) PROVE Alone'
  <2>1. PICK s \in Thread : Goes(w, s) /\ ThreadOK(s) /\ s.pc \in {"idle", "fired"}
    BY <1>13, FireGoes
  <2>2. s.pc \notin Running BY <2>1 DEF Running
  <2> QED BY <1>13, <2>1, <2>2, AloneGoes DEF Fire, count
<1>14. ASSUME NEW p \in Operator, NEW j \in Job, BeginRetry(p, j) PROVE Alone'
  BY <1>14, AloneRetries
<1>15. ASSUME NEW p \in Operator, SaveRetried(p) PROVE Alone'
  BY <1>15, AloneRetried
<1> QED BY <1>1, <1>2, <1>3, <1>4, <1>5, <1>6, <1>7, <1>8, <1>9, <1>11, <1>12, <1>13, <1>14,
           <1>15 DEF Next, Work, Schedule

LEMMA AloneInit == Init => Alone
BY FreeTyped DEF Init, Alone, JobRunsAlone, Running, NoCommand

\* A job no operator runs by hand has one worker at most that has claimed it and not yet
\* saved what came of it (store_postgres.py claim_due_job), when no two commands of
\* operators overlap.
THEOREM OneWorkerPerJob == OneOperator /\ Spec => []JobRunsAlone
<1> SUFFICES ASSUME OneOperator PROVE Spec => []JobRunsAlone OBVIOUS
<1> DEFINE Inv == TypeOK /\ Alone
<1>1. Init => Inv BY TypeInit, AloneInit
<1>2. Inv /\ [Next]_vars => Inv'
  <2>1. CASE UNCHANGED vars BY <2>1 DEF vars, count, TypeOK, Alone, JobRunsAlone
  <2> QED BY <2>1, TypeStep, AloneStep
<1>3. Inv => JobRunsAlone BY DEF Alone
<1> QED BY <1>1, <1>2, <1>3, PTL DEF Spec
-----------------------------------------------------------------------------
(* What a step does to a thread, to the row of a job and to a group. *)

\* Why a thread may come to count, to fire or to carry on.
Legit(w, s) ==
  /\ s.pc = "won" => s.j = wk[w].j /\ SaveResult(w) /\ wk[w].doc.status = "done"
  /\ s.pc = "ran" /\ s.doc.status = "done" => s.j \in won'
  /\ s.pc = "firing" => /\ s.j = wk[w].j /\ CountDown(w)
                        /\ grp[GroupOf[wk[w].j]].remaining - 1 <= 0
  /\ s.pc = "fired" => s.j = wk[w].j /\ Fire(w) /\ ~grp[GroupOf[wk[w].j]].fired
  /\ s.pc # "idle" => \/ wk[w].pc # "idle" /\ s.j = wk[w].j
                      \/ s.j \in Job /\ job[s.j].status # "none"

Moved(w) == \E s \in Thread : Goes(w, s) /\ ThreadOK(s) /\ Legit(w, s)

LEMMA Mover ==
  ASSUME TypeOK, Next
  PROVE  wk' = wk \/ \E w \in Worker : Moved(w)
<1> USE TypeOKNamed
<1>1. ASSUME NEW g \in Group, CreateGroup(g) PROVE wk' = wk BY <1>1 DEF CreateGroup
<1>2. ASSUME NEW g \in Group, NEW j \in Job, CreateMember(g, j) PROVE wk' = wk
  BY <1>2 DEF CreateMember
<1>3. ASSUME NEW g \in Group, ParentDies(g) PROVE wk' = wk BY <1>3 DEF ParentDies
<1>4. ASSUME NEW w \in Worker, NEW j \in Job, ClaimDueJob(w, j) \/ RunByHand(w, j)
      PROVE  Moved(w)
  <2>1. PICK s : s = [Free EXCEPT !.pc = "claimed", !.j = j] OBVIOUS
  <2>2. s \in Thread /\ ThreadOK(s) /\ s.j = j /\ s.pc = "claimed"
    BY <2>1, FreeTyped DEF Thread, ThreadOK
  <2>3. Goes(w, s) /\ job[j].status # "none" BY <1>4, <2>1 DEF ClaimDueJob, RunByHand
  <2> QED BY <2>2, <2>3 DEF Moved, Legit
<1>6. ASSUME NEW w \in Worker, ReadJob(w) PROVE Moved(w)
  <2>1. wk[w] \in Thread /\ wk[w].j \in Job /\ wk[w].pc # "idle" BY <1>6 DEF ReadJob, ThreadOK
  <2>2. PICK s : s = [wk[w] EXCEPT !.pc = "read", !.doc = job[wk[w].j]] OBVIOUS
  <2>3. s \in Thread /\ s.j = wk[w].j /\ s.pc = "read" BY <2>1, <2>2 DEF Thread
  <2>4. Goes(w, s) BY <1>6, <2>2 DEF ReadJob
  <2> QED BY <2>1, <2>3, <2>4 DEF Moved, Legit, ThreadOK
<1>7. ASSUME NEW w \in Worker, SaveRunning(w) PROVE Moved(w)
  <2>1. wk[w] \in Thread /\ wk[w].j \in Job /\ wk[w].pc # "idle"
    BY <1>7 DEF SaveRunning, ThreadOK
  <2>2. PICK doc : doc = [wk[w].doc EXCEPT !.status = "running"] OBVIOUS
  <2>3. doc \in Doc BY <2>1, <2>2 DEF Thread, Doc, Statuses
  <2>4. PICK s : s = [wk[w] EXCEPT !.pc = "running", !.doc = doc] OBVIOUS
  <2>5. s \in Thread /\ s.j = wk[w].j /\ s.pc = "running" BY <2>1, <2>3, <2>4 DEF Thread
  <2>6. Goes(w, s) BY <1>7, <2>2, <2>4 DEF SaveRunning
  <2> QED BY <2>1, <2>5, <2>6 DEF Moved, Legit, ThreadOK
<1>8. ASSUME NEW w \in Worker, NEW outcome \in {"completed", "waiting", "failed"},
             Execute(w, outcome)
      PROVE  Moved(w)
  <2>1. wk[w] \in Thread /\ wk[w].j \in Job /\ wk[w].pc # "idle" BY <1>8 DEF Execute, ThreadOK
  <2>2. PICK doc : doc = After(wk[w].doc, outcome) OBVIOUS
  <2>3. doc \in Doc /\ (doc.status = "done" => outcome = "completed")
    BY <2>1, <2>2, AfterTyped DEF Thread
  <2>4. PICK s : s = [wk[w] EXCEPT !.pc = "ran", !.doc = doc] OBVIOUS
  <2>5. s \in Thread /\ s.j = wk[w].j /\ s.pc = "ran" /\ s.doc = doc
    BY <2>1, <2>3, <2>4 DEF Thread
  <2>6. Goes(w, s) BY <1>8, <2>2, <2>4 DEF Execute
  <2>7. outcome = "completed" => wk[w].j \in won' BY <1>8 DEF Execute
  <2> QED BY <2>1, <2>3, <2>5, <2>6, <2>7 DEF Moved, Legit, ThreadOK
<1>9. ASSUME NEW w \in Worker, SaveResult(w) PROVE Moved(w)
  <2>1. wk[w].pc # "idle" BY <1>9 DEF SaveResult
  <2>2. PICK s \in Thread : /\ Goes(w, s) /\ ThreadOK(s) /\ s.pc \in {"idle", "won", "lost"}
                            /\ s.pc = "won" => wk[w].doc.status = "done"
                            /\ s.pc # "idle" => s.j = wk[w].j
    BY <1>9, SaveResultGoes
  <2> QED BY <1>9, <2>1, <2>2 DEF Moved, Legit
<1>10. ASSUME NEW w \in Worker, Goes(w, Free) PROVE Moved(w)
  BY <1>10, FreeTyped DEF Moved, Legit
<1>11. ASSUME NEW w \in Worker,
              \/ MarkFailed(w) \/ CreateFanIn(w) \/ GroupErrorSwallowed(w)
              \/ WorkerDies(w) \/ RunJobRaises(w)
       PROVE  Moved(w)
  BY <1>10, <1>11 DEF MarkFailed, CreateFanIn, GroupErrorSwallowed, WorkerDies, RunJobRaises
<1>12. ASSUME NEW w \in Worker, CountDown(w) PROVE Moved(w)
  <2>1. wk[w].pc # "idle" BY <1>12 DEF CountDown
  <2> QED BY <1>12, <2>1, CountDownGoes DEF Moved, Legit
<1>13. ASSUME NEW w \in Worker, Fire(w) PROVE Moved(w)
  <2>1. wk[w].pc # "idle" BY <1>13 DEF Fire
  <2> QED BY <1>13, <2>1, FireGoes DEF Moved, Legit
<1>14. ASSUME NEW p \in Operator, NEW j \in Job, BeginRetry(p, j) PROVE wk' = wk
  BY <1>14 DEF BeginRetry
<1>15. ASSUME NEW p \in Operator, SaveRetried(p) PROVE wk' = wk BY <1>15 DEF SaveRetried
<1> QED BY <1>1, <1>2, <1>3, <1>4, <1>6, <1>7, <1>8, <1>9, <1>11, <1>12, <1>13, <1>14,
           <1>15 DEF Next, Work, Schedule

\* What each thread was before, if it now counts, fires, carries on or is busy at all.
LEMMA ThreadStep ==
  ASSUME TypeOK, Next, NEW v \in Worker
  PROVE  /\ wk'[v].pc = "won" => /\ wk'[v].j = wk[v].j
                                 /\ \/ wk[v].pc = "won"
                                    \/ SaveResult(v) /\ wk[v].doc.status = "done"
         /\ wk'[v].pc = "ran" /\ wk'[v].doc.status = "done" =>
              wk'[v] = wk[v] \/ wk'[v].j \in won'
         /\ wk'[v].pc = "firing" => /\ wk'[v].j = wk[v].j
                                    /\ \/ wk[v].pc = "firing"
                                       \/ /\ CountDown(v)
                                          /\ grp[GroupOf[wk[v].j]].remaining - 1 <= 0
         /\ wk'[v].pc = "fired" => /\ wk'[v].j = wk[v].j
                                   /\ \/ wk[v].pc = "fired"
                                      \/ Fire(v) /\ ~grp[GroupOf[wk[v].j]].fired
         /\ wk'[v].pc # "idle" => \/ wk[v].pc # "idle" /\ wk'[v].j = wk[v].j
                                  \/ wk'[v].j \in Job /\ job[wk'[v].j].status # "none"
<1>1. CASE wk' = wk BY <1>1
<1>2. ASSUME NEW w \in Worker, Moved(w)
      PROVE  wk'[v] = wk[v] \/ Legit(v, wk'[v])
  <2>1. PICK s \in Thread : Goes(w, s) /\ ThreadOK(s) /\ Legit(w, s) BY <1>2 DEF Moved
  <2>2. wk'[v] = IF v = w THEN s ELSE wk[v] BY <2>1, TypeOKNamed, GoesTyped
  <2>3. CASE v = w BY <2>1, <2>2, <2>3
  <2>4. CASE v # w BY <2>2, <2>4
  <2> QED BY <2>3, <2>4
<1>3. CASE Legit(v, wk'[v]) BY <1>3 DEF Legit
<1> QED BY <1>1, <1>2, <1>3, Mover

\* Who writes the row of a job, and what becomes of it.
RowFrom(i) ==
  \/ job'[i] = job[i]
  \/ job[i].status = "none" /\ par[GroupOf[i]] = "making" /\ job'[i].status = "pending"
  \/ job[i].status = "pending" /\ job'[i].status = "claimed"
  \/ \E w \in Worker : wk[w].pc \in Running /\ wk[w].j = i /\ job'[i].status = "running"
  \/ \E w \in Worker : SaveResult(w) /\ wk[w].j = i /\ job'[i] = wk[w].doc
  \/ \E p \in Operator : op[p].pc = "retrying" /\ op[p].j = i /\ job'[i].status = "pending"

LEMMA RowStep ==
  ASSUME TypeOK, Next, NEW i \in Job
  PROVE  RowFrom(i)
<1> USE TypeOKNamed
<1>0. CASE job' = job BY <1>0 DEF RowFrom
<1>1. ASSUME NEW g \in Group, NEW j \in Job, CreateMember(g, j) PROVE RowFrom(i)
  <2>1. job'[i] = IF i = j THEN NewDoc ELSE job[i]
    BY <1>1, FreeTyped, WriteTyped DEF CreateMember
  <2>2. GroupOf[j] = g /\ par[g] = "making" /\ job[j].status = "none"
    BY <1>1 DEF CreateMember, Members
  <2> QED BY <2>1, <2>2, FreeTyped DEF RowFrom
<1>2. ASSUME NEW w \in Worker, NEW j \in Job, ClaimDueJob(w, j) PROVE RowFrom(i)
  <2>1. PICK doc : doc = [job[j] EXCEPT !.status = "claimed"] OBVIOUS
  <2>2. doc \in Doc /\ doc.status = "claimed" BY <2>1 DEF Doc, Statuses
  <2>3. Write(j, doc) /\ job[j].status = "pending" BY <1>2, <2>1 DEF ClaimDueJob
  <2>4. job'[i] = IF i = j THEN doc ELSE job[i] BY <2>2, <2>3, WriteTyped
  <2> QED BY <2>2, <2>3, <2>4 DEF RowFrom
<1>3. ASSUME NEW w \in Worker, SaveRunning(w) PROVE RowFrom(i)
  <2>1. wk[w] \in Thread /\ wk[w].j \in Job /\ wk[w].pc \in Running
    BY <1>3 DEF SaveRunning, ThreadOK, Running
  <2>2. PICK doc : doc = [wk[w].doc EXCEPT !.status = "running"] OBVIOUS
  <2>3. doc \in Doc /\ doc.status = "running" BY <2>1, <2>2 DEF Thread, Doc, Statuses
  <2>4. Write(wk[w].j, doc) BY <1>3, <2>2 DEF SaveRunning
  <2>5. job'[i] = IF i = wk[w].j THEN doc ELSE job[i] BY <2>1, <2>3, <2>4, WriteTyped
  <2> QED BY <2>1, <2>3, <2>5 DEF RowFrom
<1>4. ASSUME NEW w \in Worker, SaveResult(w) PROVE RowFrom(i)
  <2>1. wk[w] \in Thread /\ wk[w].j \in Job /\ wk[w].doc \in Doc
    BY <1>4 DEF SaveResult, ThreadOK, Thread
  <2>2. job'[i] = IF i = wk[w].j THEN wk[w].doc ELSE job[i]
    BY <1>4, <2>1, WriteTyped DEF SaveResult
  <2> QED BY <1>4, <2>2 DEF RowFrom
<1>5. ASSUME NEW p \in Operator, SaveRetried(p) PROVE RowFrom(i)
  <2>1. op[p].pc = "retrying" /\ op[p].j \in Job BY <1>5 DEF SaveRetried
  <2>2. job'[i] = IF i = op[p].j THEN NewDoc ELSE job[i]
    BY <1>5, <2>1, FreeTyped, WriteTyped DEF SaveRetried
  <2> QED BY <2>1, <2>2, FreeTyped DEF RowFrom
<1> QED BY <1>0, <1>1, <1>2, <1>3, <1>4, <1>5
        DEF Next, Work, Schedule, CreateGroup, ParentDies, RunByHand, ReadJob, RunJobRaises,
            Execute, MarkFailed, CountDown, Fire, CreateFanIn, GroupErrorSwallowed, WorkerDies,
            BeginRetry

\* Nothing takes "done" back but a run by hand; what is newly done was saved so by its worker.
LEMMA DoneStays ==
  ASSUME TypeOK, Alone, Next, NEW i \in Job
  PROVE  /\ i \notin byHand /\ job[i].status = "done" => job'[i] = job[i]
         /\ job'[i].status = "done" =>
              \/ job[i].status = "done"
              \/ \E w \in Worker : SaveResult(w) /\ wk[w].j = i /\ wk[w].doc.status = "done"
<1>1. RowFrom(i) BY RowStep
<1>2. ASSUME i \notin byHand, job[i].status = "done" PROVE job'[i] = job[i]
  <2>1. ASSUME NEW w \in Worker, wk[w].pc \in Running, wk[w].j = i PROVE FALSE
    BY <1>2, <2>1 DEF Alone, Held
  <2>2. ASSUME NEW w \in Worker, SaveResult(w), wk[w].j = i PROVE FALSE
    BY <2>1, <2>2 DEF SaveResult, Running
  <2>3. ASSUME NEW p \in Operator, op[p].pc = "retrying", op[p].j = i PROVE FALSE
    BY <1>2, <2>3 DEF Alone
  <2> QED BY <1>1, <1>2, <2>1, <2>2, <2>3 DEF RowFrom
<1>3. job'[i].status = "done" =>
        \/ job[i].status = "done"
        \/ \E w \in Worker : SaveResult(w) /\ wk[w].j = i /\ wk[w].doc.status = "done"
  BY <1>1 DEF RowFrom
<1> QED BY <1>2, <1>3

\* What is said of bookkeeping that only grows.
LEMMA Grows ==
  ASSUME TypeOK, Next
  PROVE  won \subseteq won' /\ byHand \subseteq byHand'
BY DEF Next, Work, Schedule, CreateGroup, CreateMember, ParentDies, ClaimDueJob, RunByHand,
       ReadJob, RunJobRaises, SaveRunning, Execute, SaveResult, MarkFailed, CountDown, Fire,
       CreateFanIn, GroupErrorSwallowed, WorkerDies, BeginRetry, SaveRetried, count

\* The row of a group: created once, counted down, marked, fired; the flag stays.
GroupFrom(g) ==
  /\ par'[g] = "none" => par[g] = "none"
  /\ \/ grp'[g].remaining = grp[g].remaining
     \/ par[g] = "none"
     \/ \E w \in Worker : /\ CountDown(w) /\ GroupOf[wk[w].j] = g
                          /\ grp'[g].remaining = grp[g].remaining - 1
  /\ par[g] = "none" /\ par'[g] # "none" => grp'[g].remaining = Cardinality(Members(g))
  /\ grp[g].fired => grp'[g].fired
  /\ \/ made'[g] = made[g]
     \/ \E w \in Worker : CreateFanIn(w) /\ GroupOf[wk[w].j] = g /\ made'[g] = made[g] + 1

LEMMA GroupStep ==
  ASSUME TypeOK, Next, NEW g \in Group
  PROVE  GroupFrom(g)
<1> USE TypeOKNamed
<1>1. ASSUME NEW h \in Group, CreateGroup(h) PROVE GroupFrom(g)
  <2>1. par' = [par EXCEPT ![h] = "making"] /\ par[h] = "none" /\ made' = made
    BY <1>1 DEF CreateGroup
  <2>2. PICK n : n = Cardinality(Members(h)) OBVIOUS
  <2>3. grp' = [grp EXCEPT ![h].remaining = n] BY <1>1, <2>2 DEF CreateGroup
  <2>4. grp'[h].remaining = n /\ (g # h => grp'[g] = grp[g] /\ par'[g] = par[g])
    BY <2>1, <2>3
  <2>5. grp'[g].fired = grp[g].fired BY <2>3
  <2> QED BY <2>1, <2>2, <2>4, <2>5 DEF GroupFrom
<1>2. ASSUME NEW h \in Group, NEW j \in Job, CreateMember(h, j) PROVE GroupFrom(g)
  <2>1. grp' = grp /\ made' = made /\ par[h] = "making" BY <1>2 DEF CreateMember
  <2>2. PICK to : to = IF \E i \in Members(h) \ {j} : job[i].status = "none"
                       THEN "making" ELSE "ended"
    OBVIOUS
  <2>3. par' = [par EXCEPT ![h] = to] /\ to # "none" BY <1>2, <2>2 DEF CreateMember
  <2> QED BY <2>1, <2>3 DEF GroupFrom
<1>3. ASSUME NEW h \in Group, ParentDies(h) PROVE GroupFrom(g)
  BY <1>3 DEF ParentDies, GroupFrom
<1>4. ASSUME NEW w \in Worker, MarkFailed(w) PROVE GroupFrom(g)
  <2>1. grp' = [grp EXCEPT ![GroupOf[wk[w].j]].failed = TRUE] /\ made' = made /\ par' = par
    BY <1>4 DEF MarkFailed
  <2>2. grp'[g].remaining = grp[g].remaining /\ grp'[g].fired = grp[g].fired BY <2>1
  <2> QED BY <2>1, <2>2 DEF GroupFrom
<1>5. ASSUME NEW w \in Worker, CountDown(w) PROVE GroupFrom(g)
  <2>1. GroupOf[wk[w].j] \in Group BY <1>5, JobGroupsAssumption DEF CountDown, ThreadOK
  <2>2. PICK row : row = [grp[GroupOf[wk[w].j]] EXCEPT !.remaining = @ - 1] OBVIOUS
  <2>3. grp' = [grp EXCEPT ![GroupOf[wk[w].j]] = row] /\ made' = made /\ par' = par
    BY <1>5, <2>2 DEF CountDown
  <2>4. /\ row.remaining = grp[GroupOf[wk[w].j]].remaining - 1
        /\ row.fired = grp[GroupOf[wk[w].j]].fired
    BY <2>1, <2>2
  <2>5. CASE g = GroupOf[wk[w].j] BY <1>5, <2>1, <2>3, <2>4, <2>5 DEF GroupFrom
  <2>6. CASE g # GroupOf[wk[w].j] BY <2>3, <2>6 DEF GroupFrom
  <2> QED BY <2>5, <2>6
<1>6. ASSUME NEW w \in Worker, Fire(w) PROVE GroupFrom(g)
  <2>1. grp' = [grp EXCEPT ![GroupOf[wk[w].j]].fired = TRUE] /\ made' = made /\ par' = par
    BY <1>6 DEF Fire
  <2>2. grp'[g].remaining = grp[g].remaining /\ (grp[g].fired => grp'[g].fired) BY <2>1
  <2> QED BY <2>1, <2>2 DEF GroupFrom
<1>7. ASSUME NEW w \in Worker, CreateFanIn(w) PROVE GroupFrom(g)
  <2>1. GroupOf[wk[w].j] \in Group BY <1>7, JobGroupsAssumption DEF CreateFanIn, ThreadOK
  <2>2. PICK n : n = made[GroupOf[wk[w].j]] + 1 OBVIOUS
  <2>3. made' = [made EXCEPT ![GroupOf[wk[w].j]] = n] /\ grp' = grp /\ par' = par
    BY <1>7, <2>2 DEF CreateFanIn
  <2> QED BY <1>7, <2>1, <2>2, <2>3 DEF GroupFrom
<1>8. CASE grp' = grp /\ made' = made /\ par' = par BY <1>8 DEF GroupFrom
<1> QED BY <1>1, <1>2, <1>3, <1>4, <1>5, <1>6, <1>7, <1>8
        DEF Next, Work, Schedule, ClaimDueJob, RunByHand, ReadJob, RunJobRaises, SaveRunning,
            Execute, SaveResult, GroupErrorSwallowed, WorkerDies, BeginRetry, SaveRetried

\* Nothing happens in a group whose row does not exist.
LEMMA BegunStep ==
  ASSUME TypeOK, Alone, BegunOK, Next
  PROVE  BegunOK'
<1> USE TypeOKNamed
<1> SUFFICES ASSUME NEW g \in Group, par'[g] = "none"
             PROVE  /\ \A j \in Members(g) : job'[j].status = "none"
                    /\ \A w \in Worker : wk'[w].pc # "idle" => GroupOf[wk'[w].j] # g
                    /\ \A p \in Operator : op'[p].pc = "retrying" => GroupOf[op'[p].j] # g
                    /\ made'[g] = 0
  BY DEF BegunOK, Members
<1>1. /\ par[g] = "none" /\ made[g] = 0
      /\ \A j \in Members(g) : job[j].status = "none"
      /\ \A w \in Worker : wk[w].pc # "idle" => GroupOf[wk[w].j] # g
      /\ \A p \in Operator : op[p].pc = "retrying" => GroupOf[op[p].j] # g
  BY GroupStep DEF GroupFrom, BegunOK
<1>2. ASSUME NEW j \in Members(g) PROVE job'[j].status = "none"
  <2>1. j \in Job /\ GroupOf[j] = g BY DEF Members
  <2>2. RowFrom(j) BY <2>1, RowStep
  <2>3. \A w \in Worker : wk[w].j = j => wk[w].pc = "idle" BY <1>1, <2>1
  <2>4. \A p \in Operator : op[p].j = j => op[p].pc # "retrying" BY <1>1, <2>1
  <2> QED BY <1>1, <2>1, <2>2, <2>3, <2>4 DEF RowFrom, SaveResult, Running
<1>3. ASSUME NEW w \in Worker, wk'[w].pc # "idle" PROVE GroupOf[wk'[w].j] # g
  <2>1. \/ wk[w].pc # "idle" /\ wk'[w].j = wk[w].j
        \/ wk'[w].j \in Job /\ job[wk'[w].j].status # "none"
    BY <1>3, ThreadStep
  <2> QED BY <1>1, <2>1 DEF Members
<1>4. ASSUME NEW p \in Operator, op'[p].pc = "retrying" PROVE GroupOf[op'[p].j] # g
  <2>1. CASE op' = op BY <1>1, <1>4, <2>1
  <2>2. ASSUME NEW q \in Operator, SaveRetried(q) PROVE op'[p] = op[p]
    BY <1>4, <2>2 DEF SaveRetried, NoCommand
  <2>3. ASSUME NEW q \in Operator, NEW j \in Job, BeginRetry(q, j)
        PROVE  op'[p] = op[p] \/ (op'[p].j = j /\ job[j].status = "failed")
    <3>1. PICK c : c = [pc |-> "retrying", j |-> j, doc |-> job[j]] OBVIOUS
    <3>2. op' = [op EXCEPT ![q] = c] /\ c.j = j BY <2>3, <3>1 DEF BeginRetry
    <3>3. op'[p] = IF p = q THEN c ELSE op[p] BY <3>2
    <3> QED BY <2>3, <3>2, <3>3 DEF BeginRetry
  <2>4. \/ op' = op
        \/ \E q \in Operator : SaveRetried(q)
        \/ \E q \in Operator, j \in Job : BeginRetry(q, j)
    BY DEF Next, Work, Schedule, CreateGroup, CreateMember, ParentDies, ClaimDueJob, RunByHand,
           ReadJob, RunJobRaises, SaveRunning, Execute, SaveResult, MarkFailed, CountDown,
           Fire, CreateFanIn, GroupErrorSwallowed, WorkerDies
  <2>5. CASE op'[p] = op[p] BY <1>1, <1>4, <2>5
  <2>6. ASSUME NEW j \in Job, op'[p].j = j, job[j].status = "failed" PROVE GroupOf[op'[p].j] # g
    BY <1>1, <2>6 DEF Members
  <2> QED BY <2>1, <2>2, <2>3, <2>4, <2>5, <2>6
<1>5. made'[g] = 0
  <2>1. ASSUME NEW w \in Worker, CreateFanIn(w), GroupOf[wk[w].j] = g PROVE FALSE
    BY <1>1, <2>1 DEF CreateFanIn
  <2> QED BY <1>1, <2>1, GroupStep DEF GroupFrom
<1> QED BY <1>2, <1>3, <1>4, <1>5
-----------------------------------------------------------------------------
(* The last member is counted last. *)

LEMMA DoneStep ==
  ASSUME TypeOK, Alone, DoneOK, Next
  PROVE  DoneOK'
<1> USE TypeOKNamed
<1>1. ASSUME NEW i \in Job, job'[i].status = "done" PROVE i \in won'
  <2>1. ASSUME NEW w \in Worker, SaveResult(w), wk[w].j = i, wk[w].doc.status = "done"
        PROVE  i \in won
    BY <2>1 DEF DoneOK, SaveResult
  <2> QED BY <1>1, <2>1, DoneStays, Grows DEF DoneOK
<1>2. ASSUME NEW w \in Worker, wk'[w].pc = "ran", wk'[w].doc.status = "done"
      PROVE  wk'[w].j \in won'
  BY <1>2, ThreadStep, Grows DEF DoneOK
<1>3. ASSUME NEW w \in Worker, wk'[w].pc = "won", wk'[w].j \notin byHand'
      PROVE  job'[wk'[w].j].status = "done"
  <2>1. wk'[w].j = wk[w].j /\ wk[w].j \notin byHand BY <1>3, ThreadStep, Grows
  <2>2. CASE wk[w].pc = "won"
    <3>1. wk[w].j \in Job /\ job[wk[w].j].status = "done"
      BY <2>1, <2>2 DEF DoneOK, ThreadOK
    <3> QED BY <2>1, <3>1, DoneStays
  <2>3. CASE SaveResult(w) /\ wk[w].doc.status = "done"
    <3>1. wk[w].j \in Job /\ wk[w].doc \in Doc BY <2>3 DEF SaveResult, ThreadOK, Thread
    <3>2. job'[wk[w].j] = wk[w].doc BY <2>3, <3>1, WriteTyped DEF SaveResult
    <3> QED BY <2>1, <2>3, <3>2
  <2> QED BY <1>3, <2>2, <2>3, ThreadStep
<1>4. ASSUME NEW v \in Worker, NEW w \in Worker, v # w, wk'[v].pc = "won", wk'[w].pc = "won",
             wk'[v].j = wk'[w].j, wk'[v].j \notin byHand'
      PROVE  FALSE
  <2>1. /\ wk'[v].j = wk[v].j /\ wk'[w].j = wk[w].j /\ wk[v].j \notin byHand
        /\ wk[v].pc = "won" \/ SaveResult(v)
        /\ wk[w].pc = "won" \/ SaveResult(w)
    BY <1>4, ThreadStep, Grows
  <2>2. CASE wk[v].pc = "won" /\ wk[w].pc = "won" BY <1>4, <2>1, <2>2 DEF DoneOK
  <2>3. CASE wk[v].pc = "won" /\ SaveResult(w)
    <3>1. job[wk[v].j].status = "done" BY <2>1, <2>3 DEF DoneOK
    <3> QED BY <1>4, <2>1, <2>3, <3>1 DEF Alone, SaveResult, Running, Held
  <2>4. CASE SaveResult(v) /\ wk[w].pc = "won"
    <3>1. job[wk[w].j].status = "done" BY <1>4, <2>1, <2>4 DEF DoneOK
    <3> QED BY <1>4, <2>1, <2>4, <3>1 DEF Alone, SaveResult, Running, Held
  <2>5. CASE SaveResult(v) /\ SaveResult(w)
    BY <1>4, <2>1, <2>5 DEF Alone, JobRunsAlone, SaveResult
  <2> QED BY <2>1, <2>2, <2>3, <2>4, <2>5
<1> QED BY <1>1, <1>2, <1>3, <1>4 DEF DoneOK

LEMMA OutFinite ==
  ASSUME NEW g \in Group
  PROVE  /\ IsFiniteSet(Members(g)) /\ IsFiniteSet(Out(g))
         /\ Cardinality(Members(g)) \in Nat /\ Cardinality(Out(g)) \in Nat
<1>1. Members(g) \in SUBSET Job /\ Out(g) \in SUBSET Members(g) BY DEF Members, Out
<1>2. IsFiniteSet(Members(g)) BY <1>1, FS_Subset, JobGroupsAssumption
<1>3. IsFiniteSet(Out(g)) BY <1>1, <1>2, FS_Subset
<1> QED BY <1>2, <1>3, FS_CardinalityType

\* A member done and counted stays so, unless operators run members by hand.
LEMMA OutGrows ==
  ASSUME TypeOK, Alone, Next, NEW g \in Group, Members(g) \cap byHand = {}
  PROVE  Out(g) \subseteq Out(g)'
<1> SUFFICES ASSUME NEW j \in Out(g) PROVE j \in Out(g)' OBVIOUS
<1>1. /\ j \in Members(g) /\ j \in Job /\ j \notin byHand /\ job[j].status = "done"
      /\ \A w \in Worker : wk[w].pc = "won" => wk[w].j # j
  BY DEF Out, Members
<1>2. job'[j].status = "done" BY <1>1, DoneStays
<1>3. ASSUME NEW w \in Worker, wk'[w].pc = "won", wk'[w].j = j PROVE FALSE
  <2>1. SaveResult(w) /\ wk[w].j = j BY <1>1, <1>3, ThreadStep
  <2> QED BY <1>1, <2>1 DEF Alone, SaveResult, Running, Held
<1> QED BY <1>1, <1>2, <1>3 DEF Out, Members

\* Each count adds a member of its own.
LEMMA OutCounts ==
  ASSUME TypeOK, Alone, DoneOK, Next, NEW w \in Worker, CountDown(w),
         NEW j \in Job, wk[w].j = j, NEW g \in Group, GroupOf[j] = g, Members(g) \cap byHand = {}
  PROVE  j \notin Out(g) /\ j \in Out(g)'
<1>1. wk[w].pc = "won" /\ j \in Members(g) /\ j \notin byHand BY DEF CountDown, Members
<1>2. j \notin Out(g) BY <1>1 DEF Out
<1>3. job' = job /\ job[j].status = "done" BY <1>1 DEF CountDown, DoneOK
<1>4. ASSUME NEW v \in Worker, wk'[v].pc = "won", wk'[v].j = j PROVE FALSE
  <2>1. PICK s \in Thread : Goes(w, s) /\ ThreadOK(s) /\ s.pc \in {"idle", "firing"}
    BY CountDownGoes
  <2>2. v # w /\ wk'[v] = wk[v] BY <1>4, <2>1, TypeOKNamed, GoesTyped
  <2> QED BY <1>1, <1>4, <2>2 DEF DoneOK
<1> QED BY <1>1, <1>2, <1>3, <1>4 DEF Out, Members

LEMMA CountStep ==
  ASSUME TypeOK, Alone, DoneOK, BegunOK, CountOK, Next
  PROVE  CountOK'
<1> USE TypeOKNamed
<1> SUFFICES ASSUME NEW g \in Group, par'[g] # "none", Members(g) \cap byHand' = {}
             PROVE  Cardinality(Members(g)) - grp'[g].remaining <= Cardinality(Out(g)')
  BY DEF CountOK, Members
<1>1. Members(g) \cap byHand = {} BY Grows
<1>2. TypeOK' BY TypeStep
<1>3. grp[g].remaining \in Int /\ grp'[g].remaining \in Int BY <1>2 DEF TypeOK
<1>4. IsFiniteSet(Out(g)') /\ Cardinality(Out(g)') \in Nat
  <2>1. Out(g)' \in SUBSET Members(g) BY DEF Out, Members
  <2> QED BY <2>1, OutFinite, FS_Subset, FS_CardinalityType
<1>5. /\ IsFiniteSet(Out(g)) /\ Cardinality(Members(g)) \in Nat /\ Cardinality(Out(g)) \in Nat
      /\ Out(g) \in SUBSET Out(g)'
  BY <1>1, OutFinite, OutGrows
<1>6. CASE par[g] = "none"
  <2>1. grp'[g].remaining = Cardinality(Members(g)) BY <1>6, GroupStep DEF GroupFrom
  <2> QED BY <1>4, <1>5, <2>1
<1>7. CASE par[g] # "none" /\ grp'[g].remaining = grp[g].remaining
  <2>1. Cardinality(Out(g)) <= Cardinality(Out(g)') BY <1>4, <1>5, FS_Subset
  <2>2. Cardinality(Members(g)) - grp[g].remaining <= Cardinality(Out(g))
    BY <1>1, <1>7 DEF CountOK
  <2> QED BY <1>3, <1>4, <1>5, <1>7, <2>1, <2>2
<1>8. ASSUME par[g] # "none", NEW w \in Worker, CountDown(w), GroupOf[wk[w].j] = g,
             grp'[g].remaining = grp[g].remaining - 1
      PROVE  Cardinality(Members(g)) - grp'[g].remaining <= Cardinality(Out(g)')
  <2>1. PICK j \in Job : wk[w].j = j BY <1>8 DEF CountDown, ThreadOK
  <2>2. j \notin Out(g) /\ j \in Out(g)' BY <1>1, <1>8, <2>1, OutCounts
  <2>3. PICK more : more = Out(g) \cup {j} OBVIOUS
  <2>4. Cardinality(more) = Cardinality(Out(g)) + 1 BY <1>5, <2>2, <2>3, FS_AddElement
  <2>5. more \in SUBSET Out(g)' BY <1>5, <2>2, <2>3
  <2>6. Cardinality(more) <= Cardinality(Out(g)') BY <1>4, <2>5, FS_Subset
  <2>7. Cardinality(Members(g)) - grp[g].remaining <= Cardinality(Out(g))
    BY <1>1, <1>8 DEF CountOK
  <2> QED BY <1>3, <1>4, <1>5, <1>8, <2>4, <2>6, <2>7
<1> QED BY <1>6, <1>7, <1>8, GroupStep DEF GroupFrom

\* Once below zero a count stays there, and the flag lets one thread through.
LEMMA FiredStep ==
  ASSUME TypeOK, BegunOK, FiredOK, Next
  PROVE  FiredOK'
<1> USE TypeOKNamed
<1> DEFINE G(w) == GroupOf[wk[w].j]
<1>0. \A w \in Worker : wk[w].pc # "idle" => wk[w].j \in Job /\ G(w) \in Group /\ par[G(w)] # "none"
  BY JobGroupsAssumption DEF ThreadOK, BegunOK
<1>1. ASSUME NEW g \in Group, par[g] # "none"
      PROVE  grp[g].remaining <= 0 => grp'[g].remaining <= 0
  <2>1. grp[g].remaining \in Int OBVIOUS
  <2> QED BY <1>1, <2>1, GroupStep DEF GroupFrom
<1>2. ASSUME NEW w \in Worker, CountDown(w), grp[G(w)].remaining - 1 <= 0
      PROVE  grp'[G(w)].remaining <= 0
  <2>1. PICK row : row = [grp[G(w)] EXCEPT !.remaining = @ - 1] OBVIOUS
  <2>2. G(w) \in Group BY <1>0, <1>2 DEF CountDown
  <2>3. grp' = [grp EXCEPT ![G(w)] = row] BY <1>2, <2>1 DEF CountDown
  <2>4. row.remaining = grp[G(w)].remaining - 1 BY <2>1, <2>2
  <2> QED BY <1>2, <2>2, <2>3, <2>4
<1>3. ASSUME NEW w \in Worker, wk'[w].pc \in {"firing", "fired"}
      PROVE  grp'[GroupOf[wk'[w].j]].remaining <= 0
  <2>1. wk'[w].j = wk[w].j BY <1>3, ThreadStep
  <2>2. CASE wk[w].pc \in {"firing", "fired"}
    BY <1>0, <1>1, <2>1, <2>2 DEF FiredOK
  <2>3. CASE CountDown(w) /\ grp[G(w)].remaining - 1 <= 0 BY <1>2, <2>1, <2>3
  <2>4. CASE Fire(w) BY <2>2, <2>4 DEF Fire
  <2> QED BY <1>3, <2>2, <2>3, <2>4, ThreadStep
<1>4. ASSUME NEW w \in Worker, Fire(w), ~grp[G(w)].fired
      PROVE  grp'[G(w)].fired /\ made[G(w)] = 0 /\ made' = made
  <2>1. G(w) \in Group BY <1>0, <1>4 DEF Fire
  <2>2. grp' = [grp EXCEPT ![G(w)].fired = TRUE] /\ made' = made BY <1>4 DEF Fire
  <2>3. grp'[G(w)].fired BY <2>1, <2>2
  <2> QED BY <1>4, <2>1, <2>2, <2>3 DEF FiredOK
<1>5. ASSUME NEW w \in Worker, CreateFanIn(w)
      PROVE  /\ wk[w].pc = "fired" /\ wk'[w].pc = "idle" /\ made[G(w)] = 0
             /\ grp[G(w)].fired /\ grp[G(w)].remaining <= 0
  <2>1. wk'[w] = Free BY <1>5, FreeTyped, GoesTyped DEF CreateFanIn
  <2> QED BY <1>5, <2>1, FreeTyped DEF CreateFanIn, FiredOK
<1>6. ASSUME NEW w \in Worker, wk'[w].pc = "fired"
      PROVE  grp'[GroupOf[wk'[w].j]].fired /\ made'[GroupOf[wk'[w].j]] = 0
  <2>1. wk'[w].j = wk[w].j BY <1>6, ThreadStep
  <2>2. CASE wk[w].pc = "fired"
    <3>1. G(w) \in Group /\ grp[G(w)].fired /\ made[G(w)] = 0 BY <1>0, <2>2 DEF FiredOK
    <3>2. grp'[G(w)].fired BY <3>1, GroupStep DEF GroupFrom
    <3>3. ASSUME NEW v \in Worker, CreateFanIn(v), G(v) = G(w) PROVE FALSE
      <4>1. wk[v].pc = "fired" /\ wk'[v].pc = "idle" BY <1>5, <3>3
      <4>2. v # w BY <1>6, <4>1
      <4> QED BY <2>2, <3>3, <4>1, <4>2 DEF FiredOK
    <3>4. made'[G(w)] = 0 BY <3>1, <3>3, GroupStep DEF GroupFrom
    <3> QED BY <2>1, <3>2, <3>4
  <2>3. CASE Fire(w) /\ ~grp[G(w)].fired
    <3>1. grp'[G(w)].fired /\ made[G(w)] = 0 /\ made' = made BY <1>4, <2>3
    <3> QED BY <2>1, <3>1
  <2> QED BY <1>6, <2>2, <2>3, ThreadStep
<1>7. ASSUME NEW v \in Worker, NEW w \in Worker, v # w, wk'[v].pc = "fired", wk'[w].pc = "fired"
      PROVE  GroupOf[wk'[v].j] # GroupOf[wk'[w].j]
  <2>1. /\ wk'[v].j = wk[v].j /\ wk'[w].j = wk[w].j
        /\ \/ wk[v].pc = "fired"
           \/ Fire(v) /\ ~grp[G(v)].fired
        /\ \/ wk[w].pc = "fired"
           \/ Fire(w) /\ ~grp[G(w)].fired
    BY <1>7, ThreadStep
  <2>2. CASE wk[v].pc = "fired" /\ wk[w].pc = "fired" BY <1>7, <2>1, <2>2 DEF FiredOK
  <2>3. CASE wk[v].pc = "fired" /\ ~grp[G(w)].fired BY <2>1, <2>3 DEF FiredOK
  <2>4. CASE wk[w].pc = "fired" /\ ~grp[G(v)].fired BY <2>1, <2>4 DEF FiredOK
  <2>5. CASE Fire(v) /\ Fire(w)
    <3>1. PICK s \in Thread : Goes(v, s) /\ ThreadOK(s) BY <2>5, FireGoes
    <3>2. wk'[w] = wk[w] BY <1>7, <3>1, GoesTyped
    <3> QED BY <1>7, <2>5, <3>2 DEF Fire
  <2> QED BY <2>1, <2>2, <2>3, <2>4, <2>5
<1>8. ASSUME NEW g \in Group, made'[g] # 0
      PROVE  made'[g] = 1 /\ grp'[g].fired /\ grp'[g].remaining <= 0
  <2>1. CASE made'[g] = made[g]
    <3>1. made[g] = 1 /\ grp[g].fired /\ grp[g].remaining <= 0 /\ par[g] # "none"
      BY <1>8, <2>1 DEF FiredOK, BegunOK
    <3> QED BY <1>1, <2>1, <3>1, GroupStep DEF GroupFrom
  <2>2. ASSUME NEW w \in Worker, CreateFanIn(w), G(w) = g, made'[g] = made[g] + 1
        PROVE  made'[g] = 1 /\ grp'[g].fired /\ grp'[g].remaining <= 0
    <3>1. made[g] = 0 /\ grp[g].fired /\ grp[g].remaining <= 0 BY <1>5, <2>2
    <3>2. grp' = grp BY <2>2 DEF CreateFanIn
    <3> QED BY <2>2, <3>1, <3>2
  <2> QED BY <2>1, <2>2, GroupStep DEF GroupFrom
<1> QED BY <1>3, <1>6, <1>7, <1>8 DEF FiredOK

LEMMA GroupsInit == Init => DoneOK /\ BegunOK /\ CountOK /\ FiredOK
BY FreeTyped DEF Init, DoneOK, BegunOK, CountOK, FiredOK, Members, NoDoc, NoCommand

\* The job a group ends in is created once at most, and only when every member has
\* succeeded, in any order of any number of workers (store_postgres.py group_job_done), as
\* long as no operator runs a member by hand and no two commands of operators overlap.
THEOREM FansInOnceAllSucceeded == OneOperator /\ Spec => []FiresOnceAllSucceeded
<1> SUFFICES ASSUME OneOperator PROVE Spec => []FiresOnceAllSucceeded OBVIOUS
<1>1. Init => IInv BY TypeInit, AloneInit, GroupsInit DEF IInv
<1>2. IInv /\ [Next]_vars => IInv'
  <2>1. CASE UNCHANGED vars
    BY <2>1 DEF IInv, vars, count, TypeOK, Alone, JobRunsAlone, DoneOK, BegunOK, CountOK,
                FiredOK, Out, Members
  <2>2. ASSUME IInv, Next PROVE IInv'
    BY <2>2, TypeStep, AloneStep, DoneStep, BegunStep, CountStep, FiredStep DEF IInv
  <2> QED BY <2>1, <2>2
<1>3. IInv => FiresOnceAllSucceeded
  <2> SUFFICES ASSUME IInv, NEW g \in Group
               PROVE  /\ made[g] <= 1
                      /\ made[g] = 1 /\ Members(g) \cap byHand = {} => Members(g) \subseteq won
    BY DEF FiresOnceAllSucceeded
  <2>1. made[g] <= 1 BY TypeOKNamed DEF IInv, FiredOK
  <2>2. ASSUME made[g] = 1, Members(g) \cap byHand = {} PROVE Members(g) \subseteq won
    <3>1. grp[g].remaining <= 0 /\ par[g] # "none" BY <2>2 DEF IInv, FiredOK, BegunOK
    <3>2. Cardinality(Members(g)) - grp[g].remaining <= Cardinality(Out(g))
      BY <2>2, <3>1 DEF IInv, CountOK
    <3>3. /\ IsFiniteSet(Members(g)) /\ Cardinality(Members(g)) \in Nat
          /\ Cardinality(Out(g)) \in Nat
      BY OutFinite
    <3>4. Out(g) \in SUBSET Members(g) BY DEF Out
    <3>5. Cardinality(Out(g)) <= Cardinality(Members(g)) BY <3>3, <3>4, FS_Subset
    <3>6. grp[g].remaining \in Int BY TypeOKNamed DEF IInv
    <3>7. Cardinality(Out(g)) = Cardinality(Members(g)) BY <3>1, <3>2, <3>3, <3>5, <3>6
    <3>8. Out(g) = Members(g) BY <3>3, <3>4, <3>7, FS_Subset
    <3> QED BY <3>8 DEF IInv, DoneOK, Out, Members
  <2> QED BY <2>1, <2>2
<1> QED BY <1>1, <1>2, <1>3, PTL DEF Spec
=============================================================================
