-------------------------- MODULE OperatorProofs --------------------------
(***************************************************************************)
(* Proofs about what operators write and requests read in between.         *)
(*                                                                         *)
(* Rollout, for any versions, environments, clients and runs: every        *)
(* request acts on what it checked some steps ago.  The invariants say     *)
(* what is still true of a check when its request writes: what was         *)
(* vouched for stays so, and a version somebody is about to point at, or   *)
(* to pin a run to, is not retired without being excused.                  *)
(*                                                                         *)
(* Governance, for any agents, tools, sites, policies and api processes:   *)
(* a governing policy that allows a site has been noticed, the key a       *)
(* request holds governed when it was read, and each version of a guard    *)
(* is told to the trail or owed to it, exactly once.                       *)
(*                                                                         *)
(* TenantKeys, for any api processes, operators, owners, connections and   *)
(* materials.  Three invariants: what a process knows of the key file it   *)
(* will write over (FileInv), whose connection it is that a process has    *)
(* found (OwnerInv), and how far a re-seal has come (ReachInv).            *)
(***************************************************************************)
EXTENDS Rollout, Governance, TenantKeys,
        FiniteSetTheorems, FunctionTheorems, WellFoundedInduction, TLAPS

EnvDoc == [current: Version \cup {NoVersion}, history: Seq(Version)]

Request == [pc: {"idle", "checked", "flipping", "unpointed", "unpinned", "resolved"},
            v: Version \cup {NoVersion}, e: Env \cup {NoVersion},
            forced: BOOLEAN, vouch: BOOLEAN, raced: BOOLEAN, doc: EnvDoc]

\* A request under way knows its version and, if it is about one, its environment.
RequestOK(r) ==
  /\ r.pc # "idle" => r.v \in Version
  /\ r.pc \in {"checked", "flipping", "resolved"} => r.e \in Env
  /\ r.vouch => r.e \in Env /\ r.v \in Version

Typed == TypeOK /\ \A c \in Client : RequestOK(req[c])

\* Everything a pointer of e holds or could be rolled back to is vouched for.
DocVouched(e, doc) ==
  /\ doc.current # NoVersion => <<e, doc.current>> \in vouched
  /\ \A i \in DOMAIN doc.history : <<e, doc.history[i]>> \in vouched

RequestVouched(r) ==
  /\ r.pc \in {"checked", "flipping"} => <<r.e, r.v>> \in vouched
  /\ r.pc = "flipping" => DocVouched(r.e, r.doc)

AllVouched ==
  /\ \A e \in Env : DocVouched(e, env[e])
  /\ \A c \in Client : RequestVouched(req[c])

\* Two states of a request that say the same of what it is about.
SameRequest(r, s) == r.pc = s.pc /\ r.v = s.v /\ r.e = s.e /\ r.doc = s.doc

\* A version retired without excuse is wanted by nobody, and one that is about to be
\* is not, as long as no other request about it gets in between.
Wanting == {"checked", "flipping", "resolved"}
Unwanted(v) == \A c \in Client : req[c].v = v => req[c].pc \notin Wanting
Unpointed(v) == \A e \in Env : env[e].current # v
Unpinned(v) == \A r \in Run : Live(r) => run[r].v # v

Retired(v) == ver[v] = "retired" /\ v \notin excused

RetiringOK(r) ==
  ~r.raced /\ ~r.forced =>
    /\ r.pc \in Retiring => Unpointed(r.v)
    /\ r.pc = "unpinned" => Unpinned(r.v)

RetiredOK ==
  /\ \A v \in Version : Retired(v) => Unwanted(v) /\ Unpointed(v) /\ Unpinned(v)
  /\ \A c \in Client : RetiringOK(req[c])

\* Where the last change of a pointer was not a stale one, its history knows.
UndoOK ==
  \A e \in Env : undo[e] # NoVersion => env[e].history # <<>> /\ Last(env[e].history) = undo[e]

IInv == Typed /\ AllVouched /\ RetiredOK /\ UndoOK
-----------------------------------------------------------------------------
(* Types. *)

LEMMA IdleTyped == Idle \in Request /\ RequestOK(Idle) /\ ~Idle.vouch
<1>1. <<>> \in Seq(Version) OBVIOUS
<1> QED BY <1>1 DEF Idle, Request, RequestOK, EnvDoc

\* What a request goes on with keeps the requests typed.
LEMMA GoesTyped ==
  ASSUME req \in [Client -> Request], \A c \in Client : RequestOK(req[c]),
         NEW c \in Client, NEW r \in Request, RequestOK(r), Goes(c, r)
  PROVE  req' \in [Client -> Request] /\ \A d \in Client : RequestOK(req'[d])
<1>1. req' = [req EXCEPT ![c] = r] BY DEF Goes
<1>2. req' \in [Client -> Request] BY <1>1
<1>3. ASSUME NEW d \in Client PROVE RequestOK(req'[d])
  <2>1. req'[d] = IF d = c THEN r ELSE req[d] BY <1>1
  <2> QED BY <2>1
<1> QED BY <1>2, <1>3

LEMMA RacedTyped ==
  ASSUME req \in [Client -> Request], \A c \in Client : RequestOK(req[c]), NEW v
  PROVE  /\ Raced(v) \in [Client -> Request]
         /\ \A d \in Client : RequestOK(Raced(v)[d])
         /\ \A d \in Client :
              /\ Raced(v)[d] = [req[d] EXCEPT !.raced = Raced(v)[d].raced]
              /\ req[d].raced => Raced(v)[d].raced
              /\ req[d].pc \in Retiring /\ req[d].v = v => Raced(v)[d].raced
<1>1. ASSUME NEW d \in Client
      PROVE  /\ Raced(v)[d] \in Request /\ RequestOK(Raced(v)[d])
             /\ Raced(v)[d] = [req[d] EXCEPT !.raced = Raced(v)[d].raced]
             /\ req[d].raced => Raced(v)[d].raced
             /\ req[d].pc \in Retiring /\ req[d].v = v => Raced(v)[d].raced
  <2>1. req[d] \in Request /\ RequestOK(req[d]) OBVIOUS
  <2>2. Raced(v)[d] = IF req[d].pc \in Retiring /\ req[d].v = v
                      THEN [req[d] EXCEPT !.raced = TRUE] ELSE req[d]
    BY DEF Raced
  <2>3. CASE req[d].pc \in Retiring /\ req[d].v = v BY <2>1, <2>2, <2>3 DEF Request, RequestOK
  <2>4. CASE ~(req[d].pc \in Retiring /\ req[d].v = v) BY <2>1, <2>2, <2>4 DEF Request, RequestOK
  <2> QED BY <2>3, <2>4
<1>2. Raced(v) = [d \in Client |-> Raced(v)[d]] BY DEF Raced
<1> QED BY <1>1, <1>2

LEMMA PushedTyped ==
  ASSUME NEW doc \in EnvDoc, NEW v \in Version
  PROVE  /\ Pushed(doc, v) \in EnvDoc /\ Pushed(doc, v).current = v
         /\ doc.current # NoVersion =>
              Pushed(doc, v).history = Append(doc.history, doc.current)
         /\ doc.current = NoVersion => Pushed(doc, v).history = doc.history
<1>1. CASE doc.current = NoVersion BY <1>1 DEF Pushed, EnvDoc
<1>2. CASE doc.current # NoVersion
  <2>1. doc.current \in Version BY <1>2 DEF EnvDoc
  <2>2. Append(doc.history, doc.current) \in Seq(Version) BY <2>1 DEF EnvDoc
  <2> QED BY <1>2, <2>2 DEF Pushed, EnvDoc
<1> QED BY <1>1, <1>2

\* A fresh request and one that goes on.
LEMMA FreshTyped ==
  ASSUME NEW pc \in {"checked", "unpointed", "unpinned", "resolved"}, NEW v \in Version,
         NEW e \in Env, NEW b \in BOOLEAN
  PROVE  LET r == [Idle EXCEPT !.pc = pc, !.v = v, !.e = e]
             s == [Idle EXCEPT !.pc = pc, !.vouch = TRUE, !.v = v, !.e = e]
         IN r \in Request /\ RequestOK(r) /\ s \in Request /\ RequestOK(s)
BY IdleTyped DEF Idle, Request, RequestOK

LEMMA RetireTyped ==
  ASSUME NEW v \in Version
  PROVE  LET r == [Idle EXCEPT !.pc = "unpointed", !.v = v]
             s == [Idle EXCEPT !.pc = "unpinned", !.v = v, !.forced = TRUE]
         IN r \in Request /\ RequestOK(r) /\ s \in Request /\ RequestOK(s)
BY IdleTyped DEF Idle, Request, RequestOK

\* The requests stay typed, and so do the rows they write.
LEMMA RequestsTyped ==
  ASSUME Typed, Step
  PROVE  req' \in [Client -> Request] /\ \A c \in Client : RequestOK(req'[c])
<1> USE DEF Typed, TypeOK
<1>0. req \in [Client -> Request] /\ \A c \in Client : RequestOK(req[c]) BY DEF Request, EnvDoc
<1>1. CASE UNCHANGED req BY <1>0, <1>1
<1>2. ASSUME NEW c \in Client, NEW e \in Env, NEW v \in Version,
             Promote(c, e, v) \/ ForcePromote(c, e, v) \/ RollbackTo(c, e, v)
      PROVE  req' \in [Client -> Request] /\ \A d \in Client : RequestOK(req'[d])
  <2>1. Goes(c, [Idle EXCEPT !.pc = "checked", !.v = v, !.e = e])
        \/ Goes(c, [Idle EXCEPT !.pc = "checked", !.vouch = TRUE, !.v = v, !.e = e])
    BY <1>2 DEF Promote, ForcePromote, RollbackTo
  <2> QED BY <1>0, <2>1, FreshTyped, GoesTyped
<1>3. ASSUME NEW c \in Client, NEW e \in Env, Rollback(c, e) \/ ResolveRun(c, e)
      PROVE  req' \in [Client -> Request] /\ \A d \in Client : RequestOK(req'[d])
  <2>1. CASE Rollback(c, e)
    <3>1. env[e].history \in Seq(Version) /\ env[e].history # <<>> BY <2>1 DEF Rollback
    <3>2. Last(env[e].history) \in Version BY <3>1 DEF Last
    <3>3. Goes(c, [Idle EXCEPT !.pc = "checked", !.v = Last(env[e].history), !.e = e])
      BY <2>1 DEF Rollback
    <3> QED BY <1>0, <3>2, <3>3, FreshTyped, GoesTyped
  <2>2. CASE ResolveRun(c, e)
    <3>1. env[e].current \in Version BY <2>2 DEF ResolveRun
    <3>2. Goes(c, [Idle EXCEPT !.pc = "resolved", !.v = env[e].current, !.e = e])
      BY <2>2 DEF ResolveRun
    <3> QED BY <1>0, <3>1, <3>2, FreshTyped, GoesTyped
  <2> QED BY <1>3, <2>1, <2>2
<1>4. ASSUME NEW c \in Client, NEW v \in Version, BeginRetire(c, v) \/ ForceRetire(c, v)
      PROVE  req' \in [Client -> Request] /\ \A d \in Client : RequestOK(req'[d])
  <2>1. Goes(c, [Idle EXCEPT !.pc = "unpointed", !.v = v])
        \/ Goes(c, [Idle EXCEPT !.pc = "unpinned", !.v = v, !.forced = TRUE])
    BY <1>4 DEF BeginRetire, ForceRetire
  <2> QED BY <1>0, <2>1, RetireTyped, GoesTyped
<1>5. ASSUME NEW c \in Client, ReadEnv(c) \/ CheckPins(c)
      PROVE  req' \in [Client -> Request] /\ \A d \in Client : RequestOK(req'[d])
  <2>1. req[c] \in Request /\ RequestOK(req[c]) BY <1>0
  <2>2. CASE ReadEnv(c)
    <3>1. req[c].e \in Env /\ req[c].pc = "checked" BY <2>1, <2>2 DEF ReadEnv, RequestOK
    <3>2. env[req[c].e] \in EnvDoc BY <3>1 DEF EnvDoc
    <3> DEFINE s == [req[c] EXCEPT !.pc = "flipping", !.doc = env[req[c].e]]
    <3>3. s \in Request /\ RequestOK(s) BY <2>1, <3>1, <3>2 DEF Request, RequestOK
    <3>4. Goes(c, s) BY <2>2 DEF ReadEnv
    <3> QED BY <1>0, <3>3, <3>4, GoesTyped
  <2>3. CASE CheckPins(c)
    <3> DEFINE s == [req[c] EXCEPT !.pc = "unpinned"]
    <3>1. req[c].pc = "unpointed" BY <2>3 DEF CheckPins
    <3>2. s \in Request /\ RequestOK(s) BY <2>1, <3>1 DEF Request, RequestOK
    <3>3. Goes(c, s) \/ Goes(c, Idle) BY <2>3 DEF CheckPins
    <3> QED BY <1>0, <3>2, <3>3, GoesTyped, IdleTyped
  <2> QED BY <1>5, <2>2, <2>3
<1>6. ASSUME NEW c \in Client, Goes(c, Idle)
      PROVE  req' \in [Client -> Request] /\ \A d \in Client : RequestOK(req'[d])
  BY <1>0, <1>6, GoesTyped, IdleTyped
<1>7. ASSUME NEW c \in Client, NEW v, req' = [Raced(v) EXCEPT ![c] = Idle]
      PROVE  req' \in [Client -> Request] /\ \A d \in Client : RequestOK(req'[d])
  <2>1. Raced(v) \in [Client -> Request] /\ \A d \in Client : RequestOK(Raced(v)[d])
    BY <1>0, RacedTyped
  <2>2. req' \in [Client -> Request] BY <2>1, <1>7, IdleTyped
  <2>3. ASSUME NEW d \in Client PROVE RequestOK(req'[d])
    <3>1. req'[d] = IF d = c THEN Idle ELSE Raced(v)[d] BY <2>1, <1>7
    <3> QED BY <2>1, <3>1, IdleTyped
  <2> QED BY <2>2, <2>3
<1> HIDE DEF Typed, TypeOK
<1>8. ASSUME NEW c \in Client, FlipEnv(c)
      PROVE  req' \in [Client -> Request] /\ \A d \in Client : RequestOK(req'[d])
  BY <1>7, <1>8 DEF FlipEnv
<1>9. ASSUME NEW c \in Client, NEW r \in Run, SaveRun(c, r)
      PROVE  req' \in [Client -> Request] /\ \A d \in Client : RequestOK(req'[d])
  BY <1>7, <1>9 DEF SaveRun
<1>10. ASSUME NEW c \in Client, SetRetired(c) \/ Abandon(c)
       PROVE  req' \in [Client -> Request] /\ \A d \in Client : RequestOK(req'[d])
  BY <1>6, <1>10 DEF SetRetired, Abandon
<1>11. ASSUME \/ \E v \in Version : CreateVersion(v) \/ WorkerBoots(v) \/ WorkerLeaves(v)
              \/ \E v \in Version, k \in Kind, ok \in BOOLEAN : Attest(v, k, ok)
              \/ \E p \in {NoPolicy} \cup [Env -> SUBSET Kind] : SetGate(p)
              \/ \E r \in Run : Execute(r) \/ Pause(r) \/ Answer(r)
       PROVE  UNCHANGED req
  BY <1>11 DEF CreateVersion, WorkerBoots, WorkerLeaves, Attest, SetGate, Execute, Pause, Answer,
               RunGoes
<1> QED BY <1>1, <1>2, <1>3, <1>4, <1>5, <1>8, <1>9, <1>10, <1>11 DEF Step

LEMMA InitTyped == Init => Typed
<1> SUFFICES ASSUME Init PROVE Typed OBVIOUS
<1> USE DEF Init
<1>1. EmptyEnv \in EnvDoc /\ NoRun \in [status: {"none", "queued", "running", "waiting", "done"},
                                        v: Version \cup {NoVersion}]
  <2>1. <<>> \in Seq(Version) OBVIOUS
  <2> QED BY <2>1 DEF EmptyEnv, NoRun, EnvDoc
<1>2. env \in [Env -> EnvDoc] BY <1>1
<1>3. req \in [Client -> Request] /\ \A c \in Client : RequestOK(req[c]) BY IdleTyped
<1>4. TypeOK BY <1>1, <1>2, <1>3 DEF TypeOK, EnvDoc, Request
<1> QED BY <1>3, <1>4 DEF Typed

\* One action at a time; what a flip writes is the document its request read.
LEMMA RowsTyped ==
  ASSUME Typed, Step, RolloutAssumption
  PROVE  /\ ver' \in [Version -> {"none", "active", "retired"}]
         /\ passing' \in [Version -> SUBSET Kind]
         /\ own' \in {NoPolicy} \cup [Env -> SUBSET Kind]
         /\ env' \in [Env -> EnvDoc]
         /\ run' \in [Run -> [status: {"none", "queued", "running", "waiting", "done"},
                              v: Version \cup {NoVersion}]]
         /\ up' \subseteq Version
         /\ undo' \in [Env -> Version \cup {NoVersion}]
         /\ excused' \subseteq Version /\ edits' \in Nat
<1> DEFINE Rows ==
       /\ ver \in [Version -> {"none", "active", "retired"}]
       /\ passing \in [Version -> SUBSET Kind]
       /\ own \in {NoPolicy} \cup [Env -> SUBSET Kind]
       /\ env \in [Env -> EnvDoc]
       /\ run \in [Run -> [status: {"none", "queued", "running", "waiting", "done"},
                           v: Version \cup {NoVersion}]]
       /\ up \subseteq Version
       /\ undo \in [Env -> Version \cup {NoVersion}]
       /\ excused \subseteq Version /\ edits \in Nat
<1>1. Rows /\ req \in [Client -> Request] /\ \A c \in Client : RequestOK(req[c])
  BY DEF Typed, TypeOK, EnvDoc, Request
<1>2. ASSUME NEW v \in Version,
             \/ CreateVersion(v) \/ WorkerBoots(v) \/ WorkerLeaves(v)
             \/ \E k \in Kind, ok \in BOOLEAN : Attest(v, k, ok)
      PROVE  Rows'
  BY <1>1, <1>2 DEF CreateVersion, WorkerBoots, WorkerLeaves, Attest, Edit, watch
<1>3. ASSUME NEW p \in {NoPolicy} \cup [Env -> SUBSET Kind], SetGate(p) PROVE Rows'
  BY <1>1, <1>3 DEF SetGate, Edit, watch
<1>4. ASSUME NEW c \in Client, NEW e \in Env, NEW v \in Version,
             \/ Promote(c, e, v) \/ ForcePromote(c, e, v) \/ RollbackTo(c, e, v)
             \/ Rollback(c, e) \/ ResolveRun(c, e)
      PROVE  Rows'
  <2>1. CASE Promote(c, e, v) BY <1>1, <2>1 DEF Promote, watch
  <2>2. CASE ForcePromote(c, e, v) BY <1>1, <2>2 DEF ForcePromote, Edit, watch
  <2>3. CASE RollbackTo(c, e, v) BY <1>1, <2>3 DEF RollbackTo, Edit, watch
  <2>4. CASE Rollback(c, e) BY <1>1, <2>4 DEF Rollback, watch
  <2>5. CASE ResolveRun(c, e) BY <1>1, <2>5 DEF ResolveRun, watch
  <2> QED BY <1>4, <2>1, <2>2, <2>3, <2>4, <2>5
<1>5. ASSUME NEW c \in Client,
             \/ \E v \in Version : BeginRetire(c, v) \/ ForceRetire(c, v)
             \/ ReadEnv(c) \/ CheckPins(c) \/ Abandon(c)
             \/ \E e \in Env : Rollback(c, e) \/ ResolveRun(c, e)
      PROVE  Rows'
  <2>1. CASE \E v \in Version : BeginRetire(c, v) BY <1>1, <2>1 DEF BeginRetire, watch
  <2>2. CASE \E v \in Version : ForceRetire(c, v) BY <1>1, <2>2 DEF ForceRetire, Edit, watch
  <2>3. CASE ReadEnv(c) BY <1>1, <2>3 DEF ReadEnv, watch
  <2>4. CASE CheckPins(c) BY <1>1, <2>4 DEF CheckPins, watch
  <2>5. CASE Abandon(c) BY <1>1, <2>5 DEF Abandon, watch
  <2>6. CASE \E e \in Env : Rollback(c, e) BY <1>1, <2>6 DEF Rollback, watch
  <2>7. CASE \E e \in Env : ResolveRun(c, e) BY <1>1, <2>7 DEF ResolveRun, watch
  <2> QED BY <1>5, <2>1, <2>2, <2>3, <2>4, <2>5, <2>6, <2>7
<1>6. ASSUME NEW c \in Client, SetRetired(c) PROVE Rows'
  <2>1. req[c] \in Request /\ RequestOK(req[c]) BY <1>1
  <2>2. req[c].v \in Version BY <2>1, <1>6 DEF SetRetired, RequestOK
  <2> QED BY <1>1, <1>6, <2>2 DEF SetRetired
<1>7. ASSUME NEW c \in Client, FlipEnv(c) PROVE Rows'
  <2>1. req[c] \in Request /\ RequestOK(req[c]) BY <1>1
  <2>2. req[c].v \in Version /\ req[c].e \in Env /\ req[c].doc \in EnvDoc
    BY <2>1, <1>7 DEF FlipEnv, RequestOK, Request
  <2>3. Pushed(req[c].doc, req[c].v) \in EnvDoc BY <2>2, PushedTyped
  <2>4. req[c].doc.current \in Version \cup {NoVersion} BY <2>2 DEF EnvDoc
  <2>5. env' \in [Env -> EnvDoc] BY <1>1, <1>7, <2>3 DEF FlipEnv
  <2>6. undo' \in [Env -> Version \cup {NoVersion}] BY <1>1, <1>7, <2>4 DEF FlipEnv
  <2> QED BY <1>1, <1>7, <2>5, <2>6 DEF FlipEnv
<1>8. ASSUME NEW c \in Client, NEW r \in Run, SaveRun(c, r) PROVE Rows'
  <2>1. req[c].v \in Version BY <1>1, <1>8 DEF SaveRun, RequestOK
  <2> QED BY <1>1, <1>8, <2>1 DEF SaveRun, watch
<1>9. ASSUME NEW r \in Run, Execute(r) \/ Pause(r) \/ Answer(r) PROVE Rows'
  <2> DEFINE S == {"none", "queued", "running", "waiting", "done"}
  <2>1. PICK to \in S : /\ run' = [run EXCEPT ![r].status = to]
                        /\ UNCHANGED <<ver, passing, own, env, up, req, watch, edits>>
    BY <1>9 DEF Execute, Pause, Answer, RunGoes
  <2>2. run' \in [Run -> [status: S, v: Version \cup {NoVersion}]] BY <1>1, <2>1
  <2> QED BY <1>1, <2>1, <2>2 DEF watch
<1> QED BY <1>2, <1>3, <1>4, <1>5, <1>6, <1>7, <1>8, <1>9 DEF Step

LEMMA TypedStep == ASSUME Typed, Next, RolloutAssumption PROVE Typed' /\ vouched \subseteq vouched'
<1>1. Step /\ vouched' = Vouched BY DEF Next
<1>2. req' \in [Client -> Request] /\ \A c \in Client : RequestOK(req'[c])
  BY <1>1, RequestsTyped
<1>3. ASSUME NEW c \in Client, req'[c].vouch PROVE <<req'[c].e, req'[c].v>> \in Env \X Version
  BY <1>2, <1>3 DEF RequestOK
<1>4. vouched' \subseteq Env \X Version /\ vouched \subseteq vouched'
  <2> DEFINE M == {x \in Env \X Version : Met(x[1], x[2])'}
             O == {<<req'[c].e, req'[c].v>> : c \in {d \in Client : req'[d].vouch}}
  <2>1. vouched' = vouched \cup M \cup O BY <1>1 DEF Vouched
  <2>2. M \subseteq Env \X Version OBVIOUS
  <2>3. O \subseteq Env \X Version BY <1>3
  <2>4. vouched \subseteq Env \X Version BY DEF Typed, TypeOK
  <2> HIDE DEF M, O
  <2> QED BY <2>1, <2>2, <2>3, <2>4
<1>5. TypeOK' BY <1>1, <1>2, <1>4, RowsTyped DEF TypeOK, EnvDoc, Request
<1> QED BY <1>2, <1>4, <1>5 DEF Typed
-----------------------------------------------------------------------------
(* Nothing unvetted. *)

LEMMA DocStays ==
  ASSUME vouched \subseteq vouched', NEW e, NEW doc, DocVouched(e, doc)
  PROVE  DocVouched(e, doc)'
BY DEF DocVouched

LEMMA RequestStays ==
  ASSUME vouched \subseteq vouched', NEW r, RequestVouched(r)
  PROVE  RequestVouched(r)'
BY DocStays DEF RequestVouched

LEMMA SameVouched ==
  ASSUME vouched \subseteq vouched', NEW r, NEW s, SameRequest(r, s), RequestVouched(s)
  PROVE  RequestVouched(r)'
<1>1. RequestVouched(s)' BY RequestStays
<1> QED BY <1>1 DEF RequestVouched, SameRequest

\* Requests and pointers that changed are vouched for anew; the others still are.
LEMMA PointwiseVouched ==
  ASSUME AllVouched, vouched \subseteq vouched',
         \A e \in Env : env'[e] = env[e] \/ DocVouched(e, env[e])',
         \A c \in Client : SameRequest(req'[c], req[c]) \/ RequestVouched(req[c])'
  PROVE  AllVouched'
<1>1. ASSUME NEW e \in Env PROVE DocVouched(e, env[e])'
  <2>1. PICK doc : doc = env[e] OBVIOUS
  <2>2. DocVouched(e, doc)' BY <2>1, DocStays DEF AllVouched
  <2>3. CASE env'[e] = env[e] BY <2>1, <2>2, <2>3 DEF DocVouched
  <2> QED BY <2>3
<1>2. ASSUME NEW c \in Client PROVE RequestVouched(req[c])'
  <2>1. PICK r : r = req[c] OBVIOUS
  <2>2. PICK s : s = req'[c] OBVIOUS
  <2>3. ASSUME SameRequest(s, r) PROVE RequestVouched(s)'
    BY <2>1, <2>3, SameVouched DEF AllVouched
  <2>4. CASE SameRequest(req'[c], req[c]) BY <2>1, <2>2, <2>3, <2>4 DEF RequestVouched
  <2> QED BY <2>4
<1> QED BY <1>1, <1>2 DEF AllVouched

LEMMA GoesVouched ==
  ASSUME Typed, AllVouched, vouched \subseteq vouched', env' = env,
         NEW c \in Client, NEW r, Goes(c, r), RequestVouched(r)'
  PROVE  AllVouched'
<1>1. req \in [Client -> Request] BY DEF Typed, TypeOK, Request, EnvDoc
<1>2. ASSUME NEW d \in Client PROVE SameRequest(req'[d], req[d]) \/ RequestVouched(req[d])'
  <2>1. CASE d = c
    <3>1. req'[d] = r BY <1>1, <2>1 DEF Goes
    <3> QED BY <3>1 DEF RequestVouched
  <2>2. CASE d # c
    <3>1. req'[d] = req[d] BY <1>1, <2>2 DEF Goes
    <3> QED BY <3>1 DEF SameRequest
  <2> QED BY <2>1, <2>2
<1> QED BY <1>2, PointwiseVouched

\* A request that ends among requests that only learn of a race.
LEMMA RacedVouched ==
  ASSUME Typed, AllVouched, vouched \subseteq vouched',
         \A e \in Env : env'[e] = env[e] \/ DocVouched(e, env[e])',
         NEW c \in Client, NEW v, req' = [Raced(v) EXCEPT ![c] = Idle]
  PROVE  AllVouched'
<1>1. req \in [Client -> Request] BY DEF Typed, TypeOK, Request, EnvDoc
<1>2. ASSUME NEW d \in Client PROVE SameRequest(req'[d], req[d]) \/ RequestVouched(req[d])'
  <2>1. /\ Raced(v) \in [Client -> Request]
        /\ Raced(v)[d] = [req[d] EXCEPT !.raced = Raced(v)[d].raced]
    BY <1>1, RacedTyped DEF Typed
  <2>2. CASE d = c
    <3>1. req'[d] = Idle BY <2>1, <2>2
    <3> QED BY <3>1 DEF RequestVouched, Idle
  <2>3. CASE d # c
    <3>1. req'[d] = Raced(v)[d] BY <2>1, <2>3
    <3>2. req[d] \in Request BY <1>1
    <3> QED BY <2>1, <3>1, <3>2 DEF SameRequest, Request
  <2> QED BY <2>2, <2>3
<1> QED BY <1>2, PointwiseVouched

\* The pair a request is checked for is vouched for by the state after the check.
LEMMA CheckVouches ==
  ASSUME Typed, Next, NEW c \in Client, NEW e \in Env, NEW v \in Version,
         \/ Met(e, v) /\ UNCHANGED <<passing, own>>
         \/ req'[c].vouch /\ req'[c].e = e /\ req'[c].v = v
  PROVE  <<e, v>> \in vouched'
<1> DEFINE M == {x \in Env \X Version : Met(x[1], x[2])'}
           O == {<<req'[d].e, req'[d].v>> : d \in {d \in Client : req'[d].vouch}}
<1>1. vouched' = vouched \cup M \cup O BY DEF Next, Vouched
<1>2. CASE Met(e, v) /\ UNCHANGED <<passing, own>>
  <2>1. Met(e, v)' BY <1>2 DEF Met, Gate
  <2>2. <<e, v>>[1] = e /\ <<e, v>>[2] = v /\ <<e, v>> \in Env \X Version OBVIOUS
  <2>3. PICK x \in Env \X Version : x = <<e, v>> BY <2>2
  <2>4. x[1] = e /\ x[2] = v BY <2>3
  <2>5. Met(x[1], x[2])' BY <2>1, <2>4 DEF Met, Gate
  <2> QED BY <1>1, <2>3, <2>5
<1>3. CASE req'[c].vouch /\ req'[c].e = e /\ req'[c].v = v
  <2>1. <<e, v>> \in O BY <1>3
  <2> HIDE DEF M, O
  <2> QED BY <1>1, <2>1
<1> QED BY <1>2, <1>3

LEMMA VouchedStep ==
  ASSUME Typed, AllVouched, Next, RolloutAssumption
  PROVE  AllVouched'
<1>1. Step /\ vouched \subseteq vouched' /\ Typed' BY TypedStep DEF Next
<1>2. req \in [Client -> Request] /\ \A c \in Client : RequestOK(req[c])
  BY DEF Typed, TypeOK, Request, EnvDoc
<1>3. CASE UNCHANGED <<env, req>> BY <1>1, <1>3, PointwiseVouched DEF SameRequest
<1>4. ASSUME NEW c \in Client, NEW e \in Env, NEW v \in Version,
             \/ Promote(c, e, v) \/ ForcePromote(c, e, v) \/ RollbackTo(c, e, v)
      PROVE  AllVouched'
  <2> DEFINE r == [Idle EXCEPT !.pc = "checked", !.v = v, !.e = e]
             s == [Idle EXCEPT !.pc = "checked", !.vouch = TRUE, !.v = v, !.e = e]
  <2>1. /\ r.e = e /\ r.v = v /\ r.pc = "checked"
        /\ s.e = e /\ s.v = v /\ s.pc = "checked" /\ s.vouch
    BY DEF Idle
  <2> HIDE DEF r, s
  <2>2. CASE Promote(c, e, v)
    <3>1. Goes(c, r) /\ Met(e, v) /\ UNCHANGED <<passing, own, env>> BY <2>2 DEF Promote, r
    <3>2. <<e, v>> \in vouched' BY <3>1, CheckVouches
    <3>3. RequestVouched(r)' BY <2>1, <3>2 DEF RequestVouched, r, Idle
    <3> QED BY <1>1, <3>1, <3>3, GoesVouched
  <2>3. CASE ForcePromote(c, e, v) \/ RollbackTo(c, e, v)
    <3>1. Goes(c, s) /\ UNCHANGED env BY <2>3 DEF ForcePromote, RollbackTo, s
    <3>2. req'[c] = s BY <1>2, <3>1 DEF Goes
    <3>3. <<e, v>> \in vouched' BY <2>1, <3>2, CheckVouches
    <3>4. RequestVouched(s)' BY <2>1, <3>3 DEF RequestVouched, s, Idle
    <3> QED BY <1>1, <3>1, <3>4, GoesVouched
  <2> QED BY <1>4, <2>2, <2>3
<1>5. ASSUME NEW c \in Client, NEW e \in Env, Rollback(c, e) PROVE AllVouched'
  <2>1. PICK v : v = Last(env[e].history) OBVIOUS
  <2> DEFINE r == [Idle EXCEPT !.pc = "checked", !.v = v, !.e = e]
  <2>2. r.e = e /\ r.v = v /\ r.pc = "checked" BY DEF Idle
  <2> HIDE DEF r
  <2>3. Goes(c, r) /\ UNCHANGED env /\ env[e].history # <<>> BY <1>5, <2>1 DEF Rollback, r
  <2>4. env[e].history \in Seq(Version) BY DEF Typed, TypeOK
  <2>5. Len(env[e].history) \in DOMAIN env[e].history BY <2>3, <2>4
  <2>6. DocVouched(e, env[e]) BY DEF AllVouched
  <2>7. <<e, v>> \in vouched' BY <1>1, <2>1, <2>5, <2>6 DEF DocVouched, Last
  <2>8. RequestVouched(r)' BY <2>2, <2>7 DEF RequestVouched, r, Idle
  <2> QED BY <1>1, <2>3, <2>8, GoesVouched
<1>6. ASSUME NEW c \in Client, ReadEnv(c) PROVE AllVouched'
  <2>1. req[c] \in Request /\ RequestOK(req[c]) /\ req[c].pc = "checked" BY <1>2, <1>6 DEF ReadEnv
  <2>2. PICK e \in Env : e = req[c].e BY <2>1 DEF RequestOK
  <2>3. PICK doc : doc = env[e] OBVIOUS
  <2>4. PICK q : q = req[c] OBVIOUS
  <2> DEFINE r == [q EXCEPT !.pc = "flipping", !.doc = doc]
  <2>5. r.e = e /\ r.v = q.v /\ r.doc = doc BY <2>1, <2>2, <2>4 DEF Request
  <2> HIDE DEF r
  <2>6. Goes(c, r) /\ UNCHANGED env BY <1>6, <2>2, <2>3, <2>4 DEF ReadEnv, r
  <2>7. RequestVouched(req[c]) /\ DocVouched(e, doc) BY <2>3 DEF AllVouched
  <2>8. <<e, q.v>> \in vouched BY <2>1, <2>2, <2>4, <2>7 DEF RequestVouched
  <2>9. DocVouched(e, doc)' BY <1>1, <2>7, DocStays
  <2>10. RequestVouched(r)' BY <1>1, <2>5, <2>8, <2>9 DEF RequestVouched
  <2> QED BY <1>1, <2>6, <2>10, GoesVouched
<1>7. ASSUME NEW c \in Client, NEW r, Goes(c, r), UNCHANGED env, r.pc \notin {"checked", "flipping"}
      PROVE  AllVouched'
  <2>1. RequestVouched(r)' BY <1>7 DEF RequestVouched
  <2> QED BY <1>1, <1>7, <2>1, GoesVouched
<1>8. ASSUME NEW c \in Client, FlipEnv(c) PROVE AllVouched'
  <2>1. req[c] \in Request /\ RequestOK(req[c]) /\ req[c].pc = "flipping" BY <1>2, <1>8 DEF FlipEnv
  <2>2. PICK e \in Env : e = req[c].e BY <2>1 DEF RequestOK
  <2>3. PICK v \in Version : v = req[c].v BY <2>1 DEF RequestOK
  <2>4. PICK doc \in EnvDoc : doc = req[c].doc BY <2>1 DEF Request
  <2>5. DocVouched(e, doc) /\ <<e, v>> \in vouched
    BY <2>1, <2>2, <2>3, <2>4 DEF AllVouched, RequestVouched
  <2>6. PICK new : new = Pushed(doc, v) OBVIOUS
  <2>7. /\ new.current = v
        /\ doc.current # NoVersion => new.history = Append(doc.history, doc.current)
        /\ doc.current = NoVersion => new.history = doc.history
    BY <2>6, PushedTyped
  <2>8. \A i \in DOMAIN new.history : <<e, new.history[i]>> \in vouched
    <3>1. CASE doc.current = NoVersion BY <2>5, <2>7, <3>1 DEF DocVouched
    <3>2. CASE doc.current # NoVersion
      <4>1. doc.current \in Version /\ doc.history \in Seq(Version) BY <3>2 DEF EnvDoc
      <4>2. \A i \in DOMAIN new.history : \/ i \in DOMAIN doc.history /\ new.history[i] = doc.history[i]
                                          \/ new.history[i] = doc.current
        BY <2>7, <3>2, <4>1
      <4> QED BY <2>5, <3>2, <4>2 DEF DocVouched
    <3> QED BY <3>1, <3>2
  <2>9. DocVouched(e, new) BY <2>5, <2>7, <2>8 DEF DocVouched
  <2>10. DocVouched(e, new)' BY <1>1, <2>9, DocStays
  <2>11. env' = [env EXCEPT ![e] = new] /\ req' = [Raced(v) EXCEPT ![c] = Idle]
    BY <1>8, <2>2, <2>3, <2>4, <2>6 DEF FlipEnv
  <2>12. ASSUME NEW f \in Env PROVE env'[f] = env[f] \/ DocVouched(f, env[f])'
    <3>1. CASE f = e
      <4>1. env'[f] = new BY <2>11, <3>1 DEF Typed, TypeOK
      <4> QED BY <2>10, <3>1, <4>1 DEF DocVouched
    <3>2. CASE f # e BY <2>11, <3>2 DEF Typed, TypeOK
    <3> QED BY <3>1, <3>2
  <2> QED BY <1>1, <2>11, <2>12, RacedVouched
<1>9. ASSUME NEW c \in Client, NEW r \in Run, SaveRun(c, r) PROVE AllVouched'
  <2>1. PICK v : v = req[c].v OBVIOUS
  <2>2. req' = [Raced(v) EXCEPT ![c] = Idle] /\ UNCHANGED env BY <1>9, <2>1 DEF SaveRun
  <2> QED BY <1>1, <2>2, RacedVouched
<1>10. ASSUME NEW c \in Client, NEW e \in Env, ResolveRun(c, e) PROVE AllVouched'
  BY <1>7, <1>10 DEF ResolveRun, Idle
<1>11. ASSUME NEW c \in Client, NEW v \in Version, BeginRetire(c, v) \/ ForceRetire(c, v)
       PROVE  AllVouched'
  BY <1>7, <1>11 DEF BeginRetire, ForceRetire, Idle
<1>12. ASSUME NEW c \in Client, CheckPins(c) \/ SetRetired(c) \/ Abandon(c) PROVE AllVouched'
  <2>1. CASE CheckPins(c)
    <3>1. req[c] \in Request BY <1>2
    <3> DEFINE r == [req[c] EXCEPT !.pc = "unpinned"]
    <3>2. r.pc = "unpinned" /\ Idle.pc = "idle" BY <3>1 DEF Request, Idle
    <3>3. PICK s : s \in {r, Idle} /\ Goes(c, s) BY <2>1 DEF CheckPins
    <3> QED BY <1>7, <2>1, <3>2, <3>3 DEF CheckPins
  <2>2. CASE SetRetired(c) BY <1>7, <2>2 DEF SetRetired, Idle
  <2>3. CASE Abandon(c) BY <1>7, <2>3 DEF Abandon, Idle
  <2> QED BY <1>12, <2>1, <2>2, <2>3
<1>13. ASSUME \/ \E v \in Version : CreateVersion(v) \/ WorkerBoots(v) \/ WorkerLeaves(v)
              \/ \E v \in Version, k \in Kind, ok \in BOOLEAN : Attest(v, k, ok)
              \/ \E p \in {NoPolicy} \cup [Env -> SUBSET Kind] : SetGate(p)
              \/ \E r \in Run : Execute(r) \/ Pause(r) \/ Answer(r)
       PROVE  UNCHANGED <<env, req>>
  BY <1>13 DEF CreateVersion, WorkerBoots, WorkerLeaves, Attest, SetGate, Execute, Pause, Answer,
               RunGoes
<1> QED BY <1>1, <1>3, <1>4, <1>5, <1>6, <1>8, <1>9, <1>10, <1>11, <1>12, <1>13 DEF Step
-----------------------------------------------------------------------------
(* Nothing in use is retired. *)

\* The rows stand, and one request goes on to r, which wants no retired version.
LEMMA GoesRetired ==
  ASSUME Typed, RetiredOK, UNCHANGED <<env, run, ver, excused>>,
         NEW c \in Client, NEW r, Goes(c, r), RetiringOK(r),
         r.pc \in Wanting => ~Retired(r.v)
  PROVE  RetiredOK'
<1>1. req \in [Client -> Request] BY DEF Typed, TypeOK, Request, EnvDoc
<1>2. \A d \in Client : req'[d] = IF d = c THEN r ELSE req[d] BY <1>1 DEF Goes
<1>3. ASSUME NEW v \in Version, Retired(v)' PROVE Unwanted(v)' /\ Unpointed(v)' /\ Unpinned(v)'
  <2>1. Retired(v) BY <1>3 DEF Retired
  <2>2. Unwanted(v) /\ Unpointed(v) /\ Unpinned(v) BY <2>1 DEF RetiredOK
  <2>3. Unpointed(v)' /\ Unpinned(v)' BY <2>2 DEF Unpointed, Unpinned, Live
  <2>4. Unwanted(v)' BY <1>2, <2>1, <2>2 DEF Unwanted
  <2> QED BY <2>3, <2>4
<1>4. ASSUME NEW d \in Client PROVE RetiringOK(req[d])'
  <2>1. PICK s : s = req'[d] OBVIOUS
  <2>2. RetiringOK(s) BY <1>2, <2>1 DEF RetiredOK
  <2>3. RetiringOK(s)' BY <2>2 DEF RetiringOK, Unpointed, Unpinned, Live
  <2> QED BY <2>1, <2>3 DEF RetiringOK
<1> QED BY <1>3, <1>4 DEF RetiredOK

\* A pointer or a pin that moves to v tells the requests that are retiring v.
LEMMA RacedRetired ==
  ASSUME Typed, RetiredOK, UNCHANGED <<ver, excused>>,
         NEW c \in Client, NEW v \in Version, req[c].v = v, req[c].pc \in Wanting,
         req' = [Raced(v) EXCEPT ![c] = Idle],
         \A u \in Version : u # v /\ Unpointed(u) => Unpointed(u)',
         \A u \in Version : u # v /\ Unpinned(u) => Unpinned(u)'
  PROVE  RetiredOK'
<1>1. req \in [Client -> Request] /\ \A d \in Client : RequestOK(req[d])
  BY DEF Typed, TypeOK, Request, EnvDoc
<1>2. /\ Raced(v) \in [Client -> Request]
      /\ \A d \in Client : /\ Raced(v)[d] = [req[d] EXCEPT !.raced = Raced(v)[d].raced]
                           /\ req[d].raced => Raced(v)[d].raced
                           /\ req[d].pc \in Retiring /\ req[d].v = v => Raced(v)[d].raced
  BY <1>1, RacedTyped
<1>3. \A d \in Client : req'[d] = IF d = c THEN Idle ELSE Raced(v)[d] BY <1>2
<1>4. ~Retired(v) BY DEF RetiredOK, Unwanted
<1>5. ASSUME NEW u \in Version, Retired(u)' PROVE Unwanted(u)' /\ Unpointed(u)' /\ Unpinned(u)'
  <2>1. Retired(u) /\ u # v BY <1>4, <1>5 DEF Retired
  <2>2. Unwanted(u) /\ Unpointed(u) /\ Unpinned(u) BY <2>1 DEF RetiredOK
  <2>3. Unpointed(u)' /\ Unpinned(u)' BY <2>1, <2>2
  <2>4. ASSUME NEW d \in Client, req'[d].v = u PROVE req'[d].pc \notin Wanting
    <3>1. CASE d = c BY <1>3, <3>1 DEF Idle, Wanting
    <3>2. CASE d # c
      <4>1. req[d] \in Request BY <1>1
      <4>2. req'[d] = [req[d] EXCEPT !.raced = Raced(v)[d].raced] BY <1>2, <1>3, <3>2
      <4>3. req'[d].v = req[d].v /\ req'[d].pc = req[d].pc BY <4>1, <4>2 DEF Request
      <4> QED BY <2>2, <2>4, <4>3 DEF Unwanted
    <3> QED BY <3>1, <3>2
  <2> QED BY <2>3, <2>4 DEF Unwanted
<1>6. ASSUME NEW d \in Client PROVE RetiringOK(req[d])'
  <2>1. CASE d = c BY <1>3, <2>1 DEF RetiringOK, Idle, Retiring
  <2>2. CASE d # c
    <3>1. PICK q \in Request : q = req[d] /\ RequestOK(q) BY <1>1
    <3>2. PICK s : s = req'[d] OBVIOUS
    <3>3. s = [q EXCEPT !.raced = s.raced]
      BY <1>2, <1>3, <2>2, <3>1, <3>2
    <3>4. s.v = q.v /\ s.pc = q.pc /\ s.forced = q.forced BY <3>1, <3>3 DEF Request
    <3>5. (q.raced => s.raced) /\ (q.pc \in Retiring /\ q.v = v => s.raced)
      BY <1>2, <1>3, <2>2, <3>1, <3>2
    <3>6. RetiringOK(q) BY <3>1 DEF RetiredOK
    <3>7. ASSUME ~s.raced, ~s.forced, s.pc \in Retiring
          PROVE  Unpointed(s.v)' /\ (s.pc = "unpinned" => Unpinned(s.v)')
      <4>1. q.v # v /\ q.v \in Version BY <3>1, <3>4, <3>5, <3>7 DEF RequestOK, Retiring
      <4>2. Unpointed(q.v) /\ (q.pc = "unpinned" => Unpinned(q.v))
        BY <3>4, <3>5, <3>6, <3>7 DEF RetiringOK
      <4>3. PICK u \in Version : u = q.v BY <4>1
      <4>4. Unpointed(u)' /\ (q.pc = "unpinned" => Unpinned(u)') BY <4>1, <4>2, <4>3
      <4>5. u = s.v BY <3>4, <4>3
      <4> QED BY <3>4, <4>4, <4>5
    <3>8. RetiringOK(s)' BY <3>7 DEF RetiringOK, Retiring
    <3> QED BY <3>2, <3>8 DEF RetiringOK
  <2> QED BY <2>1, <2>2
<1> QED BY <1>5, <1>6 DEF RetiredOK

LEMMA RetiredStep ==
  ASSUME Typed, RetiredOK, Next, RolloutAssumption
  PROVE  RetiredOK'
<1>1. Step BY DEF Next
<1>2. req \in [Client -> Request] /\ \A c \in Client : RequestOK(req[c])
  BY DEF Typed, TypeOK, Request, EnvDoc
<1>3. ASSUME UNCHANGED <<env, run, req, ver, excused>> PROVE RetiredOK'
  BY <1>3 DEF RetiredOK, RetiringOK, Unwanted, Unpointed, Unpinned, Live, Retired
<1>4. ASSUME NEW v \in Version, CreateVersion(v) PROVE RetiredOK'
  <2>1. \A u \in Version : Retired(u)' => Retired(u)
    BY <1>4 DEF CreateVersion, Retired, Typed, TypeOK, watch
  <2>2. UNCHANGED <<env, run, req>> BY <1>4 DEF CreateVersion
  <2> QED BY <2>1, <2>2 DEF RetiredOK, RetiringOK, Unwanted, Unpointed, Unpinned, Live
<1>5. ASSUME NEW c \in Client, NEW e \in Env, NEW v \in Version,
             \/ Promote(c, e, v) \/ ForcePromote(c, e, v) \/ RollbackTo(c, e, v)
      PROVE  RetiredOK'
  <2>1. PICK r : /\ Goes(c, r) /\ r.pc = "checked" /\ r.v = v
                 /\ UNCHANGED <<env, run, ver, excused>> /\ ver[v] = "active"
    BY <1>5 DEF Promote, ForcePromote, RollbackTo, watch, Idle
  <2>2. RetiringOK(r) /\ ~Retired(r.v) BY <2>1 DEF RetiringOK, Retiring, Retired
  <2> QED BY <2>1, <2>2, GoesRetired
<1>6. ASSUME NEW c \in Client, NEW e \in Env, Rollback(c, e) PROVE RetiredOK'
  <2>1. PICK r : /\ Goes(c, r) /\ r.pc = "checked" /\ ver[r.v] = "active"
                 /\ UNCHANGED <<env, run, ver, excused>>
    BY <1>6 DEF Rollback, watch, Idle
  <2>2. RetiringOK(r) /\ ~Retired(r.v) BY <2>1 DEF RetiringOK, Retiring, Retired
  <2> QED BY <2>1, <2>2, GoesRetired
<1>7. ASSUME NEW c \in Client, NEW e \in Env, ResolveRun(c, e) PROVE RetiredOK'
  <2> DEFINE s == [Idle EXCEPT !.pc = "resolved", !.v = env[e].current, !.e = e]
  <2>a. s.pc = "resolved" /\ s.v = env[e].current BY DEF Idle
  <2>b. /\ Goes(c, s) /\ UNCHANGED <<env, run, ver, excused>> /\ env[e].current # NoVersion
    BY <1>7 DEF ResolveRun, watch
  <2> HIDE DEF s
  <2>1. PICK r : /\ Goes(c, r) /\ r.pc = "resolved" /\ r.v = env[e].current
                 /\ UNCHANGED <<env, run, ver, excused>> /\ r.v # NoVersion
    BY <2>a, <2>b
  <2>2. r.v \in Version BY <2>1 DEF Typed, TypeOK
  <2>3. ~Retired(r.v) BY <2>1, <2>2 DEF RetiredOK, Unpointed
  <2>4. RetiringOK(r) BY <2>1 DEF RetiringOK, Retiring
  <2> QED BY <2>1, <2>3, <2>4, GoesRetired
<1>8. ASSUME NEW c \in Client, ReadEnv(c) PROVE RetiredOK'
  <2>1. req[c] \in Request /\ RequestOK(req[c]) /\ req[c].pc = "checked" BY <1>2, <1>8 DEF ReadEnv
  <2>2. PICK r : /\ Goes(c, r) /\ r.pc = "flipping" /\ r.v = req[c].v
                 /\ UNCHANGED <<env, run, ver, excused>>
    BY <2>1, <1>8 DEF ReadEnv, watch, Request
  <2>3. ~Retired(r.v) BY <2>1, <2>2 DEF RetiredOK, Unwanted, Wanting, RequestOK
  <2>4. RetiringOK(r) BY <2>2 DEF RetiringOK, Retiring
  <2> QED BY <2>2, <2>3, <2>4, GoesRetired
<1>9. ASSUME NEW c \in Client, NEW v \in Version, BeginRetire(c, v) \/ ForceRetire(c, v)
      PROVE  RetiredOK'
  <2>1. PICK r : /\ Goes(c, r) /\ r.pc \in Retiring /\ r.v = v
                 /\ ~r.forced => r.pc = "unpointed" /\ Unpointed(v)
                 /\ UNCHANGED <<env, run, ver, excused>>
    BY <1>9 DEF BeginRetire, ForceRetire, watch, Idle, Retiring, Unpointed
  <2>2. RetiringOK(r) /\ r.pc \notin Wanting BY <2>1 DEF RetiringOK, Retiring, Wanting
  <2> QED BY <2>1, <2>2, GoesRetired
<1>10. ASSUME NEW c \in Client, CheckPins(c) PROVE RetiredOK'
  <2>1. req[c] \in Request /\ req[c].pc = "unpointed" /\ RetiringOK(req[c])
    BY <1>2, <1>10 DEF CheckPins, RetiredOK
  <2>2. UNCHANGED <<env, run, ver, excused>> BY <1>10 DEF CheckPins, watch
  <2>3. CASE Pinned(req[c].v) = {}
    <3>1. Unpinned(req[c].v) BY <2>3 DEF Pinned, Unpinned
    <3>2. PICK r : /\ Goes(c, r) /\ r.pc = "unpinned" /\ r.v = req[c].v
                   /\ r.raced = req[c].raced /\ r.forced = req[c].forced
      BY <2>1, <2>3, <1>10 DEF CheckPins, Request
    <3>3. RetiringOK(r) BY <2>1, <3>1, <3>2 DEF RetiringOK, Retiring
    <3> QED BY <2>2, <3>2, <3>3, GoesRetired DEF Wanting
  <2>4. CASE Pinned(req[c].v) # {}
    <3>1. Goes(c, Idle) BY <2>4, <1>10 DEF CheckPins
    <3>2. RetiringOK(Idle) /\ Idle.pc \notin Wanting BY DEF RetiringOK, Idle, Retiring, Wanting
    <3> QED BY <2>2, <3>1, <3>2, GoesRetired
  <2> QED BY <2>3, <2>4
<1>11. ASSUME NEW c \in Client, Abandon(c) PROVE RetiredOK'
  <2>1. Goes(c, Idle) /\ UNCHANGED <<env, run, ver, excused>> BY <1>11 DEF Abandon, watch
  <2>2. RetiringOK(Idle) /\ Idle.pc \notin Wanting BY DEF RetiringOK, Idle, Retiring, Wanting
  <2> QED BY <2>1, <2>2, GoesRetired
<1>12. ASSUME NEW c \in Client, SetRetired(c) PROVE RetiredOK'
  <2>1. req[c] \in Request /\ RequestOK(req[c]) /\ RetiringOK(req[c]) /\ req[c].pc = "unpinned"
    BY <1>2, <1>12 DEF SetRetired, RetiredOK
  <2>2. PICK v \in Version : v = req[c].v BY <2>1 DEF RequestOK
  <2>3. \A d \in Client : req'[d] = IF d = c THEN Idle ELSE req[d]
    BY <1>2, <1>12 DEF SetRetired, Goes
  <2>4. /\ ver' = [ver EXCEPT ![v] = "retired"] /\ UNCHANGED <<env, run>>
        /\ excused \subseteq excused'
        /\ v \notin excused' =>
             ~req[c].forced /\ ~req[c].raced /\ \A d \in About(v) : req[d].pc \in Retiring
    BY <1>12, <2>2 DEF SetRetired
  <2>5. ASSUME NEW u \in Version, Retired(u)' PROVE Unwanted(u) /\ Unpointed(u) /\ Unpinned(u)
    <3>1. CASE u = v
      <4>1. v \notin excused' BY <2>5, <3>1 DEF Retired
      <4>2. Unpointed(u) /\ Unpinned(u) BY <2>1, <2>2, <2>4, <3>1, <4>1 DEF RetiringOK, Retiring
      <4>3. Unwanted(u) BY <2>4, <3>1, <4>1 DEF Unwanted, About, Retiring, Wanting
      <4> QED BY <4>2, <4>3
    <3>2. CASE u # v
      <4>1. Retired(u) BY <2>4, <2>5, <3>2 DEF Retired, Typed, TypeOK
      <4> QED BY <4>1 DEF RetiredOK
    <3> QED BY <3>1, <3>2
  <2>6. ASSUME NEW u \in Version, Retired(u)' PROVE Unwanted(u)' /\ Unpointed(u)' /\ Unpinned(u)'
    <3>1. Unwanted(u) /\ Unpointed(u) /\ Unpinned(u) BY <2>5, <2>6
    <3>2. Unpointed(u)' /\ Unpinned(u)' BY <2>4, <3>1 DEF Unpointed, Unpinned, Live
    <3>3. Unwanted(u)' BY <2>3, <3>1 DEF Unwanted, Idle, Wanting
    <3> QED BY <3>2, <3>3
  <2>7. ASSUME NEW d \in Client PROVE RetiringOK(req[d])'
    <3>1. PICK s : s = req'[d] OBVIOUS
    <3>2. RetiringOK(s) BY <2>3, <3>1 DEF RetiredOK, RetiringOK, Idle, Retiring
    <3>3. RetiringOK(s)' BY <2>4, <3>2 DEF RetiringOK, Unpointed, Unpinned, Live
    <3> QED BY <3>1, <3>3 DEF RetiringOK
  <2> QED BY <2>6, <2>7 DEF RetiredOK
<1>13. ASSUME NEW c \in Client, FlipEnv(c) PROVE RetiredOK'
  <2>1. req[c] \in Request /\ RequestOK(req[c]) /\ req[c].pc = "flipping" BY <1>2, <1>13 DEF FlipEnv
  <2>2. PICK v \in Version : v = req[c].v BY <2>1 DEF RequestOK
  <2>3. PICK e \in Env : e = req[c].e BY <2>1 DEF RequestOK
  <2>4. PICK new : new = Pushed(req[c].doc, v) OBVIOUS
  <2>5. new.current = v BY <2>4 DEF Pushed
  <2>6. /\ env' = [env EXCEPT ![e] = new] /\ UNCHANGED <<ver, run, excused>>
        /\ req' = [Raced(v) EXCEPT ![c] = Idle]
    BY <1>13, <2>2, <2>3, <2>4 DEF FlipEnv
  <2>7. \A f \in Env : env'[f].current = env[f].current \/ env'[f].current = v
    BY <2>5, <2>6 DEF Typed, TypeOK
  <2>8. \A u \in Version : u # v /\ Unpointed(u) => Unpointed(u)' BY <2>7 DEF Unpointed
  <2>9. \A u \in Version : Unpinned(u) => Unpinned(u)' BY <2>6 DEF Unpinned, Live
  <2> QED BY <2>1, <2>2, <2>6, <2>8, <2>9, RacedRetired DEF Wanting
<1>14. ASSUME NEW c \in Client, NEW r \in Run, SaveRun(c, r) PROVE RetiredOK'
  <2>1. req[c] \in Request /\ RequestOK(req[c]) /\ req[c].pc = "resolved" BY <1>2, <1>14 DEF SaveRun
  <2>2. PICK v \in Version : v = req[c].v BY <2>1 DEF RequestOK
  <2>3. /\ run' = [run EXCEPT ![r] = [status |-> "queued", v |-> v]]
        /\ UNCHANGED <<ver, env, excused>> /\ req' = [Raced(v) EXCEPT ![c] = Idle]
    BY <1>14, <2>2 DEF SaveRun, watch
  <2>4. \A q \in Run : run'[q] = run[q] \/ run'[q].v = v BY <2>3 DEF Typed, TypeOK
  <2>5. \A u \in Version : Unpointed(u) => Unpointed(u)' BY <2>3 DEF Unpointed
  <2>6. \A u \in Version : u # v /\ Unpinned(u) => Unpinned(u)' BY <2>4 DEF Unpinned, Live
  <2> QED BY <2>1, <2>2, <2>3, <2>5, <2>6, RacedRetired DEF Wanting
<1>15. ASSUME NEW r \in Run, Execute(r) \/ Pause(r) \/ Answer(r) PROVE RetiredOK'
  <2>1. PICK to : /\ run' = [run EXCEPT ![r].status = to] /\ run[r].status \in {"queued", "running", "waiting"}
                  /\ UNCHANGED <<ver, env, excused, req>>
    BY <1>15 DEF Execute, Pause, Answer, RunGoes, watch
  <2>2. \A q \in Run : run'[q].v = run[q].v /\ (Live(q)' => Live(q))
    BY <2>1 DEF Typed, TypeOK, Live
  <2>3. \A u : Unpinned(u) => Unpinned(u)' BY <2>2 DEF Unpinned
  <2> QED BY <2>1, <2>3 DEF RetiredOK, RetiringOK, Unwanted, Unpointed, Retired
<1>16. ASSUME \/ \E v \in Version : WorkerBoots(v) \/ WorkerLeaves(v)
              \/ \E v \in Version, k \in Kind, ok \in BOOLEAN : Attest(v, k, ok)
              \/ \E p \in {NoPolicy} \cup [Env -> SUBSET Kind] : SetGate(p)
       PROVE  UNCHANGED <<env, run, req, ver, excused>>
  BY <1>16 DEF WorkerBoots, WorkerLeaves, Attest, SetGate, watch
<1> QED BY <1>1, <1>3, <1>4, <1>5, <1>6, <1>7, <1>8, <1>9, <1>10, <1>11, <1>12, <1>13, <1>14,
           <1>15, <1>16 DEF Step
-----------------------------------------------------------------------------
(* The history undoes. *)

LEMMA UndoStep ==
  ASSUME Typed, UndoOK, Next
  PROVE  UndoOK'
<1>1. Step BY DEF Next
<1>2. CASE UNCHANGED <<env, undo>> BY <1>2 DEF UndoOK
<1>3. ASSUME NEW c \in Client, FlipEnv(c) PROVE UndoOK'
  <2>1. req[c] \in Request /\ RequestOK(req[c]) /\ req[c].pc = "flipping"
    BY <1>3 DEF FlipEnv, Typed, TypeOK, Request, EnvDoc
  <2>2. PICK v \in Version : v = req[c].v BY <2>1 DEF RequestOK
  <2>3. PICK e \in Env : e = req[c].e BY <2>1 DEF RequestOK
  <2>4. PICK doc \in EnvDoc : doc = req[c].doc BY <2>1 DEF Request
  <2>5. PICK new \in EnvDoc :
          new = Pushed(doc, v) /\ (doc.current # NoVersion =>
                                     new.history = Append(doc.history, doc.current))
    BY PushedTyped
  <2>6. /\ env' = [env EXCEPT ![e] = new]
        /\ undo' = [undo EXCEPT ![e] = IF env[e] = doc THEN doc.current ELSE NoVersion]
    BY <1>3, <2>2, <2>3, <2>4, <2>5 DEF FlipEnv
  <2>7. ASSUME doc.current # NoVersion
        PROVE  new.history # <<>> /\ Last(new.history) = doc.current
    <3>1. doc.history \in Seq(Version) /\ doc.current \in Version BY <2>7 DEF EnvDoc
    <3> QED BY <2>5, <2>7, <3>1 DEF Last
  <2>8. ASSUME NEW f \in Env, undo'[f] # NoVersion
        PROVE  env'[f].history # <<>> /\ Last(env'[f].history) = undo'[f]
    <3>1. CASE f = e
      <4>1. env'[f] = new /\ undo'[f] = doc.current
        BY <2>6, <2>8, <3>1 DEF Typed, TypeOK
      <4> QED BY <2>7, <2>8, <4>1
    <3>2. CASE f # e
      <4>1. env'[f] = env[f] /\ undo'[f] = undo[f] BY <2>6, <3>2 DEF Typed, TypeOK
      <4> QED BY <2>8, <4>1 DEF UndoOK
    <3> QED BY <3>1, <3>2
  <2> QED BY <2>8 DEF UndoOK
<1>4. ASSUME ~\E c \in Client : FlipEnv(c) PROVE UNCHANGED <<env, undo>>
  <2>1. CASE \E v \in Version : CreateVersion(v) \/ WorkerBoots(v) \/ WorkerLeaves(v)
    BY <2>1 DEF CreateVersion, WorkerBoots, WorkerLeaves, watch
  <2>2. CASE \/ \E v \in Version, k \in Kind, ok \in BOOLEAN : Attest(v, k, ok)
             \/ \E p \in {NoPolicy} \cup [Env -> SUBSET Kind] : SetGate(p)
             \/ \E r \in Run : Execute(r) \/ Pause(r) \/ Answer(r)
    BY <2>2 DEF Attest, SetGate, Execute, Pause, Answer, RunGoes, watch
  <2>3. CASE \E c \in Client, e \in Env, v \in Version :
               Promote(c, e, v) \/ ForcePromote(c, e, v) \/ RollbackTo(c, e, v)
    BY <2>3 DEF Promote, ForcePromote, RollbackTo, watch
  <2>4. CASE \E c \in Client, e \in Env : Rollback(c, e) \/ ResolveRun(c, e)
    BY <2>4 DEF Rollback, ResolveRun, watch
  <2>5. CASE \E c \in Client :
               \/ \E v \in Version : BeginRetire(c, v) \/ ForceRetire(c, v)
               \/ ReadEnv(c) \/ CheckPins(c) \/ Abandon(c)
    BY <2>5 DEF BeginRetire, ForceRetire, ReadEnv, CheckPins, Abandon, watch
  <2>6. CASE \E c \in Client : SetRetired(c) \/ \E r \in Run : SaveRun(c, r)
    BY <2>6 DEF SetRetired, SaveRun, watch
  <2> QED BY <1>1, <1>4, <2>1, <2>2, <2>3, <2>4, <2>5, <2>6 DEF Step
<1> QED BY <1>2, <1>3, <1>4
-----------------------------------------------------------------------------
LEMMA InvInit == Init => IInv
<1> SUFFICES ASSUME Init PROVE IInv OBVIOUS
<1>1. Typed BY InitTyped
<1>2. env = [e \in Env |-> EmptyEnv] /\ req = [c \in Client |-> Idle] BY DEF Init
<1>3. AllVouched
  <2>1. \A e \in Env : DocVouched(e, env[e]) BY <1>2 DEF DocVouched, EmptyEnv
  <2> QED BY <1>2, <2>1 DEF AllVouched, RequestVouched, Idle
<1>4. RetiredOK BY <1>2 DEF Init, RetiredOK, Retired, RetiringOK, Idle, Retiring
<1>5. UndoOK BY DEF Init, UndoOK
<1> QED BY <1>1, <1>3, <1>4, <1>5 DEF IInv

LEMMA InvStep == ASSUME IInv, [Next]_vars, RolloutAssumption PROVE IInv'
<1>1. CASE Next BY <1>1, TypedStep, VouchedStep, RetiredStep, UndoStep DEF IInv
<1>2. CASE UNCHANGED vars
  <2> USE <1>2 DEF vars, watch, IInv
  <2>1. Typed' BY DEF Typed, TypeOK, RequestOK
  <2>2. AllVouched' BY DEF AllVouched, DocVouched, RequestVouched
  <2>3. RetiredOK' BY DEF RetiredOK, Retired, RetiringOK, Unwanted, Unpointed, Unpinned, Live
  <2>4. UndoOK' BY DEF UndoOK
  <2> QED BY <2>1, <2>2, <2>3, <2>4
<1> QED BY <1>1, <1>2

\* What the theorems below are read off: types, vouching, retirement and the history
\* that undoes are kept by every step of every request (deployments.py, gates.py).
THEOREM Invariance == Spec => []IInv
<1>1. Init => IInv BY InvInit
<1>2. IInv /\ [Next]_vars => IInv' BY InvStep, RolloutAssumption
<1> QED BY <1>1, <1>2, PTL DEF Spec

\* The rows of versions, environments, policies and runs, the requests and what is on
\* record about them keep their types.
THEOREM RolloutTypeCorrect == Spec => []TypeOK
<1>1. IInv => TypeOK BY DEF IInv, Typed
<1> QED BY <1>1, Invariance, PTL

\* For any number of versions, environments and requests in flight: what an environment
\* points at was vouched for (gates.py require_promotion, deployments.py promote, rollback).
THEOREM OnlyVettedVersions == Spec => []NoUnvettedVersion
<1>1. IInv => NoUnvettedVersion BY DEF IInv, AllVouched, DocVouched, NoUnvettedVersion
<1> QED BY <1>1, Invariance, PTL

\* A retirement that no other request about the version overlapped, and that nobody
\* forced, leaves nothing that needs the version (deployments.py retire).
THEOREM RetirementIsSafe == Spec => []InUseStaysActive
<1>1. IInv => InUseStaysActive
  BY DEF IInv, RetiredOK, Retired, Unpointed, Unpinned, Pinned, InUseStaysActive
<1> QED BY <1>1, Invariance, PTL

\* The newest entry of a history is what a bare rollback has to restore, unless the last
\* change of the pointer was made on a stale copy (store_postgres.py env_set_current).
THEOREM HistoryUndoes == Spec => []RollbackUndoesLastChange
<1>1. IInv => RollbackUndoesLastChange BY DEF IInv, UndoOK, RollbackUndoesLastChange
<1> QED BY <1>1, Invariance, PTL

-----------------------------------------------------------------------------
(* Guards. *)

Row == [policy : Policy \cup Guards \cup {None}, version : Nat]

Put == {NoPut} \cup [pc : {"write", "log"}, agent : Agent, policy : Policy,
                     to : Agent \cup {"file"}, version : Nat]

\* A writer writes the row of its agent, or the file, which has no trail.
PutOK(p) ==
  /\ p.pc # "idle" => p.to \in {p.agent, "file"}
  /\ p.pc = "log" => p.to = p.agent

Asked == [kind : Traffic, site : Site, key : Key,
          pc : {"key", "judge", "again", "check", "send", "service"}]
Unasked == [pc : {"idle"}, kind : Traffic \cup {"none"}]

GuardTyped ==
  /\ conf \in [mediated : BOOLEAN, inProject : BOOLEAN, restricted : BOOLEAN]
  /\ guard \in [Key -> Row]
  /\ gate \in [Key -> Gates \cup Guards \cup {None}]
  /\ put \in [Api -> Put] /\ \A w \in Api : PutOK(put[w])
  /\ request \in [Agent -> Asked \cup Unasked]
  /\ done \in [Agent -> {"none", "sent", "refused"}] /\ wasFine \in [Agent -> BOOLEAN]
  /\ faults \in Nat /\ deaths \in Nat

LEMMA GuardInitTyped == GuardInit => GuardTyped
<1> SUFFICES ASSUME GuardInit PROVE GuardTyped
  OBVIOUS
<1>1. PICK p \in Guards : guard = [k \in Key |-> IF k = Shared /\ p # None
                                     THEN [policy |-> p, version |-> 1] ELSE NoRow]
  BY DEF GuardInit
<1>2. guard \in [Key -> Row] BY <1>1 DEF NoRow, Row
<1>3. gate \in [Key -> Gates \cup Guards \cup {None}] BY DEF GuardInit
<1>4. put \in [Api -> Put] /\ \A w \in Api : PutOK(put[w]) BY DEF GuardInit, NoPut, Put, PutOK
<1>5. request \in [Agent -> Asked \cup Unasked] BY DEF GuardInit, NoReq, Unasked
<1> QED BY <1>2, <1>3, <1>4, <1>5 DEF GuardTyped, GuardInit

\* Writers leave the requests alone, but for what governs them meanwhile.
LEMMA WritersTyped ==
  ASSUME GuardTyped, NEW w \in Api, Writes(w)
  PROVE  GuardTyped'
<1>1. ASSUME NEW a \in Agent, NEW p \in Policy, PutGuard(w, a, p) PROVE GuardTyped'
  <2> DEFINE n == IF WriteKey(a) = "file" THEN 0 ELSE guard[WriteKey(a)].version
             x == [pc |-> "write", agent |-> a, policy |-> p, to |-> WriteKey(a), version |-> n]
  <2>1. WriteKey(a) \in {a, "file"} BY DEF WriteKey
  <2>2. n \in Nat BY <2>1 DEF GuardTyped, Key, Row
  <2>3. put' = [put EXCEPT ![w] = x] BY <1>1 DEF PutGuard
  <2> HIDE DEF n
  <2>4. x \in Put /\ PutOK(x) BY <2>1, <2>2 DEF Put, PutOK
  <2> HIDE DEF x
  <2>5. put' \in [Api -> Put] /\ \A v \in Api : PutOK(put'[v])
    BY <2>3, <2>4 DEF GuardTyped
  <2> QED BY <1>1, <2>5 DEF PutGuard, GuardTyped, PutOK, asking
<1>2. CASE WriteGuard(w)
  <2>1. put[w] \in Put /\ PutOK(put[w]) /\ put[w].pc = "write" BY <1>2 DEF GuardTyped, WriteGuard
  <2>2. put[w] \in [pc : {"write", "log"}, agent : Agent, policy : Policy,
                    to : Agent \cup {"file"}, version : Nat]
    BY <2>1 DEF Put, NoPut
  <2>3. wasFine' \in [Agent -> BOOLEAN]
    <3>1. \A a \in Agent : (wasFine[a] \/ (request[a].pc # "idle" /\ Passes(InForce(a)', request[a].site))) \in BOOLEAN
      OBVIOUS
    <3> QED BY <1>2, <3>1 DEF WriteGuard
  <2>4. CASE put[w].to = "file"
    <3>1. put' = [put EXCEPT ![w] = NoPut] /\ guard' = guard BY <1>2, <2>4 DEF WriteGuard
    <3>2. put' \in [Api -> Put] /\ \A v \in Api : PutOK(put'[v])
      BY <3>1 DEF GuardTyped, Put, PutOK, NoPut
    <3> QED BY <1>2, <2>3, <3>1, <3>2 DEF WriteGuard, GuardTyped, PutOK
  <2>5. CASE put[w].to # "file"
    <3> DEFINE n == NextVersion(w)
               x == [put[w] EXCEPT !.pc = "log", !.version = n]
               r == [policy |-> put[w].policy, version |-> n]
    <3>1. put[w].to \in Agent /\ put[w].to \in Key /\ put[w].to = put[w].agent
      BY <2>1, <2>2, <2>5 DEF PutOK, Key
    <3>2. n \in Nat BY <3>1 DEF NextVersion, GuardTyped, Row
    <3>3. put' = [put EXCEPT ![w] = x] /\ guard' = [guard EXCEPT ![put[w].to] = r]
      BY <1>2, <2>5 DEF WriteGuard, GuardTyped
    <3> HIDE DEF n
    <3>4. x \in Put /\ PutOK(x) BY <2>2, <3>1, <3>2 DEF Put, PutOK
    <3>5. r \in Row BY <2>2, <3>2 DEF Row
    <3> HIDE DEF x, r
    <3>6. put' \in [Api -> Put] /\ (\A v \in Api : PutOK(put'[v])) /\ guard' \in [Key -> Row]
      BY <3>1, <3>3, <3>4, <3>5 DEF GuardTyped
    <3> QED BY <1>2, <2>3, <3>6 DEF WriteGuard, GuardTyped, PutOK
  <2> QED BY <2>4, <2>5
<1>3. CASE AppendLog(w) \/ WriterDies(w)
  <2>1. put' = [put EXCEPT ![w] = NoPut] /\ deaths' \in Nat
    BY <1>3 DEF AppendLog, WriterDies, GuardTyped
  <2>2. put' \in [Api -> Put] /\ \A v \in Api : PutOK(put'[v])
    BY <2>1 DEF GuardTyped, Put, PutOK, NoPut
  <2> QED BY <1>3, <2>1, <2>2 DEF AppendLog, WriterDies, GuardTyped, PutOK, asking
<1> QED BY <1>1, <1>2, <1>3 DEF Writes

\* A gate is one row.
LEMMA EditGateTyped ==
  ASSUME GuardTyped, NEW a \in Agent, NEW p \in Gates, EditGate(a, p)
  PROVE  GuardTyped'
BY DEF EditGate, GuardTyped, PutOK, asking, Key

-----------------------------------------------------------------------------
(* Requests. *)

\* What is known of the request of an agent, and of the service kept for it.
Serviced(a) ==
  service[a] = NoService \/ \E t : service[a] = [is |-> TRUE, tag |-> t, hosts |-> PostureHosts(t)]

OnItsWay(a) ==
  /\ request[a].pc \in {"key", "judge"} => conf.mediated
  /\ request[a].pc = "send" => request[a].kind = "tool"
  /\ request[a].pc \in {"again", "check", "service"} => request[a].kind = "fetch"
  /\ request[a].pc \in {"again", "check"} /\ conf.restricted => service[a].is

\* While no read fails and no file is in the way: a policy that governs the agent and
\* allows the site has been noticed; the key in hand is one whose policy governs the
\* agent, or is the shared one, which nobody writes, and was asked for when it governed.
Noticed(a) ==
  faults = 0 /\ ~conf.inProject =>
    /\ request[a].pc # "idle" /\ Passes(InForce(a), request[a].site) => wasFine[a]
    /\ request[a].pc \in {"judge", "check"} =>
         \/ request[a].key = a /\ guard[a].policy # None
         \/ request[a].key = Shared /\ (Passes(Resolved(Shared), request[a].site) => wasFine[a])
    /\ request[a].pc = "send" /\ conf.mediated => wasFine[a]
    /\ done[a] = "sent" /\ (conf.mediated \/ request[a].kind = "fetch") => wasFine[a]

GuardInv ==
  /\ GuardTyped
  /\ service = [a \in Agent |-> service[a]]
  /\ \A a \in Agent : Serviced(a) /\ OnItsWay(a) /\ Noticed(a)
  /\ BlamedRightly

LEMMA InitGuardInv == GuardInit => GuardInv
<1> SUFFICES ASSUME GuardInit PROVE GuardInv
  OBVIOUS
<1>1. GuardTyped BY GuardInitTyped
<1>2. service = [a \in Agent |-> service[a]] /\ \A a \in Agent : service[a] = NoService
  BY DEF GuardInit
<1>3. \A a \in Agent : request[a].pc = "idle" /\ done[a] = "none" BY DEF GuardInit, NoReq
<1>4. BlamedRightly BY DEF GuardInit, BlamedRightly
<1> QED BY <1>1, <1>2, <1>3, <1>4 DEF GuardInv, Serviced, OnItsWay, Noticed

\* What a writer does to a request: the policy may change, and is then noticed.
LEMMA WritersKeep ==
  ASSUME GuardInv, NEW w \in Api, Writes(w)
  PROVE  GuardInv'
<1>1. GuardTyped /\ GuardTyped' BY WritersTyped DEF GuardInv
<1>2. UNCHANGED <<conf, request, service, diverged, done, faults>>
  BY DEF Writes, PutGuard, WriteGuard, AppendLog, WriterDies, asking
<1>3. \A a \in Agent : Serviced(a)' /\ OnItsWay(a)'
  BY <1>2 DEF GuardInv, Serviced, OnItsWay
<1>4. ASSUME NEW a \in Agent PROVE Noticed(a)'
  <2> SUFFICES ASSUME faults = 0, ~conf.inProject
               PROVE  /\ request[a].pc # "idle" /\ Passes(InForce(a)', request[a].site) => wasFine'[a]
                      /\ request[a].pc \in {"judge", "check"} =>
                           \/ request[a].key = a /\ guard'[a].policy # None
                           \/ /\ request[a].key = Shared
                              /\ (Passes(Resolved(Shared)', request[a].site) => wasFine'[a])
                      /\ request[a].pc = "send" /\ conf.mediated => wasFine'[a]
                      /\ done[a] = "sent" /\ (conf.mediated \/ request[a].kind = "fetch") => wasFine'[a]
    BY <1>2 DEF Noticed
  <2>1. Noticed(a) BY DEF GuardInv
  <2>2. CASE ~WriteGuard(w)
    <3>1. UNCHANGED <<guard, file, wasFine>>
      BY <2>2 DEF Writes, PutGuard, AppendLog, WriterDies, asking
    <3>2. InForce(a)' = InForce(a) /\ Resolved(Shared)' = Resolved(Shared)
      BY <1>2, <3>1 DEF InForce, Resolved, Ambient
    <3> QED BY <2>1, <3>1, <3>2 DEF Noticed
  <2>3. CASE WriteGuard(w)
    <3>1. wasFine'[a] = (wasFine[a] \/ (request[a].pc # "idle" /\ Passes(InForce(a)', request[a].site)))
      BY <2>3 DEF WriteGuard
    <3>2. guard'[Shared].policy = guard[Shared].policy /\ Resolved(Shared)' = Resolved(Shared)
          /\ (guard[a].policy # None => guard'[a].policy # None)
      <4>1. put[w] \in Put /\ PutOK(put[w]) /\ put[w].pc = "write" BY <1>1, <2>3 DEF GuardTyped, WriteGuard
      <4>2. put[w].agent \in Agent /\ put[w].policy \in Policy /\ put[w].to \in Agent \cup {"file"}
        BY <4>1 DEF Put, NoPut
      <4>3. put[w].policy # None /\ Shared \notin Agent \cup {"file"}
        <5>1. None \notin Policy BY GovernanceAssumption
        <5>2. Shared \notin Agent \cup {"file"} BY GovernanceAssumption
        <5> QED BY <4>2, <5>1, <5>2
      <4>4. guard \in [Key -> Row] /\ Shared \in Key /\ a \in Key BY <1>1 DEF GuardTyped, Key
      <4>5. \/ guard' = guard
            \/ guard' = [guard EXCEPT ![put[w].to] = [policy |-> put[w].policy, version |-> NextVersion(w)]]
        BY <2>3 DEF WriteGuard
      <4>6. guard'[Shared] = guard[Shared] BY <4>2, <4>3, <4>4, <4>5
      <4>7. guard'[a].policy \in {guard[a].policy, put[w].policy} BY <4>4, <4>5
      <4> QED BY <1>2, <4>3, <4>6, <4>7 DEF Resolved, Ambient
    <3> QED BY <2>1, <3>1, <3>2 DEF Noticed
  <2> QED BY <2>2, <2>3
<1>5. BlamedRightly' BY <1>2 DEF GuardInv, BlamedRightly
<1> QED BY <1>1, <1>2, <1>3, <1>4, <1>5 DEF GuardInv

\* Nor does a gate touch a request.
LEMMA EditGateKeeps ==
  ASSUME GuardInv, NEW a \in Agent, NEW p \in Gates, EditGate(a, p)
  PROVE  GuardInv'
<1>1. GuardTyped /\ GuardTyped' BY EditGateTyped DEF GuardInv
<1>2. UNCHANGED <<conf, guard, file, request, service, diverged, done, wasFine, faults>>
  BY DEF EditGate, asking
<1>3. \A b \in Agent : InForce(b)' = InForce(b) /\ Resolved(Shared)' = Resolved(Shared)
  BY <1>2 DEF InForce, Resolved, Ambient
<1>4. \A b \in Agent : Serviced(b)' /\ OnItsWay(b)' /\ Noticed(b)'
  BY <1>2, <1>3 DEF GuardInv, Serviced, OnItsWay, Noticed
<1>5. BlamedRightly' BY <1>2 DEF GuardInv, BlamedRightly
<1> QED BY <1>1, <1>2, <1>4, <1>5 DEF GuardInv

\* A step of one request: what it has to show.
LEMMA OneRequest ==
  ASSUME GuardInv, NEW a \in Agent,
         NEW q \in Asked \cup Unasked, request' = [request EXCEPT ![a] = q],
         NEW d \in {"none", "sent", "refused"}, done' = [done EXCEPT ![a] = d],
         NEW f \in BOOLEAN, wasFine' = [wasFine EXCEPT ![a] = f],
         NEW s, service' = [service EXCEPT ![a] = s],
         UNCHANGED <<conf, rows, deaths>>,
         faults' \in Nat, faults' = 0 => faults = 0,
         Serviced(a)', OnItsWay(a)', Noticed(a)', BlamedRightly'
  PROVE  GuardInv'
<1>1. GuardTyped BY DEF GuardInv
<1>2. GuardTyped'
  <2>1. request' \in [Agent -> Asked \cup Unasked] /\ done' \in [Agent -> {"none", "sent", "refused"}]
        /\ wasFine' \in [Agent -> BOOLEAN]
    BY <1>1 DEF GuardTyped
  <2> QED BY <1>1, <2>1 DEF GuardTyped, PutOK, rows
<1>3. service' = [b \in Agent |-> service'[b]]
  <2> DEFINE c == service
  <2>1. c = [b \in Agent |-> c[b]] /\ service' = [c EXCEPT ![a] = s] BY DEF GuardInv
  <2> HIDE DEF c
  <2> QED BY <2>1
<1>4. ASSUME NEW b \in Agent, b # a PROVE Serviced(b)' /\ OnItsWay(b)' /\ Noticed(b)'
  <2>1. request'[b] = request[b] /\ done'[b] = done[b] /\ wasFine'[b] = wasFine[b]
        /\ service'[b] = service[b]
    BY <1>1, <1>4 DEF GuardTyped, GuardInv
  <2>2. InForce(b)' = InForce(b) /\ Resolved(Shared)' = Resolved(Shared)
    BY DEF InForce, Resolved, Ambient, rows
  <2>3. Serviced(b) /\ OnItsWay(b) /\ Noticed(b) BY DEF GuardInv
  <2>4. guard' = guard /\ conf' = conf BY DEF rows
  <2>5. Serviced(b)' BY <2>1, <2>3 DEF Serviced
  <2>6. OnItsWay(b)' BY <2>1, <2>3, <2>4 DEF OnItsWay
  <2>7. Noticed(b)' BY <2>1, <2>2, <2>3, <2>4 DEF Noticed
  <2> QED BY <2>5, <2>6, <2>7
<1> QED BY <1>2, <1>3, <1>4 DEF GuardInv

LEMMA RequestOf ==
  ASSUME GuardInv, NEW a \in Agent
  PROVE  /\ request[a] \in Asked \cup Unasked /\ done[a] \in {"none", "sent", "refused"}
         /\ wasFine[a] \in BOOLEAN /\ faults \in Nat
         /\ conf \in [mediated : BOOLEAN, inProject : BOOLEAN, restricted : BOOLEAN]
         /\ request[a].pc # "idle" => request[a] \in Asked
         /\ Serviced(a) /\ OnItsWay(a) /\ Noticed(a)
         /\ request = [request EXCEPT ![a] = request[a]]
         /\ done = [done EXCEPT ![a] = done[a]]
         /\ wasFine = [wasFine EXCEPT ![a] = wasFine[a]]
         /\ service = [service EXCEPT ![a] = service[a]]
<1>1. GuardTyped BY DEF GuardInv
<1>2. /\ request[a] \in Asked \cup Unasked /\ done[a] \in {"none", "sent", "refused"}
      /\ wasFine[a] \in BOOLEAN /\ faults \in Nat
      /\ conf \in [mediated : BOOLEAN, inProject : BOOLEAN, restricted : BOOLEAN]
  BY <1>1 DEF GuardTyped
<1>3. request[a].pc # "idle" => request[a] \in Asked BY <1>2 DEF Unasked
<1>4. /\ request = [request EXCEPT ![a] = request[a]]
      /\ done = [done EXCEPT ![a] = done[a]]
      /\ wasFine = [wasFine EXCEPT ![a] = wasFine[a]]
  BY <1>1 DEF GuardTyped
<1>5. service = [service EXCEPT ![a] = service[a]]
  BY DEF GuardInv
<1> QED BY <1>2, <1>3, <1>4, <1>5 DEF GuardInv

\* Reads change no policy.
LEMMA SamePolicies ==
  ASSUME UNCHANGED <<conf, rows>>
  PROVE  /\ \A a : InForce(a)' = InForce(a)
         /\ \A k : Resolved(k)' = Resolved(k) /\ guard' = guard /\ conf' = conf
BY DEF InForce, Resolved, Ambient, rows

\* A policy read under the key in hand, and that allows the site, has been noticed.
LEMMA AllowedIsNoticed ==
  ASSUME GuardInv, NEW a \in Agent, request[a].pc \in {"judge", "check"},
         faults = 0, ~conf.inProject, Passes(Resolved(request[a].key), request[a].site)
  PROVE  wasFine[a]
<1>1. Noticed(a) BY DEF GuardInv
<1>2. CASE request[a].key = a /\ guard[a].policy # None
  <2>1. InForce(a) = Resolved(request[a].key) BY <1>2 DEF InForce
  <2> QED BY <1>1, <2>1 DEF Noticed
<1>3. CASE request[a].key = Shared /\ (Passes(Resolved(Shared), request[a].site) => wasFine[a])
  BY <1>3
<1> QED BY <1>1, <1>2, <1>3 DEF Noticed

LEMMA AskKeeps ==
  ASSUME GuardInv, NEW a \in Agent, NEW kind \in Traffic, NEW s \in Site,
         Ask(a, kind, s)
  PROVE  GuardInv'
<1> DEFINE pc == IF conf.mediated THEN "key" ELSE IF kind = "tool" THEN "send" ELSE AfterJudging(a)
           q == [kind |-> kind, site |-> s, key |-> a, pc |-> pc]
           f == Passes(InForce(a), s)
<1>1. pc \in {"key", "send", "service", "again"} BY DEF AfterJudging
<1>2. /\ pc = "key" => conf.mediated
      /\ pc = "send" => ~conf.mediated /\ kind = "tool"
      /\ pc \in {"again", "service"} => kind = "fetch"
      /\ pc = "again" /\ conf.restricted => service[a].is
  BY GovernanceAssumption DEF AfterJudging
<1>3. request' = [request EXCEPT ![a] = q] /\ wasFine' = [wasFine EXCEPT ![a] = f]
      /\ done' = [done EXCEPT ![a] = "none"] /\ service' = service /\ diverged' = diverged
      /\ UNCHANGED <<conf, rows, deaths, faults>>
  BY DEF Ask
<1> HIDE DEF pc
<1>4. q \in Asked /\ f \in BOOLEAN BY <1>1 DEF Asked, Key, Passes, Evaluate
<1>5. /\ request'[a] = q /\ wasFine'[a] = f /\ done'[a] = "none"
      /\ service' = [service EXCEPT ![a] = service[a]]
  BY <1>3, <1>4, RequestOf DEF GuardInv, GuardTyped
<1>6. InForce(a)' = InForce(a) BY <1>3, SamePolicies
<1> HIDE DEF f
<1>7. Serviced(a)' BY <1>3, RequestOf DEF Serviced
<1>8. OnItsWay(a)' BY <1>1, <1>2, <1>3, <1>5 DEF OnItsWay
<1>9. Noticed(a)' BY <1>1, <1>2, <1>3, <1>5, <1>6 DEF Noticed, f
<1>10. BlamedRightly' BY <1>3 DEF GuardInv, BlamedRightly
<1> HIDE DEF q
<1> QED BY <1>3, <1>4, <1>5, <1>7, <1>8, <1>9, <1>10, RequestOf, OneRequest

\* What the reads of a request have in common.
LEMMA ReadsCount ==
  ASSUME GuardInv, NEW failing \in Failing, Counts(failing)
  PROVE  faults' \in Nat /\ (faults' = 0 => faults = 0 /\ ~failing)
<1>1. faults \in Nat /\ failing \in BOOLEAN BY DEF GuardInv, GuardTyped, Failing
<1> QED BY <1>1 DEF Counts

LEMMA ReadsKeyKeeps ==
  ASSUME GuardInv, NEW a \in Agent, ReadsKey(a)
  PROVE  GuardInv'
<1>1. PICK failing \in Failing :
        /\ Counts(failing)
        /\ request' = [request EXCEPT ![a].key = IF failing THEN a ELSE StoreKeyFor(a),
                                      ![a].pc = IF request[a].pc = "key" THEN "judge" ELSE "check"]
  BY DEF ReadsKey
<1> DEFINE key == IF failing THEN a ELSE StoreKeyFor(a)
           pc == IF request[a].pc = "key" THEN "judge" ELSE "check"
           q == [request[a] EXCEPT !.key = key, !.pc = pc]
<1>2. request[a] \in Asked /\ request[a].pc \in {"key", "again"} BY RequestOf DEF ReadsKey
<1>3. request' = [request EXCEPT ![a] = q]
  <2>1. request \in [Agent -> Asked \cup Unasked] BY DEF GuardInv, GuardTyped
  <2> QED BY <1>1, <2>1
<1>4. UNCHANGED <<conf, rows, deaths, wasFine, service, diverged, done>>
  BY DEF ReadsKey, RestStays
<1>5. /\ key \in Key
      /\ ~failing => \/ key = a /\ guard[a].policy # None
                     \/ key = Shared /\ guard[a].policy = None
  BY DEF StoreKeyFor, Key
<1>6. pc \in {"judge", "check"} /\ (pc = "judge" => request[a].pc = "key")
      /\ (pc = "check" => request[a].pc = "again")
  BY <1>2
<1> HIDE DEF key, pc
<1>7. q \in Asked /\ q.pc = pc /\ q.key = key /\ q.site = request[a].site /\ q.kind = request[a].kind
  BY <1>2, <1>5, <1>6 DEF Asked
<1> HIDE DEF q
<1>8. request'[a] = q BY <1>3 DEF GuardInv, GuardTyped
<1>9. Serviced(a) /\ OnItsWay(a) /\ Noticed(a) BY RequestOf
<1>10. Serviced(a)' BY <1>4, <1>9 DEF Serviced
<1>11. OnItsWay(a)' BY <1>4, <1>6, <1>7, <1>8, <1>9 DEF OnItsWay
<1>12. Noticed(a)'
  <2>1. InForce(a)' = InForce(a) /\ Resolved(Shared)' = Resolved(Shared) /\ guard' = guard
    BY <1>4, SamePolicies
  <2>2. faults' = 0 => faults = 0 /\ ~failing BY <1>1, ReadsCount
  <2>3. guard[a].policy = None => InForce(a) = Resolved(Shared) BY DEF InForce
  <2> QED BY <1>2, <1>4, <1>5, <1>6, <1>7, <1>8, <1>9, <2>1, <2>2, <2>3 DEF Noticed
<1>13. BlamedRightly' BY <1>4 DEF GuardInv, BlamedRightly
<1> QED BY <1>1, <1>3, <1>4, <1>7, <1>10, <1>11, <1>12, <1>13, RequestOf, OneRequest, ReadsCount

\* A request that goes on to its next read, or ends.
LEMMA EndsKeeps ==
  ASSUME GuardInv, NEW a \in Agent, request[a].pc # "idle",
         NEW sent \in BOOLEAN, Ends(a, sent),
         UNCHANGED <<conf, rows, wasFine, deaths>>, faults' \in Nat, faults' = 0 => faults = 0,
         BlamedRightly',
         sent /\ faults' = 0 /\ ~conf.inProject /\ (conf.mediated \/ request[a].kind = "fetch")
           => wasFine[a]
  PROVE  GuardInv'
<1> DEFINE q == NoReq(request[a].kind)
           d == IF sent THEN "sent" ELSE "refused"
           s == IF conf.mediated THEN service[a] ELSE NoService
<1>1. request[a] \in Asked BY RequestOf
<1>2. q \in Unasked /\ q.pc = "idle" /\ q.kind = request[a].kind BY <1>1 DEF NoReq, Unasked, Asked
<1>3. request' = [request EXCEPT ![a] = q] /\ done' = [done EXCEPT ![a] = d]
      /\ service' = [service EXCEPT ![a] = s]
  BY RequestOf DEF Ends
<1>4. /\ d \in {"none", "sent", "refused"} /\ (d = "sent" => sent)
      /\ s = service[a] \/ s = NoService
  OBVIOUS
<1> HIDE DEF q, d, s
<1>5. request'[a] = q /\ done'[a] = d /\ service'[a] = s
  BY <1>3 DEF GuardInv, GuardTyped
<1>6. Serviced(a)'
  <2>1. Serviced(a) BY RequestOf
  <2>2. CASE s = NoService BY <1>5, <2>2 DEF Serviced
  <2>3. CASE s = service[a] BY <1>5, <2>1, <2>3 DEF Serviced
  <2> QED BY <1>4, <2>2, <2>3
<1>7. OnItsWay(a)' BY <1>2, <1>5 DEF OnItsWay
<1>8. Noticed(a)' BY <1>2, <1>4, <1>5 DEF Noticed
<1> QED BY <1>2, <1>3, <1>4, <1>6, <1>7, <1>8, RequestOf, OneRequest

LEMMA GoesOnKeeps ==
  ASSUME GuardInv, NEW a \in Agent, request[a].pc # "idle",
         NEW pc \in {"again", "service", "send"}, Set(a, pc),
         NEW s, service' = [service EXCEPT ![a] = s], Serviced(a)',
         pc = "again" /\ conf.restricted => s.is,
         pc = "send" => /\ request[a].kind = "tool"
                        /\ faults' = 0 /\ ~conf.inProject => wasFine[a],
         pc # "send" => request[a].kind = "fetch",
         UNCHANGED <<conf, rows, wasFine, deaths, done, diverged>>,
         faults' \in Nat, faults' = 0 => faults = 0
  PROVE  GuardInv'
<1> DEFINE q == [request[a] EXCEPT !.pc = pc]
<1>1. request[a] \in Asked BY RequestOf
<1>2. q \in Asked /\ q.pc = pc /\ q.kind = request[a].kind /\ q.site = request[a].site
  BY <1>1 DEF Asked
<1>3. request' = [request EXCEPT ![a] = q] BY DEF Set, GuardInv, GuardTyped
<1> HIDE DEF q
<1>4. request'[a] = q /\ service'[a] = s BY <1>3 DEF GuardInv, GuardTyped
<1>5. OnItsWay(a)' BY <1>2, <1>4 DEF OnItsWay
<1>6. Noticed(a)'
  <2>1. InForce(a)' = InForce(a) BY SamePolicies
  <2> QED BY <1>2, <1>4, <2>1, RequestOf DEF Noticed
<1>7. BlamedRightly' BY DEF GuardInv, BlamedRightly
<1> QED BY <1>2, <1>3, <1>5, <1>6, <1>7, RequestOf, OneRequest

LEMMA JudgesKeep ==
  ASSUME GuardInv, NEW a \in Agent, ToTheTool(a) \/ ToTheService(a)
  PROVE  GuardInv'
<1> DEFINE next == IF request[a].kind = "tool" THEN "send" ELSE AfterJudging(a)
<1>1. /\ request[a].pc = "judge" /\ UNCHANGED <<conf, rows, wasFine, deaths, diverged>>
      /\ request[a].kind \in {"tool", "fetch"}
  BY DEF ToTheTool, ToTheService, Judges, RestStays
<1>2. PICK failing \in Failing :
        /\ Counts(failing)
        /\ IF Passes(Read(request[a].key, failing), request[a].site)
           THEN Set(a, next) /\ UNCHANGED <<service, done>>
           ELSE Ends(a, FALSE)
  BY DEF ToTheTool, ToTheService, Judges
<1>3. faults' \in Nat /\ (faults' = 0 => faults = 0 /\ ~failing) BY <1>2, ReadsCount
<1>4. CASE Passes(Read(request[a].key, failing), request[a].site)
  <2>1. Set(a, next) /\ service' = service /\ done' = done BY <1>2, <1>4
  <2>2. service' = [service EXCEPT ![a] = service[a]] /\ Serviced(a)'
    BY <2>1, RequestOf DEF Serviced
  <2>3. /\ next \in {"again", "service", "send"}
        /\ next = "again" /\ conf.restricted => service[a].is
        /\ next = "send" => request[a].kind = "tool"
        /\ next # "send" => request[a].kind = "fetch"
    BY <1>1 DEF AfterJudging
  <2>4. faults' = 0 /\ ~conf.inProject => wasFine[a]
    BY <1>1, <1>3, <1>4, AllowedIsNoticed DEF Read
  <2> HIDE DEF next
  <2> QED BY <1>1, <1>3, <2>1, <2>2, <2>3, <2>4, GoesOnKeeps
<1>5. CASE ~Passes(Read(request[a].key, failing), request[a].site)
  <2>1. Ends(a, FALSE) BY <1>2, <1>5
  <2>2. BlamedRightly' BY <1>1 DEF GuardInv, BlamedRightly
  <2> QED BY <1>1, <1>3, <2>1, <2>2, EndsKeeps
<1> QED BY <1>4, <1>5

LEMMA SendsToolKeeps ==
  ASSUME GuardInv, NEW a \in Agent, SendsTool(a)
  PROVE  GuardInv'
<1> DEFINE sent == Passes(Ambient, request[a].site)
<1>1. /\ request[a].pc = "send" /\ Ends(a, sent)
      /\ UNCHANGED <<conf, rows, wasFine, deaths, diverged, faults>>
  BY DEF SendsTool, RestStays
<1>2. sent \in BOOLEAN BY DEF Passes, Evaluate
<1>3. faults = 0 /\ ~conf.inProject /\ (conf.mediated \/ request[a].kind = "fetch") => wasFine[a]
  BY <1>1, RequestOf DEF OnItsWay, Noticed
<1>4. BlamedRightly' BY <1>1 DEF GuardInv, BlamedRightly
<1> HIDE DEF sent
<1> QED BY <1>1, <1>2, <1>3, <1>4, RequestOf, EndsKeeps

\* A posture knows the policy it was made of by its tag; one that could not be read
\* names no host.
LEMMA MakesServiceKeeps ==
  ASSUME GuardInv, NEW a \in Agent, MakesService(a)
  PROVE  GuardInv'
<1>1. /\ request[a].pc = "service" /\ Set(a, "again")
      /\ UNCHANGED <<conf, rows, wasFine, deaths, diverged, done>>
  BY DEF MakesService, RestStays
<1>2. PICK failing \in Failing :
        /\ Counts(failing)
        /\ service' = [service EXCEPT ![a] =
             [is |-> TRUE, tag |-> Tag(Read(Shared, failing)),
              hosts |-> PostureHosts(Read(Shared, failing))]]
  BY DEF MakesService
<1> DEFINE p == Read(Shared, failing)
           s == [is |-> TRUE, tag |-> Tag(p), hosts |-> PostureHosts(p)]
<1>3. faults' \in Nat /\ (faults' = 0 => faults = 0) BY <1>2, ReadsCount
<1>4. service' = [service EXCEPT ![a] = s] BY <1>2
<1> HIDE DEF p
<1>5. PostureHosts(p) = PostureHosts(Tag(p)) BY DEF PostureHosts, Tag
<1>6. service'[a] = s BY <1>4 DEF GuardInv
<1>7. Serviced(a)' BY <1>5, <1>6 DEF Serviced
<1>8. s.is OBVIOUS
<1>9. request[a].kind = "fetch" BY <1>1, RequestOf DEF OnItsWay
<1> HIDE DEF s
<1> QED BY <1>1, <1>3, <1>4, <1>7, <1>8, <1>9, GoesOnKeeps

\* What the network stops and the policy allows is about a rule without a host; what it
\* lets pass is a host of an allow rule.
LEMMA FetchesBlameRightly ==
  ASSUME NEW p, NEW s \in Site, NEW net \in BOOLEAN, Evaluate(p, s) # net,
         p # None, p # Closed, net <=> HostOf[s] \in PostureHosts(p)
  PROVE  LET allows == {r \in p : r.action = "allow"} IN
         IF net THEN \E r \in allows : r.host = HostOf[s]
         ELSE \A r \in allows : s \in r.sites => r.host # HostOf[s]
<1>1. HostOf[s] # NoHost BY GovernanceAssumption
<1> QED BY <1>1 DEF PostureHosts

LEMMA FetchesKeeps ==
  ASSUME GuardInv, NEW a \in Agent, Fetches(a)
  PROVE  GuardInv'
<1> DEFINE s == request[a].site
           net == Permits(a, s)
<1>1. request[a].pc = "check" /\ UNCHANGED <<conf, rows, wasFine, deaths>>
  BY DEF Fetches, RestStays
<1>2. PICK failing \in Failing :
        LET p == Read(request[a].key, failing) IN
        /\ Counts(failing)
        /\ diverged' = IF p = None \/ Evaluate(p, s) = net THEN diverged
                       ELSE diverged \cup {[site |-> s, network |-> net, of |-> Tag(p),
                                            by |-> IF conf.restricted THEN service[a].tag ELSE None]}
        /\ Ends(a, Passes(p, s) /\ net)
  BY DEF Fetches
<1> DEFINE p == Read(request[a].key, failing)
           by == IF conf.restricted THEN service[a].tag ELSE None
<1>3. faults' \in Nat /\ (faults' = 0 => faults = 0 /\ ~failing) BY <1>2, ReadsCount
<1>4. request[a] \in Asked /\ s \in Site BY <1>1, RequestOf DEF Asked
<1>5. Serviced(a) /\ OnItsWay(a) /\ Noticed(a) BY RequestOf
<1>6. net \in BOOLEAN /\ (Passes(p, s) /\ net) \in BOOLEAN BY DEF Permits, Passes, Evaluate
<1>7. BlamedRightly'
  <2> SUFFICES ASSUME NEW d \in diverged', d.of = d.by, d.of # None
               PROVE  LET allows == {r \in d.of : r.action = "allow"} IN
                      IF d.network THEN \E r \in allows : r.host = HostOf[d.site]
                      ELSE \A r \in allows : d.site \in r.sites => r.host # HostOf[d.site]
    BY DEF BlamedRightly
  <2>1. CASE d \in diverged BY <2>1 DEF GuardInv, BlamedRightly
  <2>2. CASE d \notin diverged
    <3>1. d = [site |-> s, network |-> net, of |-> Tag(p), by |-> by]
          /\ p # None /\ Evaluate(p, s) # net
      BY <1>2, <2>2
    <3>2. p # Closed /\ Tag(p) = p BY <3>1 DEF Tag
    <3>3. conf.restricted /\ service[a].tag = p BY <3>1, <3>2
    <3>4. service[a].is BY <1>1, <1>5, <3>3 DEF OnItsWay
    <3>5. service[a].hosts = PostureHosts(p)
      <4>1. service[a] # NoService BY <3>4 DEF NoService
      <4>2. PICK t : service[a] = [is |-> TRUE, tag |-> t, hosts |-> PostureHosts(t)]
        BY <1>5, <4>1 DEF Serviced
      <4> QED BY <3>3, <4>2
    <3>6. net <=> HostOf[s] \in PostureHosts(p) BY <3>3, <3>5 DEF Permits
    <3>7. d.of = p /\ d.network = net /\ d.site = s BY <3>1, <3>2
    <3> HIDE DEF s, net, p, by
    <3> QED BY <1>4, <1>6, <3>1, <3>2, <3>6, <3>7, FetchesBlameRightly
  <2> QED BY <2>1, <2>2
<1>8. Passes(p, s) /\ faults' = 0 /\ ~conf.inProject => wasFine[a]
  BY <1>1, <1>3, AllowedIsNoticed DEF Read
<1>9. Ends(a, Passes(p, s) /\ net) BY <1>2
<1> HIDE DEF s, net, p, by
<1> QED BY <1>1, <1>3, <1>6, <1>7, <1>8, <1>9, EndsKeeps

\* What leaves no trace but in the services.
LEMMA RecycleKeeps == ASSUME GuardInv, Recycle PROVE GuardInv'
<1>1. /\ UNCHANGED <<conf, rows, wasFine, deaths, request, diverged, done, faults>>
      /\ service' = [a \in Agent |-> NoService]
      /\ \A a \in Agent : request[a].pc = "idle"
  BY DEF Recycle, RestStays
<1>2. GuardTyped' BY <1>1 DEF GuardInv, GuardTyped, PutOK, rows
<1>3. \A a \in Agent : Serviced(a)' /\ OnItsWay(a)' BY <1>1 DEF Serviced, OnItsWay
<1>4. ASSUME NEW a \in Agent PROVE Noticed(a)'
  BY <1>1, RequestOf DEF Noticed
<1>5. BlamedRightly' BY <1>1 DEF GuardInv, BlamedRightly
<1> QED BY <1>1, <1>2, <1>3, <1>4, <1>5 DEF GuardInv

LEMMA GuardKeeps == GuardInv /\ [GuardNext]_guardVars => GuardInv'
<1> SUFFICES ASSUME GuardInv, [GuardNext]_guardVars PROVE GuardInv'
  OBVIOUS
<1>1. ASSUME NEW w \in Api, Writes(w) PROVE GuardInv' BY <1>1, WritersKeep
<1>2. ASSUME NEW a \in Agent, Requests(a) PROVE GuardInv'
  BY <1>2, AskKeeps, ReadsKeyKeeps, JudgesKeep, SendsToolKeeps, MakesServiceKeeps, FetchesKeeps
  DEF Requests
<1>3. ASSUME NEW a \in Agent, NEW p \in Gates, EditGate(a, p) PROVE GuardInv' BY <1>3, EditGateKeeps
<1>4. CASE Recycle BY <1>4, RecycleKeeps
<1>5. CASE UNCHANGED guardVars
  <2>1. UNCHANGED <<conf, guard, gate, file, put, request, service, diverged, done, wasFine, faults, deaths>>
    BY <1>5 DEF guardVars, rows, asking
  <2>2. \A a \in Agent : InForce(a)' = InForce(a) /\ Resolved(Shared)' = Resolved(Shared)
    BY <2>1 DEF InForce, Resolved, Ambient
  <2>3. GuardTyped' BY <2>1 DEF GuardInv, GuardTyped, PutOK
  <2>4. \A a \in Agent : Serviced(a)' /\ OnItsWay(a)' /\ Noticed(a)'
    BY <2>1, <2>2 DEF GuardInv, Serviced, OnItsWay, Noticed
  <2>5. BlamedRightly' BY <2>1 DEF GuardInv, BlamedRightly
  <2> QED BY <2>1, <2>3, <2>4, <2>5 DEF GuardInv
<1> QED BY <1>1, <1>2, <1>3, <1>4, <1>5 DEF GuardNext

\* Nothing leaves that no policy of its time allowed, all who answer for the mounted
\* agent speak of one policy, and the two layers of enforcement disagree only about what
\* a network cannot express, whatever is written while a request is under way.
THEOREM GuardsHold == GuardSpec => []GuardHolds
<1>1. GuardInit => GuardInv BY InitGuardInv
<1>2. GuardInv /\ [GuardNext]_guardVars => GuardInv' BY GuardKeeps
<1>3. GuardInv => SentWasAllowed /\ BlamedRightly
  BY DEF GuardInv, Noticed, SentWasAllowed
<1>4. ReadersAgree
  BY GovernanceAssumption DEF ReadersAgree, ShownByApi, Source, StoreKeyFor, Effective,
     InForce, Resolved, Ambient, PolicyOfRun
<1>5. GuardInv => GuardHolds BY <1>3, <1>4 DEF GuardHolds
<1> QED BY <1>1, <1>2, <1>5, PTL DEF GuardSpec

\* What is written for one agent leaves what governs another one as it was.
THEOREM GuardsAreApart == GuardSpec => AgentsApart
<1>1. GuardInit => GuardInv BY InitGuardInv
<1>2. GuardInv /\ [GuardNext]_guardVars => GuardInv' BY GuardKeeps
<1>3. GuardInv /\ [GuardNext]_guardVars => [LeavesOthersAlone]_guardVars
  <2> SUFFICES ASSUME GuardInv, NEW a \in Agent, NEW b \in Agent, a # b, WritesFor(a), ~conf.inProject
               PROVE  PolicyOf(b)' = PolicyOf(b)
    BY DEF LeavesOthersAlone
  <2>1. GuardTyped /\ Shared \notin Agent /\ a \in Key /\ b \in Key /\ Shared \in Key
    BY GovernanceAssumption DEF GuardInv, Key
  <2>2. ASSUME NEW w \in Api, put[w].pc = "write", put[w].agent = a, WriteGuard(w)
        PROVE  PolicyOf(b)' = PolicyOf(b)
    <3>1. PutOK(put[w]) BY <2>1 DEF GuardTyped
    <3>2. put[w].to \in {a, "file"} BY <2>2, <3>1 DEF PutOK
    <3>3. \/ guard' = guard
          \/ /\ put[w].to = a
             /\ guard' = [guard EXCEPT ![put[w].to] = [policy |-> put[w].policy, version |-> NextVersion(w)]]
      BY <2>2, <3>2 DEF WriteGuard
    <3>4. guard'[b] = guard[b] /\ guard'[Shared] = guard[Shared] BY <2>1, <3>3 DEF GuardTyped
    <3>5. conf' = conf /\ gate' = gate BY <2>2 DEF WriteGuard
    <3> QED BY <3>4, <3>5 DEF PolicyOf, InForce, Resolved, Ambient, GatePolicy
  <2>3. ASSUME NEW p \in Gates, EditGate(a, p) PROVE PolicyOf(b)' = PolicyOf(b)
    <3>1. gate'[b] = gate[b] /\ gate'[Shared] = gate[Shared] BY <2>1, <2>3 DEF EditGate, GuardTyped
    <3>2. conf' = conf /\ guard' = guard /\ file' = file BY <2>3 DEF EditGate
    <3> QED BY <3>1, <3>2 DEF PolicyOf, InForce, Resolved, Ambient, GatePolicy
  <2> QED BY <2>2, <2>3 DEF WritesFor
<1> QED BY <1>1, <1>2, <1>3, PTL DEF GuardSpec, AgentsApart

-----------------------------------------------------------------------------
(* The trail. *)

\* Writer w has written version n of row k and not yet told the trail.
Owes(w, k, n) == put[w].pc = "log" /\ put[w].to = k /\ put[w].version = n

Told(k, n) == \E e \in log : e.key = k /\ e.version = n

\* While no writer is lost: every version that was written is told or owed, once, and
\* the last one is what is in force.
TrailOK ==
  deaths = 0 =>
    /\ \A e \in log : /\ e.key \in Key /\ e.version \in 1 .. guard[e.key].version
                      /\ e.version = guard[e.key].version => e.policy = guard[e.key].policy
    /\ \A e, f \in log : e.key = f.key /\ e.version = f.version => e = f
    /\ \A w \in Api, k \in Key, n \in Nat : Owes(w, k, n) =>
         /\ n \in 1 .. guard[k].version /\ ~Told(k, n)
         /\ n = guard[k].version => put[w].policy = guard[k].policy
         /\ \A v \in Api : Owes(v, k, n) => v = w
    /\ \A k \in Key : \A n \in 1 .. guard[k].version : Told(k, n) \/ \E w \in Api : Owes(w, k, n)

LEMMA InitTrail == GuardInit => TrailOK
<1> SUFFICES ASSUME GuardInit PROVE TrailOK
  OBVIOUS
<1>1. PICK p \in Guards :
        /\ guard = [k \in Key |-> IF k = Shared /\ p # None THEN [policy |-> p, version |-> 1] ELSE NoRow]
        /\ log = IF p = None THEN {} ELSE {[key |-> Shared, version |-> 1, policy |-> p]}
  BY DEF GuardInit
<1>2. \A w \in Api : put[w].pc = "idle" BY DEF GuardInit, NoPut
<1>3. Shared \in Key BY DEF Key
<1>4. ASSUME NEW k \in Key, NEW n \in 1 .. guard[k].version PROVE Told(k, n)
  <2>1. k = Shared /\ p # None /\ n = 1 BY <1>1 DEF NoRow
  <2> QED BY <1>1, <2>1 DEF Told
<1> QED BY <1>1, <1>2, <1>3, <1>4 DEF TrailOK, Owes

\* Whatever leaves rows and trail and what is owed as they are.
LEMMA TrailStays ==
  ASSUME TrailOK, UNCHANGED <<guard, log>>, deaths' = 0 => deaths = 0,
         \A w \in Api : put'[w].pc = "log" \/ put[w].pc = "log" => put'[w] = put[w]
  PROVE  TrailOK'
<1>1. \A w \in Api : \A k, n : Owes(w, k, n)' <=> Owes(w, k, n) BY DEF Owes
<1>2. \A k, n : Told(k, n)' <=> Told(k, n) BY DEF Told
<1>3. \A w \in Api : \A k, n : Owes(w, k, n) => put'[w] = put[w] BY DEF Owes
<1> QED BY <1>1, <1>2, <1>3 DEF TrailOK

LEMMA WriteTrail ==
  ASSUME GuardTyped, TrailOK, NEW w \in Api, WriteGuard(w)
  PROVE  TrailOK'
<1>1. put[w] \in Put /\ PutOK(put[w]) /\ put[w].pc = "write" BY DEF GuardTyped, WriteGuard
<1>2. put[w] \in [pc : {"write", "log"}, agent : Agent, policy : Policy,
                  to : Agent \cup {"file"}, version : Nat]
  BY <1>1 DEF Put, NoPut
<1>3. deaths' = deaths /\ log' = log BY DEF WriteGuard
<1>4. CASE put[w].to = "file"
  <2>1. put' = [put EXCEPT ![w] = NoPut] /\ guard' = guard BY <1>4 DEF WriteGuard
  <2>2. \A v \in Api : put'[v].pc = "log" \/ put[v].pc = "log" => put'[v] = put[v]
    BY <1>1, <2>1 DEF GuardTyped, NoPut
  <2> QED BY <1>3, <2>1, <2>2, TrailStays
<1>5. CASE put[w].to # "file"
  <2> DEFINE k == put[w].to
             n == guard[k].version + 1
             x == [put[w] EXCEPT !.pc = "log", !.version = n]
             r == [policy |-> put[w].policy, version |-> n]
  <2>1. k \in Key BY <1>2, <1>5 DEF Key
  <2>2. guard[k].version \in Nat /\ n \in Nat BY <2>1 DEF GuardTyped, Row
  <2>3. put' = [put EXCEPT ![w] = x] /\ guard' = [guard EXCEPT ![k] = r]
    BY <1>5 DEF WriteGuard, NextVersion, GuardTyped
  <2>4. x.pc = "log" /\ x.to = k /\ x.version = n /\ x.policy = put[w].policy
        /\ r.version = n /\ r.policy = put[w].policy
    BY <1>2
  <2>5. /\ put'[w] = x /\ \A v \in Api : v # w => put'[v] = put[v]
        /\ guard'[k] = r /\ \A j \in Key : j # k => guard'[j] = guard[j]
    BY <2>1, <2>3 DEF GuardTyped
  <2>6. \A j \in Key : guard[j].version \in Nat BY DEF GuardTyped, Row
  <2> HIDE DEF x, r, k
  <2>7. \A j, m : Told(j, m)' <=> Told(j, m) BY <1>3 DEF Told
  <2>8. \A v \in Api : \A j, m : Owes(v, j, m)' <=> IF v = w THEN j = k /\ m = n ELSE Owes(v, j, m)
    BY <2>4, <2>5 DEF Owes
  <2>9. \A j, m : ~Owes(w, j, m) BY <1>1 DEF Owes
  <2> SUFFICES ASSUME deaths = 0 PROVE TrailOK'
    BY <1>3 DEF TrailOK
  <2>10. ~Told(k, n) /\ \A v \in Api : ~Owes(v, k, n)
    <3>1. ~(n \in 1 .. guard[k].version) BY <2>2
    <3> QED BY <2>1, <2>2, <3>1 DEF TrailOK, Told
  <2>11. ASSUME NEW e \in log
         PROVE  /\ e.key \in Key /\ e.version \in 1 .. guard'[e.key].version
                /\ e.version = guard'[e.key].version => e.policy = guard'[e.key].policy
    <3>1. /\ e.key \in Key /\ e.version \in 1 .. guard[e.key].version
          /\ e.version = guard[e.key].version => e.policy = guard[e.key].policy
      BY DEF TrailOK
    <3>2. CASE e.key = k BY <2>2, <2>4, <2>5, <3>1, <3>2
    <3>3. CASE e.key # k BY <2>5, <3>1, <3>3
    <3> QED BY <3>2, <3>3
  <2>12. ASSUME NEW v \in Api, NEW j \in Key, NEW m \in Nat, Owes(v, j, m)'
         PROVE  /\ m \in 1 .. guard'[j].version /\ ~Told(j, m)
                /\ m = guard'[j].version => put'[v].policy = guard'[j].policy
                /\ \A u \in Api : Owes(u, j, m)' => u = v
    <3>1. CASE v = w BY <2>2, <2>4, <2>5, <2>8, <2>10, <2>12, <3>1
    <3>2. CASE v # w
      <4>1. Owes(v, j, m) BY <2>8, <2>12, <3>2
      <4>2. /\ m \in 1 .. guard[j].version /\ ~Told(j, m)
            /\ m = guard[j].version => put[v].policy = guard[j].policy
            /\ \A u \in Api : Owes(u, j, m) => u = v
        BY <4>1 DEF TrailOK
      <4>3. ~(j = k /\ m = n) BY <2>10, <4>1
      <4>4. CASE j = k BY <2>2, <2>4, <2>5, <2>8, <3>2, <4>2, <4>3, <4>4
      <4>5. CASE j # k BY <2>5, <2>8, <3>2, <4>2, <4>5
      <4> QED BY <4>4, <4>5
    <3> QED BY <3>1, <3>2
  <2>13. ASSUME NEW j \in Key, NEW m \in 1 .. guard'[j].version
         PROVE  Told(j, m) \/ \E v \in Api : Owes(v, j, m)'
    <3>1. CASE j = k /\ m = n BY <2>8, <3>1
    <3>2. CASE ~(j = k /\ m = n)
      <4>1. m \in 1 .. guard[j].version BY <2>2, <2>4, <2>5, <2>6, <3>2
      <4>2. Told(j, m) \/ \E v \in Api : Owes(v, j, m) BY <4>1 DEF TrailOK
      <4> QED BY <2>8, <2>9, <4>2
    <3> QED BY <3>1, <3>2
  <2>14. \A e, f \in log : e.key = f.key /\ e.version = f.version => e = f BY DEF TrailOK
  <2> QED BY <1>3, <2>7, <2>11, <2>12, <2>13, <2>14 DEF TrailOK
<1> QED BY <1>4, <1>5

LEMMA AppendTrail ==
  ASSUME GuardTyped, TrailOK, NEW w \in Api, AppendLog(w)
  PROVE  TrailOK'
<1> DEFINE k == put[w].to
           n == put[w].version
           e == [key |-> k, version |-> n, policy |-> put[w].policy]
<1>1. /\ put[w].pc = "log" /\ put' = [put EXCEPT ![w] = NoPut] /\ log' = log \cup {e}
      /\ UNCHANGED <<guard, deaths>>
  BY DEF AppendLog
<1>2. put[w] \in [pc : {"write", "log"}, agent : Agent, policy : Policy,
                  to : Agent \cup {"file"}, version : Nat] /\ PutOK(put[w])
  BY <1>1 DEF GuardTyped, Put, NoPut
<1>3. k \in Key /\ n \in Nat /\ Owes(w, k, n) BY <1>1, <1>2 DEF PutOK, Key, Owes
<1>4. \A v \in Api : \A j, m : Owes(v, j, m)' <=> v # w /\ Owes(v, j, m)
  BY <1>1 DEF Owes, GuardTyped, NoPut
<1>5. e.key = k /\ e.version = n /\ e.policy = put[w].policy OBVIOUS
<1> HIDE DEF e
<1>6. \A j, m : Told(j, m)' <=> Told(j, m) \/ (j = k /\ m = n) BY <1>1, <1>5 DEF Told
<1>7. \A v \in Api : v # w => put'[v] = put[v] BY <1>1 DEF GuardTyped
<1> SUFFICES ASSUME deaths = 0 PROVE TrailOK'
  BY <1>1 DEF TrailOK
<1>8. /\ n \in 1 .. guard[k].version /\ ~Told(k, n)
      /\ n = guard[k].version => put[w].policy = guard[k].policy
      /\ \A v \in Api : Owes(v, k, n) => v = w
  BY <1>3 DEF TrailOK
<1> HIDE DEF k, n
<1>9. \A f \in log' : /\ f.key \in Key /\ f.version \in 1 .. guard[f.key].version
                      /\ f.version = guard[f.key].version => f.policy = guard[f.key].policy
  BY <1>1, <1>3, <1>5, <1>8 DEF TrailOK
<1>10. \A f, g \in log' : f.key = g.key /\ f.version = g.version => f = g
  BY <1>1, <1>5, <1>8 DEF TrailOK, Told
<1>11. ASSUME NEW v \in Api, NEW j \in Key, NEW m \in Nat, Owes(v, j, m)'
       PROVE  /\ m \in 1 .. guard[j].version /\ ~Told(j, m)'
              /\ m = guard[j].version => put'[v].policy = guard[j].policy
              /\ \A u \in Api : Owes(u, j, m)' => u = v
  <2>1. v # w /\ Owes(v, j, m) BY <1>4, <1>11
  <2>2. ~(j = k /\ m = n) BY <1>8, <2>1
  <2> QED BY <1>4, <1>6, <1>7, <2>1, <2>2 DEF TrailOK
<1>12. ASSUME NEW j \in Key, NEW m \in 1 .. guard[j].version
       PROVE  Told(j, m)' \/ \E v \in Api : Owes(v, j, m)'
  <2>1. Told(j, m) \/ \E v \in Api : Owes(v, j, m) BY <1>12 DEF TrailOK
  <2>2. Owes(w, j, m) => j = k /\ m = n BY DEF Owes, k, n
  <2> QED BY <1>4, <1>6, <2>1, <2>2
<1> QED BY <1>1, <1>9, <1>10, <1>11, <1>12 DEF TrailOK

LEMMA TrailKeeps ==
  GuardTyped /\ TrailOK /\ [GuardNext]_guardVars => TrailOK'
<1> SUFFICES ASSUME GuardTyped, TrailOK, [GuardNext]_guardVars PROVE TrailOK'
  OBVIOUS
<1>1. ASSUME NEW w \in Api, NEW a \in Agent, NEW p \in Policy, PutGuard(w, a, p) PROVE TrailOK'
  <2>1. /\ put[w].pc = "idle" /\ UNCHANGED <<guard, log, deaths>>
        /\ \A v \in Api : v # w => put'[v] = put[v]
        /\ put'[w].pc = "write"
    BY <1>1 DEF PutGuard, GuardTyped
  <2> QED BY <2>1, TrailStays
<1>2. ASSUME NEW w \in Api, WriterDies(w) PROVE TrailOK'
  BY <1>2 DEF WriterDies, GuardTyped, TrailOK
<1>3. ASSUME NEW w \in Api, WriteGuard(w) \/ AppendLog(w) PROVE TrailOK'
  BY <1>3, WriteTrail, AppendTrail
<1>4. CASE UNCHANGED <<guard, log, put, deaths>> BY <1>4, TrailStays
<1>5. ASSUME NEW a \in Agent, Requests(a) \/ \E p \in Gates : EditGate(a, p)
      PROVE  UNCHANGED <<guard, log, put, deaths>>
  BY <1>5 DEF Requests, EditGate, Ask, ReadsKey, ToTheTool, ToTheService, Judges, SendsTool,
              MakesService, Fetches, RestStays, rows, asking
<1>6. Recycle \/ UNCHANGED guardVars => UNCHANGED <<guard, log, put, deaths>>
  BY DEF Recycle, RestStays, rows, guardVars
<1> QED BY <1>1, <1>2, <1>3, <1>4, <1>5, <1>6 DEF GuardNext, Writes

\* With no writer lost and none under way, the trail of a guard tells every version it
\* ever had once, however many api processes write in whatever order.
THEOREM TrailIsWhole == GuardSpec => []TrailTellsAll
<1>1. GuardInit => GuardInv /\ TrailOK BY InitGuardInv, InitTrail
<1>2. GuardInv /\ TrailOK /\ [GuardNext]_guardVars => (GuardInv /\ TrailOK)'
  BY GuardKeeps, TrailKeeps DEF GuardInv
<1>3. GuardInv /\ TrailOK => TrailTellsAll
  <2> SUFFICES ASSUME GuardInv, TrailOK, deaths = 0, \A w \in Api : put[w].pc # "log", NEW k \in Key
               PROVE  /\ {e.version : e \in {x \in log : x.key = k}} = 1 .. guard[k].version
                      /\ \A e \in log : e.key = k /\ e.version = guard[k].version
                                          => e.policy = guard[k].policy
                      /\ Cardinality({e \in log : e.key = k}) = guard[k].version
    BY DEF TrailTellsAll
  <2> DEFINE N == guard[k].version
             L == {e \in log : e.key = k}
  <2>1. N \in Nat BY DEF GuardInv, GuardTyped, Row
  <2>2. \A n \in 1 .. N : \E e \in L : e.version = n
    BY DEF TrailOK, Owes, Told
  <2>3. \A e \in L : e.version \in 1 .. N BY DEF TrailOK
  <2>4. \A e, f \in L : e.version = f.version => e = f BY DEF TrailOK
  <2>5. \A e \in L : e.version = N => e.policy = guard[k].policy BY DEF TrailOK
  <2>6. {e.version : e \in L} = 1 .. N BY <2>2, <2>3
  <2>7. Cardinality(L) = N
    <3> HIDE DEF L, N
    <3> DEFINE h == [n \in 1 .. N |-> CHOOSE e \in L : e.version = n]
    <3>1. \A n \in 1 .. N : h[n] \in L /\ h[n].version = n BY <2>2
    <3>2. h \in [1 .. N -> L] BY <3>1
    <3> HIDE DEF h
    <3>3. \A a, b \in 1 .. N : h[a] = h[b] => a = b BY <3>1
    <3>4. \A e \in L : \E n \in 1 .. N : h[n] = e BY <2>3, <2>4, <3>1
    <3>5. h \in Bijection(1 .. N, L) BY <3>2, <3>3, <3>4, Fun_IsBij
    <3>6. ExistsBijection(1 .. N, L) BY <3>5 DEF ExistsBijection
    <3>7. IsFiniteSet(1 .. N) /\ Cardinality(1 .. N) = N
      <4>1. IsFiniteSet(1 .. N) /\ Cardinality(1 .. N) = IF 1 > N THEN 0 ELSE N - 1 + 1
        BY <2>1, FS_Interval
      <4> QED BY <2>1, <4>1
    <3> QED BY <3>6, <3>7, FS_Bijection
  <2> QED BY <2>5, <2>6, <2>7
<1> QED BY <1>1, <1>2, <1>3, PTL DEF GuardSpec
-----------------------------------------------------------------------------
(* TenantKeys. *)

\* What process is in the middle of, by where it is.
JobSet ==
  [pc : {"idle", "find", "decide", "fetch", "load", "put", "reread", "store", "list",
         "scan", "destroy", "shred", "delete", "raised"},
   op : {"none", "login", "rotate", "reseal", "purge"}, owner : Owner,
   secret : 0 .. MaxLogins, row : 0 .. MaxRows, gen : 0 .. MaxMints, mat : 0 .. MaxMints,
   tab : [Gens -> 0 .. MaxMints], todo : SUBSET (Conns \X Owner), base : 0 .. MaxMints,
   then : BOOLEAN, cut : BOOLEAN, late : BOOLEAN]

Sealing == {"fetch", "load", "put", "reread", "store"}
Writing == {"decide"} \cup Sealing

\* Which operation is where, and what it then has in hand.
JobOK(r) ==
  /\ r.pc \in {"find", "fetch", "store"} => r.op \in {"login", "reseal"}
  /\ r.pc \in {"decide", "load", "put", "reread"} => r.op \in {"login", "reseal", "rotate"}
  /\ r.pc \in {"list", "scan"} => r.op = "reseal"
  /\ r.pc \in {"destroy", "shred", "delete"} => r.op = "purge"
  /\ r.pc \in Sealing => r.gen \in Gens
  /\ r.pc \in {"put", "reread", "store"} => r.mat # NoKey

JobsTyped == KeysTyped /\ \A p \in Proc : JobOK(job[p])

\* What a process knows of the key file.
KeyOK(r) ==
  /\ r.pc = "fetch" /\ ~r.cut => table[r.gen] # NoKey
  /\ r.pc \in {"load", "put"} /\ ~r.cut => table[r.gen] = NoKey
  /\ r.pc = "put" => /\ ~r.cut => r.tab = table
                     /\ r.mat <= minted /\ r.mat \notin Stored(table) \cup shredded
  /\ r.pc \in {"reread", "store"} => table[r.gen] = r.mat \/ r.mat \in shredded

\* As long as no key was written on an old decision.
FileInv ==
  ~rushed =>
    /\ Stored(table) \cap shredded = {} /\ Stored(table) \cup shredded \subseteq 1 .. minted
    /\ \A p \in Proc : KeyOK(job[p])
    /\ \A p, q \in Proc : job[p].pc = "put" /\ job[q].pc = "put" /\ job[p].mat = job[q].mat => p = q
    /\ \A i \in Conns : conns[i].st = "active" =>
         /\ conns[i].mat # NoKey /\ conns[i].gen \in Gens
         /\ table[conns[i].gen] = conns[i].mat \/ conns[i].mat \in shredded

\* A process that writes has found the connection it will overwrite.
Found(r) == r.pc \in Writing /\ r.op \in {"login", "reseal"}
\* It knows the connections of its owner.
RowOK(r) ==
  /\ Found(r) /\ r.row # 0 => conns[r.row].st = "absent" \/ conns[r.row].owner = r.owner
  /\ Found(r) /\ ~r.late /\ r.owner \notin stale =>
       ActiveOf(r.owner) = IF r.row = 0 THEN {} ELSE {r.row}
  /\ (r.pc = "find" \/ Found(r)) /\ r.op = "reseal" /\ ~r.late /\ r.owner \notin stale \cup borrowed =>
       r.secret = newest[r.owner]

OwnerInv ==
  /\ \A p \in Proc : RowOK(job[p])
  /\ \A p, q \in Proc : Found(job[p]) /\ Found(job[q]) /\ job[p].row = job[q].row /\ job[p].row # 0
       => job[p].owner = job[q].owner
  /\ \A o \in Owner \ stale : \A i, j \in ActiveOf(o) : i = j
  /\ NoStaleToken

OneConsole == \A p, q \in Console : p = q

\* What was chosen for a connection is the newest generation, unless the file has changed.
GenOK(r) ==
  r.op # "rotate" /\ ~r.cut =>
    /\ r.pc \in {"fetch", "reread", "store"} => r.gen = TopGen(table)
    /\ r.pc \in {"load", "put"} => r.gen = 1 /\ TopGen(table) = 0
    /\ r.pc = "put" => r.tab = table

Resealing(r) == r.op = "reseal" /\ r.pc \in {"find", "scan"} \cup Writing
Reached(r) ==
  Resealing(r) /\ ~rushed =>
    /\ TopGen(table) >= r.base
    /\ \A i \in Conns : conns[i].st = "active" /\ conns[i].owner \notin stale \cup lagging =>
         \/ conns[i].gen >= r.base
         \/ \E d \in r.todo : d[2] = conns[i].owner
         \/ r.pc # "scan" /\ r.owner = conns[i].owner
OpsOK == \A p \in Proc : job[p].op \in {"rotate", "reseal", "purge"} => p \in Console
ReachInv == OpsOK /\ \A p \in Proc : GenOK(job[p]) /\ Reached(job[p])
-----------------------------------------------------------------------------
(* Numbers: the highest generation of a file, the lowest of some ids. *)

LEMMA LowestOf ==
  ASSUME NEW N, N \subseteq Nat, N # {}
  PROVE  \E n \in N : \A m \in N : n <= m
<1> DEFINE Upto == {0 .. n : n \in N}
<1>1. Upto \subseteq FiniteSubsetsOf(Nat) /\ Upto # {}
  <2>1. \A n \in N : 0 .. n \subseteq Nat /\ IsFiniteSet(0 .. n)
    BY FS_Interval
  <2> QED BY <2>1 DEF FiniteSubsetsOf
<1>2. PICK x \in Upto : \A y \in Upto : ~(<<y, x>> \in StrictSubsetOrdering(Nat))
  <2> HIDE DEF Upto
  <2> QED BY <1>1, FS_StrictSubsetOrderingWellFounded, WFMin
<1>3. PICK n \in N : x = 0 .. n OBVIOUS
<1>4. ASSUME NEW m \in N, m < n PROVE FALSE
  <2>1. n \in Nat /\ m \in Nat OBVIOUS
  <2>2. (0 .. m) \subseteq (0 .. n) /\ (0 .. n) \subseteq Nat /\ n \in 0 .. n /\ n \notin 0 .. m
    BY <1>4, <2>1
  <2>3. <<0 .. m, 0 .. n>> \in StrictSubsetOrdering(Nat)
    BY <2>2 DEF StrictSubsetOrdering
  <2> QED BY <1>2, <1>3, <2>3
<1> QED BY <1>4

LEMMA MinIsOne ==
  ASSUME NEW N, N \subseteq Nat, N # {}
  PROVE  Min(N) \in N
BY LowestOf DEF Min

LEMMA TopIs ==
  ASSUME NEW t
  PROVE  /\ TopGen(t) \in 0 .. MaxMints
         /\ TopGen(t) # 0 => TopGen(t) \in Gens /\ t[TopGen(t)] # NoKey
         /\ \A g \in Gens : t[g] # NoKey => g <= TopGen(t)
<1> DEFINE S == {0} \cup {g \in Gens : t[g] # NoKey}
           N == {MaxMints - g : g \in S}
<1>1. MaxMints \in Nat /\ S \subseteq 0 .. MaxMints BY KeysAssumption DEF Gens
<1>2. N \subseteq Nat /\ N # {} BY <1>1
<1>3. PICK n \in N : \A m \in N : n <= m
  <2> HIDE DEF N
  <2> QED BY <1>2, LowestOf
<1>4. PICK x \in S : n = MaxMints - x OBVIOUS
<1>5. \A y \in S : MaxMints - x <= MaxMints - y BY <1>3, <1>4
<1> HIDE DEF N
<1>6. \A y \in S : x >= y BY <1>1, <1>5
<1>7. TopGen(t) \in S /\ \A y \in S : TopGen(t) >= y BY <1>6 DEF TopGen, Max
<1> QED BY <1>1, <1>7 DEF Gens
-----------------------------------------------------------------------------
(* Types. *)

LEMMA KeysInitTyped == KeysInit => JobsTyped
<1> SUFFICES ASSUME KeysInit PROVE JobsTyped
  OBVIOUS
<1>1. Common \in Owner /\ MaxMints \in Nat /\ MaxRows \in Nat /\ MaxLogins \in Nat /\ MaxResets \in Nat
  BY KeysAssumption
<1>2. NoConn \in [st : {"absent", "active", "revoked"}, owner : Owner,
                  secret : 0 .. MaxLogins, gen : 0 .. MaxMints, mat : 0 .. MaxMints]
  BY <1>1 DEF NoConn, NoKey
<1>3. AtRest \in JobSet /\ JobOK(AtRest) BY <1>1 DEF AtRest, NoKey, JobSet, JobOK, Sealing
<1>4. job \in [Proc -> JobSet] BY <1>3 DEF KeysInit
<1>5. conns \in [Conns -> [st : {"absent", "active", "revoked"}, owner : Owner,
                  secret : 0 .. MaxLogins, gen : 0 .. MaxMints, mat : 0 .. MaxMints]]
  BY <1>2 DEF KeysInit
<1>6. table \in [Gens -> 0 .. MaxMints] /\ newest \in [Owner -> 0 .. MaxLogins]
  BY <1>1 DEF KeysInit, NoKey
<1>7. /\ minted = 0 /\ logins = 0 /\ resets = 0 /\ shredded = {} /\ rushed = FALSE
      /\ stale = {} /\ borrowed = {} /\ lagging = {}
  BY DEF KeysInit
<1>8. 0 \in 0 .. MaxMints /\ 0 \in 0 .. MaxLogins /\ 0 \in 0 .. MaxResets BY <1>1
<1>9. KeysTyped BY <1>4, <1>5, <1>6, <1>7, <1>8 DEF KeysTyped, JobSet
<1>10. \A p \in Proc : JobOK(job[p]) BY <1>3 DEF KeysInit
<1> QED BY <1>9, <1>10 DEF JobsTyped

\* What others write touches two flags of a process.
LEMMA CutOrLate ==
  ASSUME NEW r \in JobSet, JobOK(r)
  PROVE  /\ [r EXCEPT !.cut = TRUE] \in JobSet /\ JobOK([r EXCEPT !.cut = TRUE])
         /\ \A o : LET l == [r EXCEPT !.late = r.late \/ r.owner = o] IN l \in JobSet /\ JobOK(l)
<1>1. [r EXCEPT !.cut = TRUE] \in JobSet BY DEF JobSet
<1>2. JobOK([r EXCEPT !.cut = TRUE]) BY DEF JobSet, JobOK
<1>3. ASSUME NEW o, NEW b \in BOOLEAN PROVE [r EXCEPT !.late = b] \in JobSet /\ JobOK([r EXCEPT !.late = b])
  BY DEF JobSet, JobOK
<1>4. \A o : (r.late \/ r.owner = o) \in BOOLEAN OBVIOUS
<1> QED BY <1>1, <1>2, <1>3, <1>4

LEMMA LateTyped ==
  ASSUME NEW r \in JobSet, JobOK(r)
  PROVE  [r EXCEPT !.late = TRUE] \in JobSet /\ JobOK([r EXCEPT !.late = TRUE])
<1>1. [r EXCEPT !.late = TRUE] \in JobSet BY DEF JobSet
<1>2. JobOK([r EXCEPT !.late = TRUE]) BY DEF JobSet, JobOK
<1> QED BY <1>1, <1>2

\* What a process learns in a step of its own; the others learn nothing.
LEMMA OneTurns ==
  ASSUME JobsTyped, NEW p \in Proc, NEW r \in JobSet, JobOK(r), Turns(p, r)
  PROVE  /\ job' \in [Proc -> JobSet] /\ \A q \in Proc : JobOK(job'[q])
         /\ job'[p] = r /\ \A q \in Proc : q # p => job'[q] = job[q]
BY DEF JobsTyped, KeysTyped, JobSet, Turns

LEMMA OneChangesFile ==
  ASSUME JobsTyped, NEW p \in Proc, NEW r \in JobSet, JobOK(r), FileChanges(p, r)
  PROVE  /\ job' \in [Proc -> JobSet] /\ \A q \in Proc : JobOK(job'[q])
         /\ job'[p] = r
         /\ \A q \in Proc : q # p => job'[q] = [job[q] EXCEPT !.cut = TRUE]
<1>1. \A q \in Proc : job[q] \in JobSet /\ JobOK(job[q]) BY DEF JobsTyped, KeysTyped, JobSet
<1>2. \A q \in Proc : [job[q] EXCEPT !.cut = TRUE] \in JobSet /\ JobOK([job[q] EXCEPT !.cut = TRUE])
  BY <1>1, CutOrLate
<1> QED BY <1>2 DEF FileChanges

LEMMA OneChangesRow ==
  ASSUME JobsTyped, NEW p \in Proc, NEW o, NEW r \in JobSet, JobOK(r), RowChanges(p, o, r)
  PROVE  /\ job' \in [Proc -> JobSet] /\ \A q \in Proc : JobOK(job'[q])
         /\ job'[p] = r
         /\ \A q \in Proc : q # p =>
              job'[q] = [job[q] EXCEPT !.late = job[q].late \/ job[q].owner = o]
<1>1. \A q \in Proc : job[q] \in JobSet /\ JobOK(job[q]) BY DEF JobsTyped, KeysTyped, JobSet
<1> DEFINE L(q) == [job[q] EXCEPT !.late = job[q].late \/ job[q].owner = o]
<1>2. \A q \in Proc : L(q) \in JobSet /\ JobOK(L(q))
  BY <1>1, CutOrLate
<1>3. job' = [q \in Proc |-> IF q = p THEN r ELSE L(q)] BY DEF RowChanges
<1> QED BY <1>2, <1>3

\* Everybody is told that a row of owner o was written.
LEMMA AllChangeRow ==
  ASSUME JobsTyped, NEW o,
         job' = [q \in Proc |-> [job[q] EXCEPT !.late = @ \/ job[q].owner = o]]
  PROVE  /\ job' \in [Proc -> JobSet] /\ \A q \in Proc : JobOK(job'[q])
         /\ \A q \in Proc : job'[q] = [job[q] EXCEPT !.late = job[q].late \/ job[q].owner = o]
<1>1. \A q \in Proc : job[q] \in JobSet /\ JobOK(job[q]) BY DEF JobsTyped, KeysTyped, JobSet
<1> DEFINE L(q) == [job[q] EXCEPT !.late = job[q].late \/ job[q].owner = o]
<1>2. \A q \in Proc : L(q) \in JobSet /\ JobOK(L(q))
  BY <1>1, CutOrLate
<1>3. job' = [q \in Proc |-> L(q)] OBVIOUS
<1> QED BY <1>2, <1>3

\* Connections and everything else but the jobs.
ConnSet == [st : {"absent", "active", "revoked"}, owner : Owner,
            secret : 0 .. MaxLogins, gen : 0 .. MaxMints, mat : 0 .. MaxMints]
RestTyped ==
  /\ table \in [Gens -> 0 .. MaxMints] /\ conns \in [Conns -> ConnSet]
  /\ minted \in 0 .. MaxMints /\ logins \in 0 .. MaxLogins /\ resets \in 0 .. MaxResets
  /\ shredded \subseteq 1 .. MaxMints /\ rushed \in BOOLEAN /\ newest \in [Owner -> 0 .. MaxLogins]
  /\ stale \subseteq Owner /\ borrowed \subseteq Owner /\ lagging \subseteq Owner

LEMMA JobsTypedIs ==
  JobsTyped <=> RestTyped /\ job \in [Proc -> JobSet] /\ \A p \in Proc : JobOK(job[p])
BY DEF JobsTyped, KeysTyped, RestTyped, JobSet, ConnSet

LEMMA AtRestTyped == AtRest \in JobSet /\ JobOK(AtRest) /\ NoConn \in ConnSet
<1>1. Common \in Owner /\ MaxMints \in Nat /\ MaxRows \in Nat /\ MaxLogins \in Nat
  BY KeysAssumption
<1> QED BY <1>1 DEF AtRest, NoKey, JobSet, JobOK, Sealing, NoConn, ConnSet

\* Every step a process makes by itself: where it is then, and that this is typed.
StepsTo(p, r) == r \in JobSet /\ JobOK(r) /\ Turns(p, r)

LEMMA BeginsTyped ==
  ASSUME JobsTyped, NEW p \in Proc,
         (\E o \in Owner : Login(p, o)) \/ (\E b \in BOOLEAN : Rotate(p, b)) \/ Reseal(p) \/ Purge(p)
  PROVE  \E r : StepsTo(p, r) /\ RestTyped'
<1>1. RestTyped /\ job[p] \in JobSet BY JobsTypedIs
<1>2. MaxLogins \in Nat /\ MaxResets \in Nat BY KeysAssumption
<1>3. ASSUME NEW o \in Owner, Login(p, o) PROVE \E r : StepsTo(p, r) /\ RestTyped'
  <2> DEFINE r == [AtRest EXCEPT !.pc = "find", !.op = "login", !.owner = o, !.secret = logins + 1]
  <2>0. logins \in 0 .. MaxLogins /\ logins < MaxLogins BY <1>1, <1>3 DEF Login, RestTyped
  <2>1. logins + 1 \in 0 .. MaxLogins BY <1>2, <2>0
  <2>2. r \in JobSet /\ JobOK(r) BY <2>1, AtRestTyped DEF JobSet, JobOK, Sealing
  <2>3. Turns(p, r) BY <1>3 DEF Login
  <2>4. RestTyped' BY <1>1, <1>3, <2>1 DEF Login, RestTyped, memory
  <2> QED BY <2>2, <2>3, <2>4 DEF StepsTo
<1>4. ASSUME NEW b \in BOOLEAN, Rotate(p, b) PROVE \E r : StepsTo(p, r) /\ RestTyped'
  <2> DEFINE r == [AtRest EXCEPT !.pc = "decide", !.op = "rotate", !.then = b]
  <2>1. r \in JobSet /\ JobOK(r) BY AtRestTyped DEF JobSet, JobOK, Sealing
  <2>2. resets' \in 0 .. MaxResets
    <3>1. resets \in 0 .. MaxResets /\ resets < MaxResets /\ resets' = resets + 1
      BY <1>1, <1>4 DEF Rotate, RestTyped
    <3> QED BY <1>2, <3>1
  <2>3. RestTyped' BY <1>1, <1>4, <2>2 DEF Rotate, RestTyped, memory
  <2> QED BY <1>4, <2>1, <2>3 DEF StepsTo, Rotate
<1>5. CASE Reseal(p)
  <2> DEFINE r == [AtRest EXCEPT !.pc = "list", !.op = "reseal"]
  <2>1. r \in JobSet /\ JobOK(r) BY AtRestTyped DEF JobSet, JobOK, Sealing
  <2>2. resets' \in 0 .. MaxResets
    <3>1. resets \in 0 .. MaxResets /\ resets < MaxResets /\ resets' = resets + 1
      BY <1>1, <1>5 DEF Reseal, RestTyped
    <3> QED BY <1>2, <3>1
  <2>3. RestTyped' BY <1>1, <1>5, <2>2 DEF Reseal, RestTyped, memory
  <2> QED BY <1>5, <2>1, <2>3 DEF StepsTo, Reseal
<1>6. CASE Purge(p)
  <2> DEFINE r == [AtRest EXCEPT !.pc = "destroy", !.op = "purge"]
  <2>1. r \in JobSet /\ JobOK(r) BY AtRestTyped DEF JobSet, JobOK, Sealing
  <2>2. resets' \in 0 .. MaxResets
    <3>1. resets \in 0 .. MaxResets /\ resets < MaxResets /\ resets' = resets + 1
      BY <1>1, <1>6 DEF Purge, RestTyped
    <3> QED BY <1>2, <3>1
  <2>3. RestTyped' BY <1>1, <1>6, <2>2 DEF Purge, RestTyped, memory
  <2> QED BY <1>6, <2>1, <2>3 DEF StepsTo, Purge
<1> QED BY <1>3, <1>4, <1>5, <1>6

\* Choosing a generation and minting a key for it.
LEMMA SealTyped ==
  ASSUME JobsTyped, NEW p \in Proc, Find(p) \/ Decide(p) \/ Fetch(p) \/ Load(p) \/ Reread(p)
  PROVE  \E r : StepsTo(p, r) /\ RestTyped'
<1>1. RestTyped /\ job[p] \in JobSet /\ JobOK(job[p]) BY JobsTypedIs
<1>2. MaxMints \in Nat /\ MaxMints # 0 BY KeysAssumption
<1>3. CASE Find(p)
  <2>1. PICK i \in {0} \cup Overwritten(job[p].owner) :
           Turns(p, [job[p] EXCEPT !.pc = "decide", !.row = i, !.late = @ /\ job[p].op = "reseal"])
    BY <1>3 DEF Find
  <2> DEFINE b == job[p].late /\ job[p].op = "reseal"
             r == [job[p] EXCEPT !.pc = "decide", !.row = i, !.late = b]
  <2>2. i \in 0 .. MaxRows /\ b \in BOOLEAN
    BY <2>1, KeysAssumption DEF Overwritten, ActiveOf, Conns
  <2>3. r \in JobSet /\ JobOK(r) BY <1>1, <1>3, <2>2 DEF JobSet, JobOK, Find, Sealing
  <2>4. RestTyped' BY <1>1, <1>3 DEF Find, RestTyped, memory
  <2> QED BY <2>1, <2>3, <2>4 DEF StepsTo
<1>4. CASE Decide(p)
  <2> DEFINE r0 == [job[p] EXCEPT !.cut = FALSE]
  <2>1. r0 \in JobSet /\ JobOK(r0) /\ r0.op = job[p].op /\ r0.pc = "decide"
    BY <1>1, <1>4 DEF JobSet, JobOK, Sealing, Decide
  <2>2. PICK pc \in {"load", "fetch"}, g \in Gens :
           Turns(p, [r0 EXCEPT !.pc = pc, !.gen = g]) /\ (pc = "fetch" => r0.op # "rotate")
    <3>1. TopGen(table) # 0 => TopGen(table) \in Gens BY TopIs
    <3>2. 1 \in Gens BY <1>2 DEF Gens
    <3> QED BY <1>4, <3>1, <3>2 DEF Decide
  <2> DEFINE r == [r0 EXCEPT !.pc = pc, !.gen = g]
  <2>3. g \in 0 .. MaxMints BY DEF Gens
  <2>4. r \in JobSet /\ JobOK(r)
    <3> HIDE DEF r0
    <3> QED BY <2>1, <2>2, <2>3 DEF JobSet, JobOK, Sealing
  <2>5. RestTyped' BY <1>1, <1>4 DEF Decide, RestTyped, memory
  <2> QED BY <2>2, <2>4, <2>5 DEF StepsTo
<1>5. CASE Fetch(p)
  <2>1. job[p].pc = "fetch" /\ job[p].gen \in Gens BY <1>1, <1>5 DEF Fetch, JobOK, Sealing
  <2> DEFINE r == IF table[job[p].gen] # NoKey
                  THEN [job[p] EXCEPT !.pc = "store", !.mat = table[job[p].gen]]
                  ELSE [job[p] EXCEPT !.pc = "load", !.gen = 1]
  <2>2. 1 \in Gens /\ 1 \in 0 .. MaxMints BY <1>2 DEF Gens
  <2>3. table[job[p].gen] \in 0 .. MaxMints BY <1>1, <2>1 DEF RestTyped
  <2>4. r \in JobSet /\ JobOK(r) BY <1>1, <2>1, <2>2, <2>3 DEF JobSet, JobOK, Sealing
  <2>5. RestTyped' BY <1>1, <1>5 DEF Fetch, RestTyped, memory
  <2> QED BY <1>5, <2>4, <2>5 DEF StepsTo, Fetch
<1>6. CASE Load(p)
  <2> DEFINE r == [job[p] EXCEPT !.pc = "put", !.mat = minted + 1, !.tab = table]
  <2>1. minted + 1 \in 0 .. MaxMints /\ minted + 1 # NoKey BY <1>1, <1>2, <1>6 DEF Load, RestTyped, NoKey
  <2>2. r \in JobSet /\ JobOK(r)
    BY <1>1, <1>6, <2>1 DEF JobSet, JobOK, Sealing, Load, RestTyped
  <2>3. RestTyped' BY <1>1, <1>6, <2>1 DEF Load, RestTyped, memory
  <2> QED BY <1>6, <2>2, <2>3 DEF StepsTo, Load
<1>7. CASE Reread(p)
  <2>1. job[p].pc = "reread" /\ job[p].gen \in Gens /\ job[p].mat # NoKey
    BY <1>1, <1>7 DEF Reread, JobOK, Sealing
  <2> DEFINE x == IF table[job[p].gen] # NoKey THEN table[job[p].gen] ELSE job[p].mat
             m == [job[p] EXCEPT !.mat = x]
             r == IF job[p].op # "rotate" THEN [m EXCEPT !.pc = "store"]
                  ELSE IF job[p].then THEN [AtRest EXCEPT !.pc = "list", !.op = "reseal"] ELSE AtRest
  <2>2. x \in 0 .. MaxMints /\ x # NoKey BY <1>1, <2>1 DEF RestTyped, JobSet
  <2>3. m \in JobSet /\ m.op = job[p].op /\ m.then = job[p].then /\ m.gen = job[p].gen /\ m.mat = x
    BY <1>1, <2>2 DEF JobSet
  <2>4. job[p].op # "rotate" => [m EXCEPT !.pc = "store"] \in JobSet /\ JobOK([m EXCEPT !.pc = "store"])
    <3> HIDE DEF m
    <3> QED BY <1>1, <2>1, <2>2, <2>3 DEF JobSet, JobOK, Sealing
  <2>5. [AtRest EXCEPT !.pc = "list", !.op = "reseal"] \in JobSet
        /\ JobOK([AtRest EXCEPT !.pc = "list", !.op = "reseal"])
    BY AtRestTyped DEF JobSet, JobOK, Sealing
  <2>6. r \in JobSet /\ JobOK(r) BY <2>4, <2>5, AtRestTyped
  <2>7. Turns(p, r) BY <1>7 DEF Reread
  <2>8. RestTyped' BY <1>1, <1>7 DEF Reread, RestTyped, memory
  <2> QED BY <2>6, <2>7, <2>8 DEF StepsTo
<1> QED BY <1>3, <1>4, <1>5, <1>6, <1>7

LEMMA CommandsTyped ==
  ASSUME JobsTyped, NEW p \in Proc,
         List(p) \/ Scan(p) \/ ResealEnds(p) \/ ResealRaises(p) \/ ReadKeys(p) \/ Die(p)
  PROVE  \E r : StepsTo(p, r) /\ RestTyped'
<1>1. RestTyped /\ job[p] \in JobSet /\ JobOK(job[p]) BY JobsTypedIs
<1>2. CASE List(p)
  <2> DEFINE b == TopGen(table)
             t == {<<i, conns[i].owner>> : i \in {j \in Conns : conns[j].st # "absent"}}
             r == [job[p] EXCEPT !.pc = "scan", !.base = b, !.todo = t]
  <2>1. b \in 0 .. MaxMints BY TopIs
  <2>2. t \in SUBSET (Conns \X Owner) BY <1>1 DEF RestTyped, ConnSet
  <2> HIDE DEF b, t
  <2>3. r \in JobSet /\ JobOK(r) BY <1>1, <1>2, <2>1, <2>2 DEF JobSet, JobOK, Sealing, List
  <2>4. Turns(p, r) BY <1>2 DEF List, b, t
  <2>5. RestTyped' BY <1>1, <1>2 DEF List, RestTyped, memory
  <2> QED BY <2>3, <2>4, <2>5 DEF StepsTo
<1>3. CASE Scan(p)
  <2>1. PICK d \in job[p].todo :
          LET o == d[2]
              rest == [job[p] EXCEPT !.todo = @ \ {d}]
          IN
          \/ Turns(p, rest) /\ UNCHANGED borrowed
          \/ \E i \in Lookup(o) :
               /\ Turns(p, [rest EXCEPT !.pc = "find", !.owner = o, !.secret = conns[i].secret,
                                        !.late = FALSE])
               /\ borrowed' = IF conns[i].owner # o THEN borrowed \cup {o} ELSE borrowed
    BY <1>3 DEF Scan
  <2>2. d \in Conns \X Owner BY <1>1 DEF JobSet
  <2> DEFINE o == d[2]
             rest == [job[p] EXCEPT !.todo = @ \ {d}]
  <2>3. o \in Owner BY <2>2
  <2>4. rest \in JobSet /\ JobOK(rest) /\ rest.op = "reseal"
    BY <1>1, <1>3 DEF JobSet, JobOK, Sealing, Scan
  <2> HIDE DEF rest
  <2>5. CASE Turns(p, rest) /\ UNCHANGED borrowed
    <3>1. RestTyped' BY <1>1, <1>3, <2>5 DEF Scan, RestTyped
    <3> QED BY <2>4, <2>5, <3>1 DEF StepsTo
  <2>6. ASSUME NEW i \in Lookup(o),
               Turns(p, [rest EXCEPT !.pc = "find", !.owner = o, !.secret = conns[i].secret,
                                     !.late = FALSE]),
               borrowed' = IF conns[i].owner # o THEN borrowed \cup {o} ELSE borrowed
        PROVE  \E r : StepsTo(p, r) /\ RestTyped'
    <3> DEFINE s == conns[i].secret
               r == [rest EXCEPT !.pc = "find", !.owner = o, !.secret = s, !.late = FALSE]
    <3>1. i \in Conns BY DEF Lookup, ActiveOf
    <3>2. s \in 0 .. MaxLogins BY <1>1, <3>1 DEF RestTyped, ConnSet
    <3> HIDE DEF s
    <3>3. r \in JobSet /\ JobOK(r) BY <2>3, <2>4, <3>2 DEF JobSet, JobOK, Sealing
    <3>4. RestTyped' BY <1>1, <1>3, <2>3, <2>6 DEF Scan, RestTyped
    <3>5. Turns(p, r) BY <2>6 DEF s
    <3> QED BY <3>3, <3>4, <3>5 DEF StepsTo
  <2> QED BY <2>1, <2>5, <2>6 DEF rest
<1>4. CASE ResealEnds(p) \/ Die(p)
  <2>1. RestTyped' BY <1>1, <1>4 DEF ResealEnds, Die, RestTyped, memory
  <2> QED BY <1>4, <2>1, AtRestTyped DEF StepsTo, ResealEnds, Die
<1>5. CASE ResealRaises(p)
  <2> DEFINE r == [AtRest EXCEPT !.pc = "raised"]
  <2>1. r \in JobSet /\ JobOK(r) BY AtRestTyped DEF JobSet, JobOK, Sealing
  <2>2. RestTyped' BY <1>1, <1>5 DEF ResealRaises, RestTyped, memory
  <2> QED BY <1>5, <2>1, <2>2 DEF StepsTo, ResealRaises
<1>6. CASE ReadKeys(p)
  <2>1. PICK x \in {"delete", "shred"} : Turns(p, [job[p] EXCEPT !.pc = x])
    BY <1>6 DEF ReadKeys
  <2> DEFINE r == [job[p] EXCEPT !.pc = x]
  <2>2. r \in JobSet /\ JobOK(r) BY <1>1, <1>6, <2>1 DEF JobSet, JobOK, Sealing, ReadKeys
  <2>3. RestTyped' BY <1>1, <1>6 DEF ReadKeys, RestTyped, memory
  <2> QED BY <2>1, <2>2, <2>3 DEF StepsTo
<1> QED BY <1>2, <1>3, <1>4, <1>5, <1>6

\* What a process reads in passing, minting a key and what a re-seal or a purge looks at,
\* changes neither the key file nor a connection.
Reads(p) ==
  \/ \E o \in Owner : Login(p, o)
  \/ \E b \in BOOLEAN : Rotate(p, b)
  \/ Reseal(p) \/ Purge(p) \/ Find(p) \/ Decide(p) \/ Fetch(p) \/ Load(p) \/ Reread(p)
  \/ List(p) \/ Scan(p) \/ ResealEnds(p) \/ ResealRaises(p) \/ ReadKeys(p) \/ Die(p)

LEMMA ReadsTyped ==
  ASSUME JobsTyped, NEW p \in Proc, Reads(p)
  PROVE  /\ JobsTyped'
         /\ \A q \in Proc : q # p => job'[q] = job[q]
         /\ \E r : StepsTo(p, r) /\ job'[p] = r
         /\ UNCHANGED <<table, conns, shredded, rushed, newest, stale, lagging>>
<1>1. PICK r : StepsTo(p, r) /\ RestTyped' BY BeginsTyped, SealTyped, CommandsTyped DEF Reads
<1>2. /\ job' \in [Proc -> JobSet] /\ \A q \in Proc : JobOK(job'[q])
      /\ job'[p] = r /\ \A q \in Proc : q # p => job'[q] = job[q]
  BY <1>1, OneTurns DEF StepsTo
<1>3. UNCHANGED <<table, conns, shredded, rushed, newest, stale, lagging>>
  BY DEF Reads, Login, Rotate, Reseal, Purge, Find, Decide, Fetch, Load, Reread, List, Scan,
         ResealEnds, ResealRaises, ReadKeys, Die, memory
<1>4. JobsTyped' BY <1>1, <1>2 DEF JobsTyped, KeysTyped, JobSet, RestTyped, ConnSet
<1> QED BY <1>1, <1>2, <1>3, <1>4

LEMMA PutTyped ==
  ASSUME JobsTyped, NEW p \in Proc, PutKey(p)
  PROVE  /\ JobsTyped'
         /\ job'[p] = [job[p] EXCEPT !.pc = "reread"]
         /\ \A q \in Proc : q # p => job'[q] = [job[q] EXCEPT !.cut = TRUE]
<1>1. RestTyped /\ job[p] \in JobSet /\ JobOK(job[p]) BY JobsTypedIs
<1> DEFINE r == [job[p] EXCEPT !.pc = "reread"]
<1>2. r \in JobSet /\ JobOK(r) BY <1>1 DEF JobSet, JobOK, Sealing, PutKey
<1>3. FileChanges(p, r) BY DEF PutKey
<1>4. /\ job' \in [Proc -> JobSet] /\ \A q \in Proc : JobOK(job'[q])
      /\ job'[p] = r /\ \A q \in Proc : q # p => job'[q] = [job[q] EXCEPT !.cut = TRUE]
  BY <1>2, <1>3, OneChangesFile
<1>5. [job[p].tab EXCEPT ![job[p].gen] = job[p].mat] \in [Gens -> 0 .. MaxMints]
  BY <1>1 DEF JobSet
<1>6. RestTyped' BY <1>1, <1>5 DEF PutKey, RestTyped
<1> QED BY <1>4, <1>6 DEF JobsTyped, KeysTyped, JobSet, RestTyped, ConnSet

LEMMA ShredTyped ==
  ASSUME JobsTyped, NEW p \in Proc, Shred(p)
  PROVE  /\ JobsTyped'
         /\ job'[p] = [job[p] EXCEPT !.pc = "delete"]
         /\ \A q \in Proc : q # p => job'[q] = [job[q] EXCEPT !.cut = TRUE]
<1>1. RestTyped /\ job[p] \in JobSet /\ JobOK(job[p]) BY JobsTypedIs
<1> DEFINE r == [job[p] EXCEPT !.pc = "delete"]
<1>2. r \in JobSet /\ JobOK(r) BY <1>1 DEF JobSet, JobOK, Sealing, Shred
<1>3. FileChanges(p, r) BY DEF Shred
<1>4. /\ job' \in [Proc -> JobSet] /\ \A q \in Proc : JobOK(job'[q])
      /\ job'[p] = r /\ \A q \in Proc : q # p => job'[q] = [job[q] EXCEPT !.cut = TRUE]
  BY <1>2, <1>3, OneChangesFile
<1>5. Stored(table) \subseteq 1 .. MaxMints
  <2>1. \A g \in Gens : table[g] \in 0 .. MaxMints BY <1>1 DEF RestTyped
  <2>2. MaxMints \in Nat BY KeysAssumption
  <2>3. ASSUME NEW m \in Stored(table) PROVE m \in 1 .. MaxMints
    <3>1. m \in 0 .. MaxMints /\ m # 0 BY <2>1 DEF Stored, NoKey
    <3> QED BY <2>2, <3>1
  <2> QED BY <2>3
<1>6. Destroyed(table) \in [Gens -> 0 .. MaxMints]
  BY KeysAssumption DEF Destroyed, NoKey
<1>7. RestTyped' BY <1>1, <1>5, <1>6 DEF Shred, RestTyped
<1> QED BY <1>4, <1>7 DEF JobsTyped, KeysTyped, JobSet, RestTyped, ConnSet

\* The connection a process writes: the one it found, or a fresh one.
LEMMA StoreTyped ==
  ASSUME JobsTyped, NEW p \in Proc, Store(p)
  PROVE  /\ JobsTyped'
         /\ \E i \in Conns :
              /\ i = job[p].row \/ (job[p].row = 0 /\ i \in FreshIds)
              /\ conns' = [conns EXCEPT ![i] =
                   [st |-> "active", owner |-> job[p].owner, secret |-> job[p].secret,
                    gen |-> job[p].gen, mat |-> job[p].mat]]
         /\ job'[p] = IF job[p].op = "login" THEN AtRest
                      ELSE [job[p] EXCEPT !.pc = "scan", !.owner = Common]
         /\ \A q \in Proc : q # p =>
              job'[q] = [job[q] EXCEPT !.late = job[q].late \/ job[q].owner = job[p].owner]
<1>1. RestTyped /\ job[p] \in JobSet /\ JobOK(job[p]) BY JobsTypedIs
<1>2. job[p].pc = "store" /\ job[p].op \in {"login", "reseal"} BY <1>1 DEF Store, JobOK
<1> DEFINE s == [job[p] EXCEPT !.pc = "scan", !.owner = Common]
           r == IF job[p].op = "login" THEN AtRest ELSE s
           o == job[p].owner
           c == [st |-> "active", owner |-> job[p].owner, secret |-> job[p].secret,
                 gen |-> job[p].gen, mat |-> job[p].mat]
<1>3. job[p].op = "reseal" => s \in JobSet /\ JobOK(s)
  BY <1>1, KeysAssumption DEF JobSet, JobOK, Sealing
<1>4. r \in JobSet /\ JobOK(r) BY <1>2, <1>3, AtRestTyped
<1>5. RowChanges(p, o, r) BY DEF Store
<1>6. /\ job' \in [Proc -> JobSet] /\ \A q \in Proc : JobOK(job'[q])
      /\ job'[p] = r
      /\ \A q \in Proc : q # p => job'[q] = [job[q] EXCEPT !.late = job[q].late \/ job[q].owner = o]
  <2> HIDE DEF r, o
  <2> QED BY <1>4, <1>5, OneChangesRow
<1>7. PICK i : /\ conns' = [conns EXCEPT ![i] = c]
               /\ i = IF job[p].row # 0 THEN job[p].row ELSE Min(FreshIds)
               /\ job[p].row # 0 \/ FreshIds # {}
  BY DEF Store
<1>8. i \in Conns /\ (i = job[p].row \/ (job[p].row = 0 /\ i \in FreshIds))
  <2>1. FreshIds \subseteq Conns /\ Conns \subseteq Nat BY DEF FreshIds, Conns
  <2>2. job[p].row = 0 => i \in FreshIds BY <1>7, <2>1, MinIsOne
  <2>3. job[p].row # 0 => i = job[p].row /\ i \in Conns
    <3>1. job[p].row \in 0 .. MaxRows /\ MaxRows \in Nat BY <1>1, KeysAssumption DEF JobSet
    <3> QED BY <1>7, <3>1 DEF Conns
  <2> QED BY <2>1, <2>2, <2>3
<1>9. c \in ConnSet BY <1>1 DEF JobSet, ConnSet
<1>10. conns' \in [Conns -> ConnSet]
  <2> HIDE DEF c
  <2> QED BY <1>1, <1>7, <1>9 DEF RestTyped
<1>11. newest' \in [Owner -> 0 .. MaxLogins] /\ stale' \subseteq Owner /\ lagging' \subseteq Owner
  <2>1. job[p].owner \in Owner /\ job[p].secret \in 0 .. MaxLogins BY <1>1 DEF JobSet
  <2> QED BY <1>1, <2>1 DEF Store, RestTyped
<1>12. RestTyped' BY <1>1, <1>10, <1>11 DEF Store, RestTyped
<1>13. JobsTyped' BY <1>6, <1>12 DEF JobsTyped, KeysTyped, JobSet, RestTyped, ConnSet
<1> QED BY <1>6, <1>7, <1>8, <1>13

LEMMA RevokeTyped ==
  ASSUME JobsTyped, NEW i \in Conns, Revoke(i)
  PROVE  /\ JobsTyped'
         /\ \A q \in Proc : job'[q] = [job[q] EXCEPT !.late = job[q].late \/ job[q].owner = conns[i].owner]
<1>1. RestTyped BY JobsTypedIs
<1> DEFINE o == conns[i].owner
<1>2. job' = [q \in Proc |-> [job[q] EXCEPT !.late = @ \/ job[q].owner = o]] BY DEF Revoke
<1>3. /\ job' \in [Proc -> JobSet] /\ \A q \in Proc : JobOK(job'[q])
      /\ \A q \in Proc : job'[q] = [job[q] EXCEPT !.late = job[q].late \/ job[q].owner = o]
  <2> HIDE DEF o
  <2> QED BY <1>2, AllChangeRow
<1>4. conns' \in [Conns -> ConnSet]
  <2> DEFINE c == [NoConn EXCEPT !.st = "revoked", !.owner = conns[i].owner]
  <2>1. c \in ConnSet BY <1>1, AtRestTyped DEF RestTyped, ConnSet
  <2>2. conns' = [conns EXCEPT ![i] = c] BY DEF Revoke
  <2> HIDE DEF c
  <2> QED BY <1>1, <2>1, <2>2 DEF RestTyped
<1>5. RestTyped' BY <1>1, <1>4 DEF Revoke, RestTyped, memory
<1> QED BY <1>3, <1>5 DEF JobsTyped, KeysTyped, JobSet, RestTyped, ConnSet

LEMMA DeleteTyped ==
  ASSUME JobsTyped, NEW p \in Proc, DeleteRows(p)
  PROVE  /\ JobsTyped'
         /\ job'[p] = AtRest /\ \A q \in Proc : q # p => job'[q] = [job[q] EXCEPT !.late = TRUE]
<1>1. RestTyped BY JobsTypedIs
<1>2. job' = [q \in Proc |-> IF q = p THEN AtRest ELSE [job[q] EXCEPT !.late = TRUE]] BY DEF DeleteRows
<1>3. \A q \in Proc : job[q] \in JobSet /\ JobOK(job[q]) BY JobsTypedIs
<1>4. \A q \in Proc : [job[q] EXCEPT !.late = TRUE] \in JobSet /\ JobOK([job[q] EXCEPT !.late = TRUE])
  BY <1>3, LateTyped
<1>5. /\ job' \in [Proc -> JobSet] /\ \A q \in Proc : JobOK(job'[q])
      /\ job'[p] = AtRest /\ \A q \in Proc : q # p => job'[q] = [job[q] EXCEPT !.late = TRUE]
  BY <1>2, <1>4, AtRestTyped
<1>6. RestTyped' BY <1>1, AtRestTyped DEF DeleteRows, RestTyped, memory
<1> QED BY <1>5, <1>6 DEF JobsTyped, KeysTyped, JobSet, RestTyped, ConnSet

LEMMA KeysKeepTypes == JobsTyped /\ [KeysNext]_keyVars => JobsTyped'
<1> SUFFICES ASSUME JobsTyped, [KeysNext]_keyVars PROVE JobsTyped'
  OBVIOUS
<1>1. CASE KeysNext
  BY <1>1, ReadsTyped, PutTyped, ShredTyped, StoreTyped, RevokeTyped, DeleteTyped
  DEF KeysNext, Reads, Proc
<1>2. CASE UNCHANGED keyVars
  BY <1>2 DEF keyVars, memory, JobsTyped, KeysTyped
<1> QED BY <1>1, <1>2

\* What the writes of others leave of a process.
Kept(q) ==
  /\ job'[q].pc = job[q].pc /\ job'[q].op = job[q].op /\ job'[q].owner = job[q].owner
  /\ job'[q].secret = job[q].secret /\ job'[q].row = job[q].row /\ job'[q].gen = job[q].gen
  /\ job'[q].mat = job[q].mat /\ job'[q].tab = job[q].tab /\ job'[q].todo = job[q].todo
  /\ job'[q].base = job[q].base

LEMMA CutKeeps ==
  ASSUME JobsTyped, NEW q \in Proc, job'[q] = [job[q] EXCEPT !.cut = TRUE]
  PROVE  Kept(q) /\ job'[q].cut = TRUE /\ job'[q].late = job[q].late
<1>1. job[q] \in JobSet BY JobsTypedIs
<1> QED BY <1>1 DEF JobSet, Kept

LEMMA LateKeeps ==
  ASSUME JobsTyped, NEW q \in Proc, NEW b \in BOOLEAN, job'[q] = [job[q] EXCEPT !.late = b]
  PROVE  Kept(q) /\ job'[q].cut = job[q].cut /\ job'[q].late = b
<1>1. job[q] \in JobSet BY JobsTypedIs
<1> QED BY <1>1 DEF JobSet, Kept

LEMMA OwnersKeep ==
  ASSUME JobsTyped, NEW q \in Proc, NEW o, job'[q] = [job[q] EXCEPT !.late = job[q].late \/ job[q].owner = o]
  PROVE  Kept(q) /\ job'[q].cut = job[q].cut /\ (job'[q].late <=> job[q].late \/ job[q].owner = o)
<1> DEFINE b == job[q].late \/ job[q].owner = o
<1>1. b \in BOOLEAN /\ job'[q] = [job[q] EXCEPT !.late = b] OBVIOUS
<1> HIDE DEF b
<1>2. Kept(q) /\ job'[q].cut = job[q].cut /\ job'[q].late = b BY <1>1, LateKeeps
<1> QED BY <1>2 DEF b
-----------------------------------------------------------------------------
(* What a reading step makes of a process. *)

\* It goes on sealing for the same owner ...
Onward(p) ==
  /\ job[p].pc \in Writing /\ job'[p].pc \in Sealing
  /\ job'[p].op = job[p].op /\ job'[p].owner = job[p].owner /\ job'[p].secret = job[p].secret
  /\ job'[p].row = job[p].row /\ job'[p].todo = job[p].todo /\ job'[p].base = job[p].base
  /\ job'[p].late = job[p].late
\* ... has nothing in hand that belongs to an owner ...
Away(p) == \/ job'[p].pc \in {"idle", "list", "destroy", "shred", "delete", "raised"}
           \/ job'[p].pc = "decide" /\ job'[p].op = "rotate"
\* ... looks for the connection it will overwrite ...
Entered(p) == job'[p].pc = "find" /\ job'[p].op = "login"
Finding(p) ==
  /\ job[p].pc = "find" /\ job'[p].pc = "decide"
  /\ job'[p].op = job[p].op /\ job'[p].owner = job[p].owner /\ job'[p].secret = job[p].secret
  /\ job'[p].todo = job[p].todo /\ job'[p].base = job[p].base
  /\ job[p].op = "reseal" => job'[p].late = job[p].late
  /\ job'[p].row \in IF ActiveOf(job[p].owner) = {} THEN {0} ELSE ActiveOf(job[p].owner)
\* ... or goes through what there is to re-seal.
Listed(p) ==
  /\ job'[p].pc = "scan" /\ job'[p].op = "reseal" /\ job'[p].base = TopGen(table)
  /\ \A i \in Conns : conns[i].st # "absent" => <<i, conns[i].owner>> \in job'[p].todo
Skipped(p) ==
  /\ job[p].pc = "scan" /\ job'[p].pc = "scan" /\ job'[p].op = job[p].op
  /\ job'[p].base = job[p].base
  /\ \E d \in job[p].todo : job'[p].todo = job[p].todo \ {d} /\ Lookup(d[2]) = {}
Taken(p) ==
  /\ job[p].pc = "scan" /\ job'[p].pc = "find" /\ job'[p].op = job[p].op
  /\ job'[p].base = job[p].base
  /\ \E d \in job[p].todo : \E i \in Lookup(d[2]) :
       /\ job'[p].todo = job[p].todo \ {d} /\ job'[p].owner = d[2]
       /\ job'[p].secret = conns[i].secret
       /\ conns[i].owner # d[2] => d[2] \in borrowed'

\* Only an operator's command begins a rotation, a re-seal or a purge.
Commands == {"rotate", "reseal", "purge"}
SameOp(p) == job'[p].op \in Commands => job[p].op \in Commands

LEMMA BeginsAre ==
  ASSUME JobsTyped, NEW p \in Proc
  PROVE  /\ (\E o \in Owner : Login(p, o)) => Entered(p)
         /\ (\E b \in BOOLEAN : Rotate(p, b)) \/ Reseal(p) \/ Purge(p) => Away(p)
         /\ (\E o \in Owner : Login(p, o)) => SameOp(p)
<1>1. \A r : Turns(p, r) => job'[p] = r BY JobsTypedIs DEF Turns
<1>2. ASSUME NEW o \in Owner, Login(p, o) PROVE Entered(p) /\ SameOp(p)
  <2>1. job'[p] = [AtRest EXCEPT !.pc = "find", !.op = "login", !.owner = o, !.secret = logins + 1]
    BY <1>1, <1>2 DEF Login
  <2>2. job'[p].pc = "find" /\ job'[p].op = "login" BY <2>1 DEF AtRest
  <2> QED BY <2>2 DEF Entered, SameOp, Commands
<1>3. ASSUME NEW b \in BOOLEAN, Rotate(p, b) PROVE Away(p)
  <2>1. job'[p] = [AtRest EXCEPT !.pc = "decide", !.op = "rotate", !.then = b]
    BY <1>1, <1>3 DEF Rotate
  <2> QED BY <2>1 DEF AtRest, Away
<1>4. ASSUME Reseal(p) \/ Purge(p) PROVE Away(p)
  <2>1. \/ job'[p] = [AtRest EXCEPT !.pc = "list", !.op = "reseal"]
        \/ job'[p] = [AtRest EXCEPT !.pc = "destroy", !.op = "purge"]
    BY <1>1, <1>4 DEF Reseal, Purge
  <2> QED BY <2>1 DEF AtRest, Away
<1> QED BY <1>2, <1>3, <1>4

LEMMA SealsGoOn ==
  ASSUME JobsTyped, NEW p \in Proc, Decide(p) \/ Fetch(p) \/ Load(p) \/ Reread(p)
  PROVE  (Onward(p) \/ Away(p)) /\ SameOp(p)
<1>1. job[p] \in JobSet /\ JobOK(job[p]) /\ \A r : Turns(p, r) => job'[p] = r
  BY JobsTypedIs DEF Turns
<1>2. CASE Decide(p)
  <2> DEFINE r0 == [job[p] EXCEPT !.cut = FALSE]
  <2>1. /\ r0 \in JobSet /\ r0.op = job[p].op /\ r0.owner = job[p].owner
        /\ r0.secret = job[p].secret /\ r0.row = job[p].row /\ r0.todo = job[p].todo
        /\ r0.base = job[p].base /\ r0.late = job[p].late
    BY <1>1 DEF JobSet
  <2>2. PICK x \in {"load", "fetch"} : \E g : job'[p] = [r0 EXCEPT !.pc = x, !.gen = g]
    BY <1>1, <1>2 DEF Decide
  <2> HIDE DEF r0
  <2>3. /\ job'[p].pc = x /\ job'[p].op = r0.op /\ job'[p].owner = r0.owner
        /\ job'[p].secret = r0.secret /\ job'[p].row = r0.row /\ job'[p].todo = r0.todo
        /\ job'[p].base = r0.base /\ job'[p].late = r0.late
    BY <2>1, <2>2 DEF JobSet
  <2>4. job[p].pc = "decide" BY <1>2 DEF Decide
  <2> QED BY <2>1, <2>3, <2>4 DEF Onward, SameOp, Writing, Sealing
<1>3. CASE Fetch(p)
  <2>1. \/ \E m : job'[p] = [job[p] EXCEPT !.pc = "store", !.mat = m]
        \/ job'[p] = [job[p] EXCEPT !.pc = "load", !.gen = 1]
    BY <1>1, <1>3 DEF Fetch
  <2>2. job[p].pc = "fetch" BY <1>3 DEF Fetch
  <2> QED BY <1>1, <2>1, <2>2 DEF JobSet, Onward, SameOp, Writing, Sealing
<1>4. CASE Load(p)
  <2>1. PICK m, t : job'[p] = [job[p] EXCEPT !.pc = "put", !.mat = m, !.tab = t]
    BY <1>1, <1>4 DEF Load
  <2>2. job[p].pc = "load" BY <1>4 DEF Load
  <2> QED BY <1>1, <2>1, <2>2 DEF JobSet, Onward, SameOp, Writing, Sealing
<1>5. CASE Reread(p)
  <2>1. job[p].pc = "reread" BY <1>5 DEF Reread
  <2>2. PICK m : job'[p] = IF job[p].op # "rotate" THEN [[job[p] EXCEPT !.mat = m] EXCEPT !.pc = "store"]
                           ELSE IF job[p].then THEN [AtRest EXCEPT !.pc = "list", !.op = "reseal"]
                           ELSE AtRest
    <3> DEFINE m == IF table[job[p].gen] # NoKey THEN table[job[p].gen] ELSE job[p].mat
    <3> HIDE DEF m
    <3>1. [job[p] EXCEPT !.mat = m].op = job[p].op /\ [job[p] EXCEPT !.mat = m].then = job[p].then
      BY <1>1 DEF JobSet
    <3>2. job'[p] = IF [job[p] EXCEPT !.mat = m].op # "rotate" THEN [[job[p] EXCEPT !.mat = m] EXCEPT !.pc = "store"]
                    ELSE IF [job[p] EXCEPT !.mat = m].then THEN [AtRest EXCEPT !.pc = "list", !.op = "reseal"]
                    ELSE AtRest
      BY <1>1, <1>5, <3>1 DEF Reread, m
    <3> QED BY <3>1, <3>2
  <2>3. CASE job[p].op # "rotate"
    <3> DEFINE n == [job[p] EXCEPT !.mat = m]
    <3>1. /\ n.op = job[p].op /\ n.owner = job[p].owner /\ n.secret = job[p].secret
          /\ n.row = job[p].row /\ n.todo = job[p].todo /\ n.base = job[p].base /\ n.late = job[p].late
          /\ [n EXCEPT !.pc = "store"].pc = "store"
      BY <1>1 DEF JobSet
    <3>2. job'[p] = [n EXCEPT !.pc = "store"] BY <2>2, <2>3
    <3> HIDE DEF n
    <3>3. /\ job'[p].pc = "store" /\ job'[p].op = n.op /\ job'[p].owner = n.owner
          /\ job'[p].secret = n.secret /\ job'[p].row = n.row /\ job'[p].todo = n.todo
          /\ job'[p].base = n.base /\ job'[p].late = n.late
      BY <3>1, <3>2
    <3> QED BY <2>1, <3>1, <3>3 DEF Onward, SameOp, Writing, Sealing
  <2>4. CASE job[p].op = "rotate"
    <3>1. job'[p].pc \in {"list", "idle"} BY <2>2, <2>4 DEF AtRest
    <3> QED BY <2>4, <3>1 DEF Away, SameOp, Commands
  <2> QED BY <2>3, <2>4
<1> QED BY <1>2, <1>3, <1>4, <1>5

LEMMA FindIs ==
  ASSUME JobsTyped, NEW p \in Proc, Find(p)
  PROVE  Finding(p) /\ SameOp(p)
<1>1. job[p] \in JobSet /\ \A r : Turns(p, r) => job'[p] = r
  BY JobsTypedIs DEF Turns
<1>2. PICK i \in IF ActiveOf(job[p].owner) = {} THEN {0} ELSE ActiveOf(job[p].owner) :
         job'[p] = [job[p] EXCEPT !.pc = "decide", !.row = i, !.late = job[p].late /\ job[p].op = "reseal"]
  BY <1>1 DEF Find, Overwritten
<1> DEFINE b == job[p].late /\ job[p].op = "reseal"
<1>3. b \in BOOLEAN /\ (job[p].op = "reseal" => b = job[p].late) BY <1>1 DEF JobSet
<1>4. job'[p] = [job[p] EXCEPT !.pc = "decide", !.row = i, !.late = b] BY <1>2
<1> HIDE DEF b
<1>5. job[p].pc = "find" BY DEF Find
<1>6. /\ job'[p].pc = "decide" /\ job'[p].op = job[p].op /\ job'[p].owner = job[p].owner
      /\ job'[p].secret = job[p].secret /\ job'[p].todo = job[p].todo /\ job'[p].base = job[p].base
      /\ job'[p].row = i /\ job'[p].late = b
  BY <1>1, <1>4 DEF JobSet
<1> QED BY <1>2, <1>3, <1>5, <1>6 DEF Finding, SameOp

LEMMA ScanIs ==
  ASSUME JobsTyped, NEW p \in Proc, Scan(p)
  PROVE  (Skipped(p) \/ (Taken(p) /\ ~job'[p].late)) /\ SameOp(p) /\ borrowed \subseteq borrowed'
<1>1. job[p] \in JobSet /\ \A r : Turns(p, r) => job'[p] = r
  BY JobsTypedIs DEF Turns
<1>2. PICK d \in job[p].todo :
        LET o == d[2]
            rest == [job[p] EXCEPT !.todo = @ \ {d}]
        IN
        \/ Lookup(o) = {} /\ job'[p] = rest /\ UNCHANGED borrowed
        \/ \E i \in Lookup(o) :
             /\ job'[p] = [rest EXCEPT !.pc = "find", !.owner = o, !.secret = conns[i].secret,
                                       !.late = FALSE]
             /\ borrowed' = IF conns[i].owner # o THEN borrowed \cup {o} ELSE borrowed
  BY <1>1 DEF Scan, NeedsReseal, Lookup, ActiveOf
<1> DEFINE o == d[2]
           rest == [job[p] EXCEPT !.todo = @ \ {d}]
<1>3. /\ rest \in JobSet
      /\ rest.pc = "scan" /\ rest.op = job[p].op /\ rest.base = job[p].base
      /\ rest.todo = job[p].todo \ {d}
  BY <1>1 DEF JobSet, Scan
<1>4. job[p].pc = "scan" BY DEF Scan
<1> HIDE DEF rest
<1>5. CASE Lookup(o) = {} /\ job'[p] = rest /\ UNCHANGED borrowed
  BY <1>3, <1>4, <1>5 DEF Skipped, SameOp
<1>6. ASSUME NEW i \in Lookup(o),
             job'[p] = [rest EXCEPT !.pc = "find", !.owner = o, !.secret = conns[i].secret, !.late = FALSE],
             borrowed' = IF conns[i].owner # o THEN borrowed \cup {o} ELSE borrowed
      PROVE  Taken(p) /\ ~job'[p].late /\ SameOp(p) /\ borrowed \subseteq borrowed'
  <2> DEFINE s == conns[i].secret
  <2>1. job'[p] = [rest EXCEPT !.pc = "find", !.owner = o, !.secret = s, !.late = FALSE] BY <1>6
  <2> HIDE DEF s, o
  <2>2. /\ job'[p].pc = "find" /\ job'[p].op = rest.op /\ job'[p].owner = o /\ job'[p].secret = s
        /\ job'[p].todo = rest.todo /\ job'[p].base = rest.base /\ job'[p].late = FALSE
    BY <1>3, <2>1 DEF JobSet
  <2> QED BY <1>3, <1>4, <1>6, <2>2 DEF Taken, SameOp, o, s
<1> QED BY <1>2, <1>5, <1>6 DEF rest

LEMMA CommandsAre ==
  ASSUME JobsTyped, NEW p \in Proc
  PROVE  /\ List(p) => Listed(p) /\ SameOp(p)
         /\ ResealEnds(p) \/ ResealRaises(p) \/ ReadKeys(p) \/ Die(p) => Away(p) /\ SameOp(p)
<1>1. job[p] \in JobSet /\ JobOK(job[p]) /\ \A r : Turns(p, r) => job'[p] = r
  BY JobsTypedIs DEF Turns
<1>2. ASSUME List(p) PROVE Listed(p) /\ SameOp(p)
  <2>1. job[p].pc = "list" /\ job[p].op = "reseal" BY <1>1, <1>2 DEF List, JobOK
  <2> DEFINE t == {<<i, conns[i].owner>> : i \in {j \in Conns : conns[j].st # "absent"}}
             b == TopGen(table)
  <2>2. job'[p] = [job[p] EXCEPT !.pc = "scan", !.base = b, !.todo = t] BY <1>1, <1>2 DEF List
  <2>3. \A i \in Conns : conns[i].st # "absent" => <<i, conns[i].owner>> \in t OBVIOUS
  <2> HIDE DEF t, b
  <2>4. job'[p].pc = "scan" /\ job'[p].op = "reseal" /\ job'[p].base = b /\ job'[p].todo = t
    BY <1>1, <2>1, <2>2 DEF JobSet
  <2> QED BY <2>1, <2>3, <2>4 DEF Listed, SameOp, Commands, b
<1>3. ASSUME ResealEnds(p) \/ ResealRaises(p) \/ Die(p) PROVE Away(p) /\ SameOp(p)
  <2>1. job'[p] = AtRest \/ job'[p] = [AtRest EXCEPT !.pc = "raised"]
    BY <1>1, <1>3 DEF ResealEnds, ResealRaises, Die
  <2>2. job'[p].pc \in {"idle", "raised"} /\ job'[p].op = "none" BY <2>1 DEF AtRest
  <2> QED BY <2>2 DEF Away, SameOp, Commands
<1>4. ASSUME ReadKeys(p) PROVE Away(p) /\ SameOp(p)
  <2>1. job'[p] = [job[p] EXCEPT !.pc = "delete"] \/ job'[p] = [job[p] EXCEPT !.pc = "shred"]
    BY <1>1, <1>4 DEF ReadKeys
  <2>2. job'[p].pc \in {"delete", "shred"} /\ job'[p].op = job[p].op BY <1>1, <2>1 DEF JobSet
  <2> QED BY <2>2 DEF Away, SameOp
<1> QED BY <1>2, <1>3, <1>4

LEMMA ReadsAre ==
  ASSUME JobsTyped, NEW p \in Proc, Reads(p)
  PROVE  /\ \/ Onward(p) \/ Away(p) \/ Entered(p) \/ Finding(p) \/ Listed(p) \/ Skipped(p)
            \/ Taken(p) /\ ~job'[p].late
         /\ SameOp(p) \/ (\E b \in BOOLEAN : Rotate(p, b)) \/ Reseal(p) \/ Purge(p)
         /\ borrowed \subseteq borrowed'
<1>1. borrowed' = borrowed \/ Scan(p)
  BY DEF Reads, Login, Rotate, Reseal, Purge, Find, Decide, Fetch, Load, Reread, List,
         ResealEnds, ResealRaises, ReadKeys, Die, memory
<1>2. borrowed \subseteq borrowed' BY <1>1, ScanIs
<1> QED BY <1>2, BeginsAre, SealsGoOn, FindIs, ScanIs, CommandsAre DEF Reads
-----------------------------------------------------------------------------
(* The key file. *)

LEMMA FileInit == KeysInit => FileInv
BY DEF KeysInit, FileInv, Stored, KeyOK, AtRest, NoConn

\* What a process knows of the key file once it has read.
LEMMA ReaderKnows ==
  ASSUME JobsTyped, FileInv, ~rushed, NEW p \in Proc, Reads(p)
  PROVE  /\ KeyOK(job[p])'
         /\ minted' >= minted /\ minted \in Nat /\ minted' \in Nat
         /\ job'[p].pc = "put" => job'[p].mat = minted + 1 /\ minted' = minted + 1
<1>1. RestTyped /\ job[p] \in JobSet /\ JobOK(job[p]) BY JobsTypedIs
<1>2. /\ JobsTyped' /\ UNCHANGED <<table, conns, shredded, rushed>> /\ job \in [Proc -> JobSet]
  BY ReadsTyped, JobsTypedIs
<1>3. minted \in Nat /\ MaxMints \in Nat BY <1>1, KeysAssumption DEF RestTyped
<1>4. KeyOK(job[p]) /\ Stored(table) \cup shredded \subseteq 1 .. minted BY DEF FileInv
<1>5. CASE Decide(p)
  <2> DEFINE r == [job[p] EXCEPT !.cut = FALSE]
  <2>1. r \in JobSet /\ r.op = job[p].op BY <1>1 DEF JobSet
  <2> HIDE DEF r
  <2>2. CASE job'[p] = [r EXCEPT !.pc = "fetch", !.gen = TopGen(table)] /\ TopGen(table) # 0
    <3>1. job'[p].pc = "fetch" /\ job'[p].gen = TopGen(table) BY <2>1, <2>2 DEF JobSet
    <3> QED BY <1>2, <2>2, <3>1, TopIs, <1>5, <1>3 DEF KeyOK, Decide
  <2>3. ASSUME NEW g \in Gens, g > TopGen(table), job'[p] = [r EXCEPT !.pc = "load", !.gen = g]
        PROVE  KeyOK(job[p])'
    <3>1. job'[p].pc = "load" /\ job'[p].gen = g BY <2>1, <2>3 DEF JobSet
    <3>2. table[g] = NoKey
      <4>1. TopGen(table) \in 0 .. MaxMints /\ g \in Nat BY TopIs DEF Gens
      <4>2. table[g] # NoKey => g <= TopGen(table) BY TopIs
      <4> QED BY <2>3, <4>1, <4>2, <1>3
    <3> QED BY <1>2, <3>1, <3>2 DEF KeyOK
  <2>4. \/ job'[p] = [r EXCEPT !.pc = "fetch", !.gen = TopGen(table)] /\ TopGen(table) # 0
        \/ \E g \in Gens : g > TopGen(table) /\ job'[p] = [r EXCEPT !.pc = "load", !.gen = g]
    <3>1. TopGen(table) \in 0 .. MaxMints BY TopIs
    <3>2. TopGen(table) + 1 > TopGen(table) BY <3>1, <1>3
    <3>3. TopGen(table) = 0 => 1 \in Gens /\ 1 > TopGen(table) BY <1>3, KeysAssumption DEF Gens
    <3>4. \/ job' = [job EXCEPT ![p] = [r EXCEPT !.pc = "fetch", !.gen = TopGen(table)]]
             /\ TopGen(table) # 0
          \/ \E g \in Gens : g > TopGen(table)
                             /\ job' = [job EXCEPT ![p] = [r EXCEPT !.pc = "load", !.gen = g]]
      BY <1>5, <3>2, <3>3 DEF Decide, NextGen, Turns, r
    <3> QED BY <1>2, <3>4
  <2>5. minted' = minted /\ job'[p].pc # "put"
    <3>1. minted' = minted BY <1>5 DEF Decide
    <3>2. \A g : [r EXCEPT !.pc = "load", !.gen = g].pc = "load"
                 /\ [r EXCEPT !.pc = "fetch", !.gen = g].pc = "fetch" BY <2>1 DEF JobSet
    <3> QED BY <2>4, <3>1, <3>2
  <2>6. KeyOK(job[p])'
    <3> HIDE DEF KeyOK
    <3> QED BY <2>2, <2>3, <2>4
  <2> QED BY <1>3, <2>5, <2>6
<1>6. CASE Fetch(p)
  <2>1. job[p].pc = "fetch" /\ minted' = minted BY <1>6 DEF Fetch
  <2>2. CASE table[job[p].gen] # NoKey
    <3>1. job'[p] = [job[p] EXCEPT !.pc = "store", !.mat = table[job[p].gen]]
      BY <1>2, <1>6, <2>2 DEF Fetch, Turns
    <3>2. job'[p].pc = "store" /\ job'[p].mat = table[job'[p].gen] BY <1>1, <3>1 DEF JobSet
    <3> QED BY <1>2, <1>3, <2>1, <3>2 DEF KeyOK
  <2>3. CASE table[job[p].gen] = NoKey
    <3>1. job'[p] = [job[p] EXCEPT !.pc = "load", !.gen = 1]
      BY <1>2, <1>6, <2>3 DEF Fetch, Turns
    <3>2. job'[p].pc = "load" /\ job'[p].cut = job[p].cut BY <1>1, <3>1 DEF JobSet
    <3>3. job[p].cut BY <1>4, <2>1, <2>3 DEF KeyOK
    <3> QED BY <1>2, <1>3, <2>1, <3>2, <3>3 DEF KeyOK
  <2> QED BY <2>2, <2>3
<1>7. CASE Load(p)
  <2>1. job[p].pc = "load" /\ minted' = minted + 1
        /\ job'[p] = [job[p] EXCEPT !.pc = "put", !.mat = minted + 1, !.tab = table]
    BY <1>2, <1>7 DEF Load, Turns
  <2>2. job'[p].pc = "put" /\ job'[p].mat = minted + 1 /\ job'[p].tab = table
        /\ job'[p].gen = job[p].gen /\ job'[p].cut = job[p].cut
    BY <1>1, <2>1 DEF JobSet
  <2>3. minted + 1 \notin Stored(table) \cup shredded BY <1>3, <1>4
  <2>4. Stored(table)' = Stored(table) BY <1>2 DEF Stored
  <2> QED BY <1>2, <1>3, <1>4, <2>1, <2>2, <2>3, <2>4 DEF KeyOK
<1>8. CASE Reread(p)
  <2>1. job[p].pc = "reread" /\ minted' = minted BY <1>8 DEF Reread
  <2> DEFINE x == IF table[job[p].gen] # NoKey THEN table[job[p].gen] ELSE job[p].mat
             m == [job[p] EXCEPT !.mat = x]
  <2>2. m \in JobSet /\ m.mat = x /\ m.gen = job[p].gen
    <3>1. job[p].gen \in Gens BY <1>1, <2>1 DEF JobOK, Sealing
    <3>2. x \in 0 .. MaxMints BY <1>1, <3>1 DEF RestTyped, JobSet
    <3> QED BY <1>1, <3>2 DEF JobSet
  <2>3. job[p].mat # NoKey BY <1>1, <2>1 DEF JobOK
  <2>4. table[m.gen] = m.mat \/ m.mat \in shredded BY <1>4, <2>1, <2>2, <2>3 DEF KeyOK
  <2>5. \/ job'[p] = [m EXCEPT !.pc = "store"]
        \/ job'[p] = [AtRest EXCEPT !.pc = "list", !.op = "reseal"] \/ job'[p] = AtRest
    BY <1>2, <1>8 DEF Reread, Turns
  <2>6. \/ job'[p].pc = "store" /\ job'[p].gen = m.gen /\ job'[p].mat = m.mat
        \/ job'[p].pc \in {"list", "idle"}
    <3> HIDE DEF m
    <3>1. /\ [m EXCEPT !.pc = "store"].pc = "store"
          /\ [m EXCEPT !.pc = "store"].gen = m.gen /\ [m EXCEPT !.pc = "store"].mat = m.mat
      BY <2>2 DEF JobSet
    <3>2. AtRest.pc = "idle" /\ [AtRest EXCEPT !.pc = "list", !.op = "reseal"].pc = "list"
      BY DEF AtRest
    <3> QED BY <2>5, <3>1, <3>2
  <2> HIDE DEF m
  <2> QED BY <1>2, <1>3, <2>1, <2>4, <2>6 DEF KeyOK
<1>9. ASSUME ~(Decide(p) \/ Fetch(p) \/ Load(p) \/ Reread(p))
      PROVE  job'[p].pc \notin Sealing /\ minted' = minted
  <2>1. Entered(p) \/ Away(p) \/ Finding(p) \/ Skipped(p) \/ Taken(p) \/ Listed(p)
    BY <1>9, BeginsAre, FindIs, ScanIs, CommandsAre DEF Reads
  <2>2. job'[p].pc \notin Sealing
    BY <2>1 DEF Entered, Away, Finding, Skipped, Taken, Listed, Sealing
  <2>3. minted' = minted
    BY <1>9 DEF Reads, Login, Rotate, Reseal, Purge, Find, List, Scan, ResealEnds, ResealRaises,
                ReadKeys, Die
  <2> QED BY <2>2, <2>3
<1>10. CASE ~(Decide(p) \/ Fetch(p) \/ Load(p) \/ Reread(p))
  <2>1. job'[p].pc \notin Sealing /\ minted' = minted BY <1>9, <1>10
  <2> QED BY <1>3, <2>1 DEF KeyOK, Sealing
<1> QED BY <1>5, <1>6, <1>7, <1>8, <1>10

LEMMA ReadsKeepFile ==
  ASSUME JobsTyped, FileInv, NEW p \in Proc, Reads(p)
  PROVE  FileInv'
<1>1. /\ \A q \in Proc : q # p => job'[q] = job[q]
      /\ UNCHANGED <<table, conns, shredded, rushed>>
  BY ReadsTyped
<1> SUFFICES ASSUME ~rushed PROVE FileInv'
  BY <1>1 DEF FileInv
<1>2. /\ KeyOK(job[p])' /\ minted' >= minted /\ minted \in Nat /\ minted' \in Nat
      /\ job'[p].pc = "put" => job'[p].mat = minted + 1 /\ minted' = minted + 1
  BY ReaderKnows
<1>3. Stored(table)' = Stored(table) BY <1>1 DEF Stored
<1>4. Stored(table)' \cap shredded' = {} /\ Stored(table)' \cup shredded' \subseteq 1 .. minted'
  <2>1. Stored(table) \cap shredded = {} /\ Stored(table) \cup shredded \subseteq 1 .. minted
    BY DEF FileInv
  <2>2. 1 .. minted \subseteq 1 .. minted' BY <1>2
  <2> QED BY <1>1, <1>3, <2>1, <2>2
<1>5. ASSUME NEW q \in Proc PROVE KeyOK(job[q])'
  <2>1. CASE q = p BY <1>2, <2>1
  <2>2. CASE q # p
    <3>1. KeyOK(job[q]) /\ job'[q] = job[q] BY <1>1, <2>2 DEF FileInv
    <3>2. job[q].mat <= minted => job[q].mat <= minted'
      <4>1. job[q].mat \in Nat BY JobsTypedIs DEF JobSet
      <4> QED BY <1>2, <4>1
    <3> QED BY <1>1, <1>3, <3>1, <3>2 DEF KeyOK
  <2> QED BY <2>1, <2>2
<1>6. ASSUME NEW q \in Proc, NEW x \in Proc, job'[q].pc = "put", job'[x].pc = "put",
             job'[q].mat = job'[x].mat
      PROVE  q = x
  <2>1. \A y \in Proc : y # p /\ job'[y].pc = "put" => job'[y].mat # minted + 1
    <3> SUFFICES ASSUME NEW y \in Proc, y # p, job'[y].pc = "put" PROVE job'[y].mat # minted + 1
      OBVIOUS
    <3>1. job'[y] = job[y] /\ KeyOK(job[y]) BY <1>1 DEF FileInv
    <3>2. job[y].mat <= minted /\ job[y].mat \in Nat BY <3>1, JobsTypedIs DEF KeyOK, JobSet
    <3> QED BY <1>2, <3>1, <3>2
  <2>2. CASE q # p /\ x # p
    <3>1. job'[q] = job[q] /\ job'[x] = job[x] BY <1>1, <2>2
    <3> QED BY <1>6, <3>1 DEF FileInv
  <2> QED BY <1>2, <1>6, <2>1, <2>2
<1>7. ASSUME NEW i \in Conns, conns'[i].st = "active"
      PROVE  /\ conns'[i].mat # NoKey /\ conns'[i].gen \in Gens
             /\ table'[conns'[i].gen] = conns'[i].mat \/ conns'[i].mat \in shredded'
  BY <1>1, <1>7 DEF FileInv
<1> QED BY <1>4, <1>5, <1>6, <1>7 DEF FileInv

\* A key that is written on a current decision takes a place that was free.
LEMMA PutKeepsFile ==
  ASSUME JobsTyped, FileInv, NEW p \in Proc, PutKey(p)
  PROVE  FileInv'
<1> SUFFICES ASSUME ~rushed' PROVE FileInv'
  BY DEF FileInv
<1> DEFINE g == job[p].gen
           m == job[p].mat
<1>1. job[p] \in JobSet /\ JobOK(job[p]) /\ RestTyped /\ job[p].pc = "put"
  BY JobsTypedIs DEF PutKey
<1>2. ~rushed /\ ~job[p].cut /\ UNCHANGED <<conns, minted, shredded>> BY DEF PutKey
<1>3. /\ job[p].tab = table /\ table[g] = NoKey
      /\ m <= minted /\ m \notin Stored(table) \cup shredded
  BY <1>1, <1>2 DEF FileInv, KeyOK
<1>4. g \in Gens /\ m # NoKey /\ m \in Nat /\ minted \in Nat
  BY <1>1 DEF JobOK, Sealing, JobSet, RestTyped
<1>5. table' = [table EXCEPT ![g] = m] BY <1>3 DEF PutKey
<1>6. table'[g] = m /\ \A h \in Gens : h # g => table'[h] = table[h]
  BY <1>1, <1>4, <1>5 DEF RestTyped
<1>7. Stored(table)' = Stored(table) \cup {m}
  BY <1>3, <1>4, <1>6 DEF Stored
<1>8. /\ job'[p] = [job[p] EXCEPT !.pc = "reread"]
      /\ \A q \in Proc : q # p => job'[q] = [job[q] EXCEPT !.cut = TRUE]
  BY PutTyped
<1>9. /\ job'[p].pc = "reread" /\ job'[p].gen = g /\ job'[p].mat = m
      /\ \A q \in Proc : q # p =>
           /\ job'[q].pc = job[q].pc /\ job'[q].gen = job[q].gen /\ job'[q].mat = job[q].mat
           /\ job'[q].cut = TRUE
  <2>1. \A q \in Proc : q # p => Kept(q) /\ job'[q].cut = TRUE BY <1>8, CutKeeps
  <2>2. job'[p].pc = "reread" /\ job'[p].gen = g /\ job'[p].mat = m BY <1>1, <1>8 DEF JobSet
  <2> QED BY <2>1, <2>2 DEF Kept
<1>10. Stored(table)' \cap shredded' = {} /\ Stored(table)' \cup shredded' \subseteq 1 .. minted'
  <2>1. Stored(table) \cap shredded = {} /\ Stored(table) \cup shredded \subseteq 1 .. minted
    BY <1>2 DEF FileInv
  <2>2. m \in 1 .. minted BY <1>3, <1>4 DEF NoKey
  <2> HIDE DEF m
  <2> QED BY <1>2, <1>3, <1>7, <2>1, <2>2
<1>11. \A h \in Gens : \A x : table[h] = x /\ x # NoKey => table'[h] = x
  BY <1>3, <1>6
<1>12. ASSUME NEW q \in Proc PROVE KeyOK(job[q])'
  <2>1. CASE q = p BY <1>6, <1>9, <2>1 DEF KeyOK
  <2>2. CASE q # p
    <3>1. KeyOK(job[q]) /\ job[q] \in JobSet /\ JobOK(job[q]) BY <1>2, JobsTypedIs DEF FileInv
    <3>2. job[q].pc = "put" => job[q].mat # m BY <1>1, <1>2, <2>2 DEF FileInv
    <3>3. job[q].pc \in {"reread", "store"} =>
            table'[job[q].gen] = job[q].mat \/ job[q].mat \in shredded
      BY <1>11, <3>1 DEF KeyOK, JobOK, Sealing
    <3> HIDE DEF m
    <3> QED BY <1>2, <1>7, <1>9, <2>2, <3>1, <3>2, <3>3 DEF KeyOK
  <2> QED BY <2>1, <2>2
<1>13. \A q, x \in Proc : job'[q].pc = "put" /\ job'[x].pc = "put" /\ job'[q].mat = job'[x].mat => q = x
  BY <1>2, <1>9 DEF FileInv
<1>14. ASSUME NEW i \in Conns, conns[i].st = "active"
       PROVE  /\ conns[i].mat # NoKey /\ conns[i].gen \in Gens
              /\ table'[conns[i].gen] = conns[i].mat \/ conns[i].mat \in shredded
  BY <1>2, <1>11, <1>14 DEF FileInv
<1> QED BY <1>2, <1>10, <1>12, <1>13, <1>14 DEF FileInv

\* What is destroyed is remembered.
LEMMA ShredKeepsFile ==
  ASSUME JobsTyped, FileInv, NEW p \in Proc, Shred(p)
  PROVE  FileInv'
<1>1. rushed' = rushed /\ UNCHANGED <<conns, minted>> /\ shredded' = shredded \cup Stored(table)
      /\ table' = [g \in Gens |-> NoKey]
  BY DEF Shred, Destroyed
<1> SUFFICES ASSUME ~rushed PROVE FileInv'
  BY <1>1 DEF FileInv
<1>2. Stored(table)' = {} BY <1>1 DEF Stored
<1>3. Stored(table) \cup shredded \subseteq 1 .. minted BY DEF FileInv
<1>4. /\ job'[p] = [job[p] EXCEPT !.pc = "delete"]
      /\ \A q \in Proc : q # p => job'[q] = [job[q] EXCEPT !.cut = TRUE]
  BY ShredTyped
<1>5. /\ job'[p].pc = "delete"
      /\ \A q \in Proc : q # p =>
           /\ job'[q].pc = job[q].pc /\ job'[q].gen = job[q].gen /\ job'[q].mat = job[q].mat
           /\ job'[q].cut = TRUE
  <2>1. \A q \in Proc : q # p => Kept(q) /\ job'[q].cut = TRUE BY <1>4, CutKeeps
  <2>2. job'[p].pc = "delete" BY <1>4, JobsTypedIs DEF JobSet
  <2> QED BY <2>1, <2>2 DEF Kept
<1>6. \A g \in Gens : \A m : table[g] = m /\ m # NoKey => m \in shredded' BY <1>1 DEF Stored
<1>7. ASSUME NEW q \in Proc PROVE KeyOK(job[q])'
  <2>1. CASE q = p BY <1>5, <2>1 DEF KeyOK
  <2>2. CASE q # p
    <3>1. KeyOK(job[q]) /\ JobOK(job[q]) BY JobsTypedIs DEF FileInv
    <3>2. job[q].pc \in {"reread", "store"} => job[q].mat \in shredded'
      BY <1>1, <1>6, <3>1 DEF KeyOK, JobOK, Sealing
    <3>3. job[q].pc = "put" => job[q].mat <= minted /\ job[q].mat \notin shredded'
      BY <1>1, <3>1 DEF KeyOK
    <3> QED BY <1>1, <1>2, <1>5, <2>2, <3>2, <3>3 DEF KeyOK
  <2> QED BY <2>1, <2>2
<1>8. \A q, x \in Proc : job'[q].pc = "put" /\ job'[x].pc = "put" /\ job'[q].mat = job'[x].mat => q = x
  BY <1>5 DEF FileInv
<1>9. \A i \in Conns : conns[i].st = "active" =>
        conns[i].mat # NoKey /\ conns[i].gen \in Gens /\ conns[i].mat \in shredded'
  BY <1>1, <1>6 DEF FileInv
<1> QED BY <1>1, <1>2, <1>3, <1>7, <1>8, <1>9 DEF FileInv

\* Nobody who writes a connection touches the file, or moves anybody on it.
LEMMA ConnsKeepFile ==
  ASSUME JobsTyped, FileInv, UNCHANGED <<table, minted, shredded, rushed>>,
         \A q \in Proc : \/ job'[q].pc \notin Sealing
                         \/ /\ job'[q].pc = job[q].pc /\ job'[q].gen = job[q].gen
                            /\ job'[q].mat = job[q].mat /\ job'[q].cut = job[q].cut
                            /\ job'[q].tab = job[q].tab,
         ~rushed => \A i \in Conns : conns'[i].st = "active" =>
            /\ conns'[i].mat # NoKey /\ conns'[i].gen \in Gens
            /\ table[conns'[i].gen] = conns'[i].mat \/ conns'[i].mat \in shredded
  PROVE  FileInv'
<1> SUFFICES ASSUME ~rushed PROVE FileInv'
  BY DEF FileInv
<1>1. Stored(table)' = Stored(table) BY DEF Stored
<1>2. ASSUME NEW q \in Proc PROVE KeyOK(job[q])'
  <2>1. KeyOK(job[q]) BY DEF FileInv
  <2>2. CASE job'[q].pc \notin Sealing BY <2>2 DEF KeyOK, Sealing
  <2>3. CASE /\ job'[q].pc = job[q].pc /\ job'[q].gen = job[q].gen
             /\ job'[q].mat = job[q].mat /\ job'[q].cut = job[q].cut /\ job'[q].tab = job[q].tab
    BY <1>1, <2>1, <2>3 DEF KeyOK
  <2> QED BY <2>2, <2>3
<1>3. \A q, x \in Proc : job'[q].pc = "put" /\ job'[x].pc = "put" /\ job'[q].mat = job'[x].mat => q = x
  BY DEF FileInv, Sealing
<1> QED BY <1>1, <1>2, <1>3 DEF FileInv

LEMMA StoreKeepsFile ==
  ASSUME JobsTyped, FileInv, NEW p \in Proc, Store(p)
  PROVE  FileInv'
<1>1. job[p] \in JobSet /\ JobOK(job[p]) /\ job[p].pc = "store" BY JobsTypedIs DEF Store
<1>2. PICK i \in Conns :
        conns' = [conns EXCEPT ![i] =
                   [st |-> "active", owner |-> job[p].owner, secret |-> job[p].secret,
                    gen |-> job[p].gen, mat |-> job[p].mat]]
  BY StoreTyped
<1>3. /\ job'[p] = IF job[p].op = "login" THEN AtRest
                   ELSE [job[p] EXCEPT !.pc = "scan", !.owner = Common]
      /\ \A q \in Proc : q # p =>
           job'[q] = [job[q] EXCEPT !.late = job[q].late \/ job[q].owner = job[p].owner]
  BY StoreTyped
<1>4. job'[p].pc \notin Sealing BY <1>1, <1>3 DEF AtRest, JobSet, Sealing
<1>5. \A q \in Proc : q # p => /\ job'[q].pc = job[q].pc /\ job'[q].gen = job[q].gen
                               /\ job'[q].mat = job[q].mat /\ job'[q].cut = job[q].cut
                               /\ job'[q].tab = job[q].tab
  <2>1. \A q \in Proc : q # p => Kept(q) /\ job'[q].cut = job[q].cut BY <1>3, OwnersKeep
  <2> QED BY <2>1 DEF Kept
<1>6. UNCHANGED <<table, minted, shredded, rushed>> BY DEF Store
<1>7. ASSUME ~rushed, NEW j \in Conns, conns'[j].st = "active"
      PROVE  /\ conns'[j].mat # NoKey /\ conns'[j].gen \in Gens
             /\ table[conns'[j].gen] = conns'[j].mat \/ conns'[j].mat \in shredded
  <2>1. conns \in [Conns -> ConnSet] BY JobsTypedIs DEF RestTyped
  <2>2. CASE j = i
    <3>1. conns'[j].gen = job[p].gen /\ conns'[j].mat = job[p].mat BY <1>2, <2>1, <2>2
    <3>2. KeyOK(job[p]) BY <1>7 DEF FileInv
    <3> QED BY <1>1, <3>1, <3>2 DEF KeyOK, JobOK, Sealing
  <2>3. CASE j # i
    <3>1. conns'[j] = conns[j] BY <1>2, <2>1, <2>3
    <3> QED BY <1>7, <3>1 DEF FileInv
  <2> QED BY <2>2, <2>3
<1> QED BY <1>4, <1>5, <1>6, <1>7, ConnsKeepFile

LEMMA RevokeKeepsFile ==
  ASSUME JobsTyped, FileInv, NEW i \in Conns, Revoke(i)
  PROVE  FileInv'
<1>1. \A q \in Proc : job'[q] = [job[q] EXCEPT !.late = job[q].late \/ job[q].owner = conns[i].owner]
  BY RevokeTyped
<1>2. \A q \in Proc : /\ job'[q].pc = job[q].pc /\ job'[q].gen = job[q].gen
                      /\ job'[q].mat = job[q].mat /\ job'[q].cut = job[q].cut
                      /\ job'[q].tab = job[q].tab
  <2>1. \A q \in Proc : Kept(q) /\ job'[q].cut = job[q].cut BY <1>1, OwnersKeep
  <2> QED BY <2>1 DEF Kept
<1>3. UNCHANGED <<table, minted, shredded, rushed>> BY DEF Revoke, memory
<1>4. \A j \in Conns : conns'[j].st = "active" => conns'[j] = conns[j]
  <2>1. conns \in [Conns -> ConnSet] BY JobsTypedIs DEF RestTyped
  <2>2. conns'[i].st = "revoked" BY <2>1 DEF Revoke, NoConn
  <2>3. \A j \in Conns : j # i => conns'[j] = conns[j] BY <2>1 DEF Revoke
  <2> QED BY <2>2, <2>3
<1>5. ASSUME ~rushed, NEW j \in Conns, conns'[j].st = "active"
      PROVE  /\ conns'[j].mat # NoKey /\ conns'[j].gen \in Gens
             /\ table[conns'[j].gen] = conns'[j].mat \/ conns'[j].mat \in shredded
  BY <1>4, <1>5 DEF FileInv
<1> QED BY <1>2, <1>3, <1>5, ConnsKeepFile

LEMMA DeleteKeepsFile ==
  ASSUME JobsTyped, FileInv, NEW p \in Proc, DeleteRows(p)
  PROVE  FileInv'
<1>1. job'[p] = AtRest /\ \A q \in Proc : q # p => job'[q] = [job[q] EXCEPT !.late = TRUE]
  BY DeleteTyped
<1>2. \A q \in Proc : q # p => /\ job'[q].pc = job[q].pc /\ job'[q].gen = job[q].gen
                               /\ job'[q].mat = job[q].mat /\ job'[q].cut = job[q].cut
                               /\ job'[q].tab = job[q].tab
  <2>1. \A q \in Proc : q # p => Kept(q) /\ job'[q].cut = job[q].cut BY <1>1, LateKeeps
  <2> QED BY <2>1 DEF Kept
<1>3. UNCHANGED <<table, minted, shredded, rushed>> BY DEF DeleteRows, memory
<1>4. job'[p].pc \notin Sealing BY <1>1 DEF AtRest, Sealing
<1>5. \A j \in Conns : conns'[j].st # "active" BY DEF DeleteRows, NoConn
<1> QED BY <1>2, <1>3, <1>4, <1>5, ConnsKeepFile

LEMMA FileKeeps == JobsTyped /\ FileInv /\ [KeysNext]_keyVars => FileInv'
<1> SUFFICES ASSUME JobsTyped, FileInv, [KeysNext]_keyVars PROVE FileInv'
  OBVIOUS
<1>1. CASE KeysNext
  BY <1>1, ReadsKeepFile, PutKeepsFile, ShredKeepsFile, StoreKeepsFile, RevokeKeepsFile,
     DeleteKeepsFile DEF KeysNext, Reads, Proc
<1>2. CASE UNCHANGED keyVars
  BY <1>2 DEF keyVars, memory, FileInv, KeyOK, Stored
<1> QED BY <1>1, <1>2
-----------------------------------------------------------------------------
(* Whose connection it is. *)

LEMMA OwnerInit == KeysInit => OwnerInv
BY DEF KeysInit, OwnerInv, RowOK, Found, Writing, Sealing, AtRest, NoConn, ActiveOf, NoStaleToken

\* What is found is of the owner it was looked for, and what is taken for a re-seal is
\* the owner's last secret, unless it is borrowed.
LEMMA ReaderOwns ==
  ASSUME JobsTyped, OwnerInv, NEW p \in Proc, Reads(p)
  PROVE  /\ RowOK(job[p])'
         /\ \A q \in Proc : q # p /\ Found(job'[p]) /\ Found(job[q]) /\ job'[p].row = job[q].row
                            /\ job[q].row # 0 => job'[p].owner = job[q].owner
<1>1. /\ UNCHANGED <<conns, newest, stale>> /\ borrowed \subseteq borrowed'
      /\ job[p] \in JobSet /\ JobOK(job[p]) /\ \A q \in Proc : RowOK(job[q])
  BY ReadsTyped, ReadsAre, JobsTypedIs DEF OwnerInv
<1>2. \A o : ActiveOf(o)' = ActiveOf(o) BY <1>1 DEF ActiveOf
<1>3. CASE Onward(p)
  <2>1. /\ job'[p].row = job[p].row /\ job'[p].owner = job[p].owner /\ job'[p].op = job[p].op
        /\ job'[p].secret = job[p].secret /\ job'[p].late = job[p].late
        /\ job[p].pc \in Writing /\ job'[p].pc \in Sealing
    BY <1>3 DEF Onward
  <2>2. Found(job'[p]) => Found(job[p]) BY <2>1 DEF Found
  <2>3. job'[p].pc # "find" BY <2>1 DEF Sealing
  <2>4. RowOK(job[p]) BY <1>1
  <2>5. RowOK(job[p])' BY <1>1, <1>2, <2>1, <2>2, <2>3, <2>4 DEF RowOK
  <2> QED BY <2>1, <2>2, <2>5 DEF OwnerInv
<1>4. CASE Away(p) \/ Listed(p) \/ Skipped(p)
  <2>1. ~Found(job'[p]) /\ ~(job'[p].pc = "find" /\ job'[p].op = "reseal")
    BY <1>1, <1>4 DEF Away, Listed, Skipped, Found, Writing, Sealing, JobOK
  <2> QED BY <2>1 DEF RowOK
<1>5. CASE Entered(p)
  BY <1>5 DEF Entered, RowOK, Found, Writing, Sealing
<1>6. CASE Finding(p)
  <2> DEFINE o == job[p].owner
             i == job'[p].row
  <2>1. /\ i \in IF ActiveOf(o) = {} THEN {0} ELSE ActiveOf(o)
        /\ job'[p].owner = o /\ job'[p].op = job[p].op /\ job'[p].secret = job[p].secret
        /\ job'[p].pc = "decide" /\ job[p].pc = "find"
        /\ job[p].op = "reseal" => job'[p].late = job[p].late
    BY <1>6 DEF Finding
  <2>2. i # 0 => conns[i].st = "active" /\ conns[i].owner = o /\ i \in ActiveOf(o)
    BY <2>1 DEF ActiveOf
  <2>3. o \notin stale => ActiveOf(o) = IF i = 0 THEN {} ELSE {i}
    <3>1. ASSUME o \notin stale, ActiveOf(o) # {} PROVE ActiveOf(o) = {i} /\ i # 0
      <4>1. i \in ActiveOf(o) /\ i \in Conns BY <2>1, <3>1 DEF ActiveOf
      <4>2. i # 0 BY <4>1, KeysAssumption DEF Conns
      <4>3. \A j \in ActiveOf(o) : j = i
        <5>1. o \in Owner \ stale BY <1>1, <3>1 DEF JobSet
        <5> HIDE DEF i, o
        <5> QED BY <4>1, <5>1 DEF OwnerInv
      <4> HIDE DEF i
      <4> QED BY <4>1, <4>2, <4>3
    <3> QED BY <2>1, <3>1
  <2>4. job[p].op = "reseal" /\ ~job[p].late /\ o \notin stale \cup borrowed => job[p].secret = newest[o]
    BY <1>1, <2>1 DEF RowOK
  <2>5. RowOK(job[p])'
    <3> HIDE DEF i
    <3>1. i = job'[p].row BY DEF i
    <3> QED BY <1>1, <1>2, <2>1, <2>2, <2>3, <2>4, <3>1 DEF RowOK
  <2>6. ASSUME NEW q \in Proc, Found(job[q]), job[q].row = i, i # 0 PROVE job[q].owner = o
    <3>1. conns[job[q].row].st = "absent" \/ conns[job[q].row].owner = job[q].owner
      BY <1>1, <2>6 DEF RowOK
    <3> QED BY <2>2, <2>6, <3>1
  <2> QED BY <2>1, <2>5, <2>6
<1>7. CASE Taken(p)
  <2>1. PICK d \in job[p].todo : \E i \in Lookup(d[2]) :
          /\ job'[p].owner = d[2] /\ job'[p].secret = conns[i].secret
          /\ conns[i].owner # d[2] => d[2] \in borrowed'
    BY <1>7 DEF Taken
  <2>2. PICK i \in Lookup(d[2]) :
          /\ job'[p].owner = d[2] /\ job'[p].secret = conns[i].secret
          /\ conns[i].owner # d[2] => d[2] \in borrowed'
    BY <2>1
  <2>3. i \in Conns /\ conns[i].st = "active" BY DEF Lookup, ActiveOf
  <2>4. ASSUME d[2] \notin stale \cup borrowed' PROVE job'[p].secret = newest[d[2]]
    <3>1. conns[i].owner = d[2] /\ d[2] \notin stale \cup borrowed BY <1>1, <2>2, <2>4
    <3>2. conns[i].secret = newest[conns[i].owner] BY <2>3, <3>1 DEF OwnerInv, NoStaleToken
    <3> QED BY <2>2, <3>1, <3>2
  <2>5. job'[p].pc = "find" BY <1>7 DEF Taken
  <2>6. ~Found(job'[p]) BY <2>5 DEF Found, Writing, Sealing
  <2> QED BY <1>1, <2>2, <2>4, <2>6 DEF RowOK
<1> QED BY <1>3, <1>4, <1>5, <1>6, <1>7, ReadsAre

\* Reading moves one process, and no connection.
LEMMA ReadsKeepOwners ==
  ASSUME JobsTyped, OwnerInv, NEW p \in Proc, Reads(p)
  PROVE  OwnerInv'
<1>1. /\ \A q \in Proc : q # p => job'[q] = job[q]
      /\ UNCHANGED <<conns, newest, stale>> /\ borrowed \subseteq borrowed'
  BY ReadsTyped, ReadsAre
<1>2. \A o : ActiveOf(o)' = ActiveOf(o) BY <1>1 DEF ActiveOf
<1>3. ASSUME NEW q \in Proc PROVE RowOK(job[q])'
  <2>1. CASE q = p BY <2>1, ReaderOwns
  <2>2. CASE q # p
    <3>1. RowOK(job[q]) /\ job'[q] = job[q] BY <1>1, <2>2 DEF OwnerInv
    <3> QED BY <1>1, <1>2, <3>1 DEF RowOK
  <2> QED BY <2>1, <2>2
<1>4. ASSUME NEW x \in Proc, NEW y \in Proc, Found(job'[x]), Found(job'[y]),
             job'[x].row = job'[y].row, job'[x].row # 0
      PROVE  job'[x].owner = job'[y].owner
  <2>1. \A q \in Proc : q # p /\ Found(job'[p]) /\ Found(job[q]) /\ job'[p].row = job[q].row
                        /\ job[q].row # 0 => job'[p].owner = job[q].owner
    BY ReaderOwns
  <2>2. CASE x # p /\ y # p
    <3>1. job'[x] = job[x] /\ job'[y] = job[y] BY <1>1, <2>2
    <3> QED BY <1>4, <3>1 DEF OwnerInv
  <2>3. CASE x = p \/ y = p BY <1>1, <1>4, <2>1, <2>3
  <2> QED BY <2>2, <2>3
<1>5. \A o \in Owner \ stale' : \A i, j \in ActiveOf(o)' : i = j BY <1>1, <1>2 DEF OwnerInv
<1>6. NoStaleToken' BY <1>1 DEF OwnerInv, NoStaleToken
<1> QED BY <1>3, <1>4, <1>5, <1>6 DEF OwnerInv

\* The file belongs to nobody.
LEMMA FileKeepsOwners ==
  ASSUME JobsTyped, OwnerInv, NEW p \in Proc, PutKey(p) \/ Shred(p)
  PROVE  OwnerInv'
<1>1. UNCHANGED <<conns, newest, stale, borrowed>> BY DEF PutKey, Shred
<1>2. \A o : ActiveOf(o)' = ActiveOf(o) BY <1>1 DEF ActiveOf
<1>3. /\ \A q \in Proc : q # p => job'[q] = [job[q] EXCEPT !.cut = TRUE]
      /\ \/ job'[p] = [job[p] EXCEPT !.pc = "reread"] /\ job[p].pc = "put"
         \/ job'[p] = [job[p] EXCEPT !.pc = "delete"]
  BY PutTyped, ShredTyped DEF PutKey
<1>4. ASSUME NEW q \in Proc
      PROVE  /\ Found(job'[q]) => Found(job[q])
             /\ job'[q].pc = "find" => job[q].pc = "find"
             /\ job'[q].row = job[q].row /\ job'[q].owner = job[q].owner /\ job'[q].op = job[q].op
             /\ job'[q].secret = job[q].secret /\ job'[q].late = job[q].late
  <2>1. CASE q = p BY <1>3, <2>1, JobsTypedIs DEF JobSet, Found, Writing, Sealing
  <2>2. CASE q # p
    <3>1. Kept(q) /\ job'[q].late = job[q].late BY <1>3, <2>2, CutKeeps
    <3> QED BY <3>1 DEF Kept, Found
  <2> QED BY <2>1, <2>2
<1>5. ASSUME NEW q \in Proc PROVE RowOK(job[q])'
  <2>1. RowOK(job[q]) BY DEF OwnerInv
  <2> QED BY <1>1, <1>2, <1>4, <2>1 DEF RowOK
<1>6. \A x, y \in Proc : Found(job'[x]) /\ Found(job'[y]) /\ job'[x].row = job'[y].row
                         /\ job'[x].row # 0 => job'[x].owner = job'[y].owner
  BY <1>4 DEF OwnerInv
<1>7. \A o \in Owner \ stale' : \A i, j \in ActiveOf(o)' : i = j BY <1>1, <1>2 DEF OwnerInv
<1>8. NoStaleToken' BY <1>1 DEF OwnerInv, NoStaleToken
<1> QED BY <1>5, <1>6, <1>7, <1>8 DEF OwnerInv

\* The connection that is written belonged to nobody, or to the owner of the secret.
LEMMA StoredRow ==
  ASSUME JobsTyped, OwnerInv, NEW p \in Proc, Store(p)
  PROVE  \E i \in Conns :
           /\ conns'[i] = [st |-> "active", owner |-> job[p].owner, secret |-> job[p].secret,
                           gen |-> job[p].gen, mat |-> job[p].mat]
           /\ \A j \in Conns : j # i => conns'[j] = conns[j]
           /\ conns[i].st = "absent" \/ conns[i].owner = job[p].owner
           /\ ~job[p].late /\ job[p].owner \notin stale => ActiveOf(job[p].owner) \subseteq {i}
           /\ conns[i].st # "absent" /\ ~job[p].late /\ job[p].owner \notin stale
                => i \in ActiveOf(job[p].owner)
           /\ \A q \in Proc : q # p /\ Found(job[q]) /\ job[q].row = i => job[q].owner = job[p].owner
<1>1. job[p].pc = "store" /\ job[p] \in JobSet /\ JobOK(job[p]) /\ RowOK(job[p])
  BY JobsTypedIs DEF Store, OwnerInv
<1>2. Found(job[p]) BY <1>1 DEF Found, Writing, Sealing, JobOK
<1>3. PICK i \in Conns :
        /\ i = job[p].row \/ (job[p].row = 0 /\ i \in FreshIds)
        /\ conns' = [conns EXCEPT ![i] =
             [st |-> "active", owner |-> job[p].owner, secret |-> job[p].secret,
              gen |-> job[p].gen, mat |-> job[p].mat]]
  BY StoreTyped
<1>4. conns \in [Conns -> ConnSet] BY JobsTypedIs DEF RestTyped
<1>5. /\ conns'[i] = [st |-> "active", owner |-> job[p].owner, secret |-> job[p].secret,
                      gen |-> job[p].gen, mat |-> job[p].mat]
      /\ \A j \in Conns : j # i => conns'[j] = conns[j]
  BY <1>3, <1>4
<1>6. i # 0 BY KeysAssumption DEF Conns
<1>7. i \in FreshIds => conns[i].st = "absent" /\ \A q \in Proc : job[q].row # i BY DEF FreshIds
<1>8. conns[i].st = "absent" \/ conns[i].owner = job[p].owner
  BY <1>1, <1>2, <1>3, <1>6, <1>7 DEF RowOK
<1>9. ~job[p].late /\ job[p].owner \notin stale =>
        /\ ActiveOf(job[p].owner) \subseteq {i}
        /\ conns[i].st # "absent" => i \in ActiveOf(job[p].owner)
  BY <1>1, <1>2, <1>3, <1>6, <1>7 DEF RowOK
<1>10. \A q \in Proc : q # p /\ Found(job[q]) /\ job[q].row = i => job[q].owner = job[p].owner
  BY <1>2, <1>3, <1>6, <1>7 DEF OwnerInv
<1> QED BY <1>5, <1>8, <1>9, <1>10

LEMMA StoreKeepsOwners ==
  ASSUME JobsTyped, OwnerInv, NEW p \in Proc, Store(p)
  PROVE  OwnerInv'
<1> DEFINE o == job[p].owner
<1>1. PICK i \in Conns :
        /\ conns'[i] = [st |-> "active", owner |-> o, secret |-> job[p].secret,
                        gen |-> job[p].gen, mat |-> job[p].mat]
        /\ \A j \in Conns : j # i => conns'[j] = conns[j]
        /\ conns[i].st = "absent" \/ conns[i].owner = o
        /\ ~job[p].late /\ o \notin stale => ActiveOf(o) \subseteq {i}
        /\ \A q \in Proc : q # p /\ Found(job[q]) /\ job[q].row = i => job[q].owner = o
  BY StoredRow
<1>2. conns'[i].st = "active" /\ conns'[i].owner = o /\ conns'[i].secret = job[p].secret BY <1>1
<1>3. /\ job[p] \in JobSet /\ JobOK(job[p]) /\ job[p].pc = "store" /\ RowOK(job[p])
      /\ newest \in [Owner -> 0 .. MaxLogins]
  BY JobsTypedIs DEF Store, OwnerInv, RestTyped
<1>4. job[p].op \in {"login", "reseal"} /\ Found(job[p]) /\ o \in Owner
  BY <1>3 DEF JobOK, Found, Writing, Sealing, JobSet
<1>5. /\ newest' = IF job[p].op = "login" THEN [newest EXCEPT ![o] = job[p].secret] ELSE newest
      /\ stale' = IF job[p].late THEN stale \cup {o} ELSE stale
      /\ borrowed' = borrowed
  BY DEF Store
<1>6. job'[p].pc \in {"idle", "scan"}
  <2>1. job'[p] = AtRest \/ job'[p] = [job[p] EXCEPT !.pc = "scan", !.owner = Common]
    BY StoreTyped
  <2>2. [job[p] EXCEPT !.pc = "scan", !.owner = Common].pc = "scan" BY <1>3 DEF JobSet
  <2>3. AtRest.pc = "idle" BY DEF AtRest
  <2> QED BY <2>1, <2>2, <2>3
<1>7. \A q \in Proc : q # p => Kept(q) /\ (job'[q].late <=> job[q].late \/ job[q].owner = o)
  <2>1. \A q \in Proc : q # p => job'[q] = [job[q] EXCEPT !.late = job[q].late \/ job[q].owner = o]
    BY StoreTyped
  <2> HIDE DEF o
  <2> QED BY <2>1, OwnersKeep
<1>8. \A q \in Proc : Found(job'[q]) => q # p /\ Found(job[q])
  BY <1>6, <1>7 DEF Found, Kept, Writing, Sealing
<1>9. \A x : x # o => ActiveOf(x)' = ActiveOf(x)
  BY <1>1, <1>2 DEF ActiveOf
<1>10. \A x \in Owner : x # o => newest'[x] = newest[x] BY <1>3, <1>5
<1> HIDE DEF o
<1>11. ASSUME NEW q \in Proc PROVE RowOK(job[q])'
  <2>1. CASE q = p BY <1>6, <2>1 DEF RowOK, Found, Writing, Sealing
  <2>2. CASE q # p
    <3>1. RowOK(job[q]) /\ job[q] \in JobSet BY JobsTypedIs DEF OwnerInv
    <3>2. /\ job'[q].pc = job[q].pc /\ job'[q].op = job[q].op /\ job'[q].owner = job[q].owner
          /\ job'[q].row = job[q].row /\ job'[q].secret = job[q].secret
          /\ job'[q].late <=> job[q].late \/ job[q].owner = o
      BY <1>7, <2>2 DEF Kept
    <3>3. Found(job'[q]) <=> Found(job[q]) BY <3>2 DEF Found
    <3>4. Found(job[q]) /\ job[q].row # 0 =>
            conns'[job[q].row].st = "absent" \/ conns'[job[q].row].owner = job[q].owner
      <4>1. job[q].row # 0 => job[q].row \in Conns BY <3>1, KeysAssumption DEF JobSet, Conns
      <4>2. CASE job[q].row = i BY <1>1, <1>2, <2>2, <4>2
      <4>3. CASE job[q].row # i BY <1>1, <3>1, <4>1, <4>3 DEF RowOK
      <4> QED BY <4>2, <4>3
    <3>5. Found(job[q]) /\ ~job'[q].late /\ job[q].owner \notin stale' =>
            ActiveOf(job[q].owner)' = IF job[q].row = 0 THEN {} ELSE {job[q].row}
      BY <1>5, <1>9, <3>1, <3>2 DEF RowOK
    <3>6. (job[q].pc = "find" \/ Found(job[q])) /\ job[q].op = "reseal" /\ ~job'[q].late
          /\ job[q].owner \notin stale' \cup borrowed' => job[q].secret = newest'[job[q].owner]
      <4>1. job[q].owner \in Owner BY <3>1 DEF JobSet
      <4> QED BY <1>5, <1>10, <3>1, <3>2, <4>1 DEF RowOK
    <3> QED BY <3>2, <3>3, <3>4, <3>5, <3>6 DEF RowOK
  <2> QED BY <2>1, <2>2
<1>12. \A x, y \in Proc : Found(job'[x]) /\ Found(job'[y]) /\ job'[x].row = job'[y].row
                          /\ job'[x].row # 0 => job'[x].owner = job'[y].owner
  BY <1>7, <1>8 DEF OwnerInv, Kept
<1>13. ASSUME NEW x \in Owner \ stale', NEW j \in ActiveOf(x)', NEW k \in ActiveOf(x)'
       PROVE  j = k
  <2>1. x \notin stale BY <1>5
  <2>2. CASE x # o BY <1>9, <2>1, <2>2 DEF OwnerInv
  <2>3. CASE x = o
    <3>1. ActiveOf(o) \subseteq {i} BY <1>1, <1>5, <2>1, <2>3
    <3>2. \A l \in ActiveOf(x)' : l # i => l \in ActiveOf(x) BY <1>1 DEF ActiveOf
    <3> QED BY <2>3, <3>1, <3>2
  <2> QED BY <2>2, <2>3
<1>14. ASSUME NEW j \in Conns, conns'[j].st = "active", conns'[j].owner \notin stale' \cup borrowed'
       PROVE  conns'[j].secret = newest'[conns'[j].owner]
  <2>1. CASE j = i
    <3>1. ~job[p].late /\ o \notin stale \cup borrowed BY <1>2, <1>5, <1>14, <2>1
    <3>2. job[p].secret = newest'[o]
      <4>1. CASE job[p].op = "login" BY <1>3, <1>4, <1>5, <4>1
      <4>2. CASE job[p].op = "reseal" BY <1>3, <1>4, <1>5, <3>1, <4>2 DEF RowOK, o
      <4> QED BY <1>4, <4>1, <4>2
    <3> QED BY <1>2, <2>1, <3>2
  <2>2. CASE j # i
    <3>1. conns'[j] = conns[j] BY <1>1, <2>2
    <3>2. conns[j].secret = newest[conns[j].owner] /\ conns[j].owner \in Owner
      <4>1. conns[j].owner \notin stale \cup borrowed BY <1>5, <1>14, <3>1
      <4> QED BY <1>14, <3>1, <4>1, JobsTypedIs DEF OwnerInv, NoStaleToken, RestTyped, ConnSet
    <3>3. conns[j].owner # o
      <4>1. SUFFICES ASSUME conns[j].owner = o PROVE FALSE OBVIOUS
      <4>2. j \in ActiveOf(o) BY <1>14, <3>1, <4>1 DEF ActiveOf
      <4>3. ~job[p].late /\ o \notin stale BY <1>5, <1>14, <3>1, <4>1
      <4> QED BY <1>1, <2>2, <4>2, <4>3
    <3> QED BY <1>10, <3>1, <3>2, <3>3
  <2> QED BY <2>1, <2>2
<1>15. NoStaleToken' BY <1>14 DEF NoStaleToken
<1> QED BY <1>11, <1>12, <1>13, <1>15 DEF OwnerInv

LEMMA RevokeKeepsOwners ==
  ASSUME JobsTyped, OwnerInv, NEW i \in Conns, Revoke(i)
  PROVE  OwnerInv'
<1> DEFINE o == conns[i].owner
<1>1. UNCHANGED <<newest, stale, borrowed>> BY DEF Revoke, memory
<1>2. conns'[i].st = "revoked" /\ conns'[i].owner = o /\ \A j \in Conns : j # i => conns'[j] = conns[j]
  BY JobsTypedIs DEF Revoke, RestTyped, NoConn
<1>3. conns[i].st = "active" BY DEF Revoke
<1>4. \A q \in Proc : Kept(q) /\ (job'[q].late <=> job[q].late \/ job[q].owner = o)
  <2>1. \A q \in Proc : job'[q] = [job[q] EXCEPT !.late = job[q].late \/ job[q].owner = o]
    BY RevokeTyped
  <2> HIDE DEF o
  <2> QED BY <2>1, OwnersKeep
<1>5. /\ \A x : x # o => ActiveOf(x)' = ActiveOf(x)
      /\ \A x : ActiveOf(x)' \subseteq ActiveOf(x)
  BY <1>2, <1>3 DEF ActiveOf
<1> HIDE DEF o
<1>6. ASSUME NEW q \in Proc PROVE RowOK(job[q])'
  <2>1. RowOK(job[q]) /\ job[q] \in JobSet BY JobsTypedIs DEF OwnerInv
  <2>2. /\ job'[q].pc = job[q].pc /\ job'[q].op = job[q].op /\ job'[q].owner = job[q].owner
        /\ job'[q].row = job[q].row /\ job'[q].secret = job[q].secret
        /\ job'[q].late <=> job[q].late \/ job[q].owner = o
    BY <1>4 DEF Kept
  <2>3. Found(job'[q]) <=> Found(job[q]) BY <2>2 DEF Found
  <2>4. Found(job[q]) /\ job[q].row # 0 =>
          conns'[job[q].row].st = "absent" \/ conns'[job[q].row].owner = job[q].owner
    <3>1. job[q].row # 0 => job[q].row \in Conns BY <2>1, KeysAssumption DEF JobSet, Conns
    <3>2. CASE job[q].row = i BY <1>2, <1>3, <2>1, <3>2 DEF RowOK, o
    <3>3. CASE job[q].row # i BY <1>2, <2>1, <3>1, <3>3 DEF RowOK
    <3> QED BY <3>2, <3>3
  <2> QED BY <1>1, <1>5, <2>1, <2>2, <2>3, <2>4 DEF RowOK
<1>7. \A x, y \in Proc : Found(job'[x]) /\ Found(job'[y]) /\ job'[x].row = job'[y].row
                         /\ job'[x].row # 0 => job'[x].owner = job'[y].owner
  BY <1>4 DEF OwnerInv, Kept, Found
<1>8. \A x \in Owner \ stale' : \A j, k \in ActiveOf(x)' : j = k
  BY <1>1, <1>5 DEF OwnerInv
<1>9. NoStaleToken' BY <1>1, <1>2 DEF OwnerInv, NoStaleToken
<1> QED BY <1>6, <1>7, <1>8, <1>9 DEF OwnerInv

LEMMA DeleteKeepsOwners ==
  ASSUME JobsTyped, OwnerInv, NEW p \in Proc, DeleteRows(p)
  PROVE  OwnerInv'
<1>1. \A i \in Conns : conns'[i].st = "absent" BY DEF DeleteRows, NoConn
<1>2. \A q \in Proc : q # p => Kept(q) /\ job'[q].late BY DeleteTyped, LateKeeps
<1>3. job'[p].pc = "idle" BY DeleteTyped DEF AtRest
<1>4. ASSUME NEW q \in Proc PROVE RowOK(job[q])'
  <2>1. CASE q = p BY <1>3, <2>1 DEF RowOK, Found, Writing, Sealing
  <2>2. CASE q # p
    <3>1. job'[q].row # 0 => job'[q].row \in Conns
      <4>1. job'[q] \in JobSet BY DeleteTyped DEF JobsTyped, KeysTyped, JobSet
      <4> QED BY <4>1, KeysAssumption DEF JobSet, Conns
    <3> QED BY <1>1, <1>2, <2>2, <3>1 DEF RowOK
  <2> QED BY <2>1, <2>2
<1>5. \A x, y \in Proc : Found(job'[x]) /\ Found(job'[y]) /\ job'[x].row = job'[y].row
                         /\ job'[x].row # 0 => job'[x].owner = job'[y].owner
  BY <1>2, <1>3 DEF OwnerInv, Kept, Found, Writing, Sealing
<1>6. \A o : ActiveOf(o)' = {} BY <1>1 DEF ActiveOf
<1>7. NoStaleToken' BY <1>1 DEF NoStaleToken
<1> QED BY <1>4, <1>5, <1>6, <1>7 DEF OwnerInv

LEMMA OwnersKeepTheirOwn == JobsTyped /\ OwnerInv /\ [KeysNext]_keyVars => OwnerInv'
<1> SUFFICES ASSUME JobsTyped, OwnerInv, [KeysNext]_keyVars PROVE OwnerInv'
  OBVIOUS
<1>1. CASE KeysNext
  BY <1>1, ReadsKeepOwners, FileKeepsOwners, StoreKeepsOwners, RevokeKeepsOwners,
     DeleteKeepsOwners DEF KeysNext, Reads, Proc
<1>2. CASE UNCHANGED keyVars
  BY <1>2 DEF keyVars, memory, OwnerInv, RowOK, ActiveOf, NoStaleToken
<1> QED BY <1>1, <1>2

\* A revoked connection becomes active only when its owner was writing as it was revoked.
LEMMA RevokedStays ==
  ASSUME JobsTyped, OwnerInv, [KeysNext]_keyVars
  PROVE  RevokedStaysRevoked
<1> SUFFICES ASSUME NEW i \in Conns, conns[i].st = "revoked", conns'[i].st = "active"
             PROVE  conns[i].owner \in stale'
  BY DEF RevokedStaysRevoked
<1>1. conns' # conns OBVIOUS
<1>2. PICK p \in Proc : Store(p)
  <2>1. KeysNext BY <1>1 DEF keyVars
  <2>2. ASSUME NEW j \in Conns, Revoke(j) PROVE FALSE
    <3>1. conns'[j].st = "revoked" /\ \A k \in Conns : k # j => conns'[k] = conns[k]
      BY <2>2, JobsTypedIs DEF Revoke, RestTyped, NoConn
    <3> QED BY <3>1
  <2>3. ASSUME NEW p \in Proc, DeleteRows(p) PROVE FALSE BY <2>3 DEF DeleteRows, NoConn
  <2>4. ASSUME NEW p \in Proc, Reads(p) PROVE FALSE BY <1>1, <2>4, ReadsTyped
  <2>5. ASSUME NEW p \in Proc, PutKey(p) \/ Shred(p) PROVE FALSE BY <1>1, <2>5 DEF PutKey, Shred
  <2> QED BY <2>1, <2>2, <2>3, <2>4, <2>5 DEF KeysNext, Reads, Proc
<1>3. PICK k \in Conns :
        /\ \A j \in Conns : j # k => conns'[j] = conns[j]
        /\ conns[k].st = "absent" \/ conns[k].owner = job[p].owner
        /\ conns[k].st # "absent" /\ ~job[p].late /\ job[p].owner \notin stale
             => k \in ActiveOf(job[p].owner)
  BY <1>2, StoredRow
<1>4. k = i BY <1>3
<1>5. conns[i].owner = job[p].owner /\ (job[p].late \/ job[p].owner \in stale)
  BY <1>3, <1>4 DEF ActiveOf
<1> QED BY <1>2, <1>5 DEF Store
-----------------------------------------------------------------------------
(* How far a re-seal has come. *)

LEMMA ReachInit == KeysInit => ReachInv
BY DEF KeysInit, ReachInv, OpsOK, GenOK, Reached, Resealing, Writing, Sealing, AtRest

\* The generation a process has chosen is the newest until the file changes.
LEMMA ReaderChooses ==
  ASSUME JobsTyped, NEW p \in Proc, GenOK(job[p]), Reads(p)
  PROVE  GenOK(job[p])'
<1>1. /\ job[p] \in JobSet /\ JobOK(job[p]) /\ table' = table
      /\ \A r : Turns(p, r) => job'[p] = r
  BY JobsTypedIs, ReadsTyped DEF Turns
<1>2. CASE job'[p].pc \notin Sealing \/ job'[p].op = "rotate" BY <1>2 DEF GenOK, Sealing
<1>3. CASE Decide(p)
  <2> DEFINE r0 == [job[p] EXCEPT !.cut = FALSE]
  <2>1. r0 \in JobSet /\ r0.op = job[p].op BY <1>1 DEF JobSet
  <2>2. \/ job[p].op = "rotate" /\ \E g : job'[p] = [r0 EXCEPT !.pc = "load", !.gen = g]
        \/ TopGen(table) = 0 /\ job'[p] = [r0 EXCEPT !.pc = "load", !.gen = 1]
        \/ job'[p] = [r0 EXCEPT !.pc = "fetch", !.gen = TopGen(table)]
    BY <1>1, <1>3, <2>1 DEF Decide
  <2> HIDE DEF r0
  <2>3. \/ job'[p].op = "rotate"
        \/ TopGen(table) = 0 /\ job'[p].pc = "load" /\ job'[p].gen = 1
        \/ job'[p].pc = "fetch" /\ job'[p].gen = TopGen(table)
    <3>1. CASE TopGen(table) = 0 /\ job'[p] = [r0 EXCEPT !.pc = "load", !.gen = 1]
      BY <2>1, <3>1 DEF JobSet
    <3>2. CASE job'[p] = [r0 EXCEPT !.pc = "fetch", !.gen = TopGen(table)]
      BY <2>1, <3>2 DEF JobSet
    <3>3. ASSUME NEW g, job'[p] = [r0 EXCEPT !.pc = "load", !.gen = g], job[p].op = "rotate"
          PROVE  job'[p].op = "rotate"
      BY <2>1, <3>3 DEF JobSet
    <3> QED BY <2>2, <3>1, <3>2, <3>3
  <2> QED BY <1>1, <2>3 DEF GenOK
<1>4. CASE Fetch(p)
  <2>1. job[p].pc = "fetch" /\ job[p].gen \in Gens BY <1>1, <1>4 DEF Fetch, JobOK, Sealing
  <2>2. CASE table[job[p].gen] # NoKey
    <3> DEFINE m == table[job[p].gen]
    <3>1. job'[p] = [job[p] EXCEPT !.pc = "store", !.mat = m] BY <1>1, <1>4, <2>2 DEF Fetch
    <3> HIDE DEF m
    <3>2. /\ job'[p].pc = "store" /\ job'[p].gen = job[p].gen /\ job'[p].cut = job[p].cut
          /\ job'[p].op = job[p].op
      BY <1>1, <3>1 DEF JobSet
    <3> QED BY <1>1, <2>1, <3>2 DEF GenOK
  <2>3. CASE table[job[p].gen] = NoKey
    <3>1. job'[p] = [job[p] EXCEPT !.pc = "load", !.gen = 1] BY <1>1, <1>4, <2>3 DEF Fetch
    <3>2. job'[p].cut = job[p].cut /\ job'[p].op = job[p].op BY <1>1, <3>1 DEF JobSet
    <3>3. TopGen(table) # job[p].gen
      <4>1. job[p].gen # 0 BY <2>1, KeysAssumption DEF Gens
      <4> QED BY <2>3, <4>1, TopIs
    <3>4. job[p].op = "rotate" \/ job[p].cut BY <2>1, <3>3 DEF GenOK
    <3> QED BY <3>2, <3>4 DEF GenOK
  <2> QED BY <2>2, <2>3
<1>5. CASE Load(p)
  <2>1. PICK m : job'[p] = [job[p] EXCEPT !.pc = "put", !.mat = m, !.tab = table]
    BY <1>1, <1>5 DEF Load
  <2>2. /\ job'[p].pc = "put" /\ job'[p].gen = job[p].gen /\ job'[p].cut = job[p].cut
        /\ job'[p].op = job[p].op /\ job'[p].tab = table
    BY <1>1, <2>1 DEF JobSet
  <2>3. job[p].pc = "load" BY <1>5 DEF Load
  <2> QED BY <1>1, <2>2, <2>3 DEF GenOK
<1>6. CASE Reread(p)
  <2>1. job[p].pc = "reread" BY <1>6 DEF Reread
  <2> DEFINE m == IF table[job[p].gen] # NoKey THEN table[job[p].gen] ELSE job[p].mat
             n == [job[p] EXCEPT !.mat = m]
  <2>2. n.op = job[p].op BY <1>1 DEF JobSet
  <2>3. CASE job[p].op # "rotate"
    <3>1. job'[p] = [n EXCEPT !.pc = "store"] BY <1>1, <1>6, <2>2, <2>3 DEF Reread
    <3> HIDE DEF m
    <3>2. /\ n.gen = job[p].gen /\ n.cut = job[p].cut /\ n.op = job[p].op
          /\ [n EXCEPT !.pc = "store"].pc = "store"
      BY <1>1 DEF JobSet
    <3> HIDE DEF n
    <3>3. /\ job'[p].pc = "store" /\ job'[p].gen = job[p].gen /\ job'[p].cut = job[p].cut
          /\ job'[p].op = job[p].op
      BY <3>1, <3>2
    <3> QED BY <1>1, <2>1, <3>3 DEF GenOK
  <2>4. CASE job[p].op = "rotate"
    <3>1. job'[p] = AtRest \/ job'[p] = [AtRest EXCEPT !.pc = "list", !.op = "reseal"]
      BY <1>1, <1>6, <2>2, <2>4 DEF Reread
    <3>2. AtRest.pc = "idle" /\ [AtRest EXCEPT !.pc = "list", !.op = "reseal"].pc = "list" BY DEF AtRest
    <3>3. job'[p].pc \in {"idle", "list"} BY <3>1, <3>2
    <3> QED BY <3>3 DEF GenOK, Sealing
  <2> QED BY <2>3, <2>4
<1>7. CASE ~(Decide(p) \/ Fetch(p) \/ Load(p) \/ Reread(p))
  <2>1. Entered(p) \/ Away(p) \/ Finding(p) \/ Skipped(p) \/ Taken(p) \/ Listed(p)
    BY <1>7, BeginsAre, FindIs, ScanIs, CommandsAre DEF Reads
  <2>2. job'[p].pc \notin Sealing \/ job'[p].op = "rotate"
    BY <2>1 DEF Entered, Away, Finding, Skipped, Taken, Listed, Sealing
  <2> QED BY <1>2, <2>2
<1> QED BY <1>3, <1>4, <1>5, <1>6, <1>7

\* A re-seal has the owners it has not come to yet on its list.
LEMMA ReaderReaches ==
  ASSUME JobsTyped, NEW p \in Proc, Reached(job[p]), Reads(p)
  PROVE  Reached(job[p])'
<1>1. /\ UNCHANGED <<table, conns, stale, lagging, rushed>>
      /\ job[p] \in JobSet /\ JobOK(job[p]) /\ job'[p] \in JobSet
  BY ReadsTyped, JobsTypedIs DEF JobsTyped, KeysTyped, JobSet
<1> SUFFICES ASSUME Resealing(job'[p]), ~rushed
             PROVE  /\ TopGen(table) >= job'[p].base
                    /\ \A i \in Conns : conns[i].st = "active" /\ conns[i].owner \notin stale \cup lagging =>
                         \/ conns[i].gen >= job'[p].base
                         \/ \E d \in job'[p].todo : d[2] = conns[i].owner
                         \/ job'[p].pc # "scan" /\ job'[p].owner = conns[i].owner
  BY <1>1 DEF Reached, Resealing
<1>2. CASE Onward(p)
  <2>1. /\ job[p].pc # "scan" /\ job'[p].pc # "scan" /\ Resealing(job[p])
        /\ job'[p].base = job[p].base /\ job'[p].todo = job[p].todo /\ job'[p].owner = job[p].owner
    BY <1>2 DEF Onward, Resealing, Writing, Sealing
  <2> QED BY <2>1 DEF Reached
<1>3. CASE Away(p) \/ Entered(p)
  BY <1>3 DEF Away, Entered, Resealing, Writing, Sealing
<1>4. CASE Finding(p)
  <2>1. /\ job[p].pc # "scan" /\ job'[p].pc # "scan" /\ Resealing(job[p])
        /\ job'[p].base = job[p].base /\ job'[p].todo = job[p].todo /\ job'[p].owner = job[p].owner
    BY <1>4 DEF Finding, Resealing, Writing, Sealing
  <2> QED BY <2>1 DEF Reached
<1>5. CASE Listed(p)
  <2>1. job'[p].base = TopGen(table) BY <1>5 DEF Listed
  <2>2. TopGen(table) \in Nat BY TopIs, KeysAssumption
  <2>3. ASSUME NEW i \in Conns, conns[i].st = "active"
        PROVE  \E d \in job'[p].todo : d[2] = conns[i].owner
    <3>1. <<i, conns[i].owner>> \in job'[p].todo BY <1>5, <2>3 DEF Listed
    <3> QED BY <3>1
  <2> QED BY <2>1, <2>2, <2>3
<1>6. ASSUME NEW d \in job[p].todo, job'[p].todo = job[p].todo \ {d},
             job[p].pc = "scan", job'[p].base = job[p].base, job'[p].op = job[p].op,
             Lookup(d[2]) = {} \/ (job'[p].pc # "scan" /\ job'[p].owner = d[2])
      PROVE  /\ TopGen(table) >= job'[p].base
             /\ \A i \in Conns : conns[i].st = "active" /\ conns[i].owner \notin stale \cup lagging =>
                  \/ conns[i].gen >= job'[p].base
                  \/ \E e \in job'[p].todo : e[2] = conns[i].owner
                  \/ job'[p].pc # "scan" /\ job'[p].owner = conns[i].owner
  <2>1. Resealing(job[p]) BY <1>6 DEF Resealing
  <2>2. TopGen(table) >= job'[p].base BY <1>6, <2>1 DEF Reached
  <2>3. ASSUME NEW i \in Conns, conns[i].st = "active", conns[i].owner \notin stale \cup lagging
        PROVE  \/ conns[i].gen >= job'[p].base
               \/ \E e \in job'[p].todo : e[2] = conns[i].owner
               \/ job'[p].pc # "scan" /\ job'[p].owner = conns[i].owner
    <3>1. conns[i].gen >= job[p].base \/ \E e \in job[p].todo : e[2] = conns[i].owner
      BY <1>6, <2>1, <2>3 DEF Reached
    <3>2. Lookup(conns[i].owner) # {} BY <2>3 DEF Lookup, ActiveOf
    <3>3. CASE d[2] = conns[i].owner BY <1>6, <3>2, <3>3
    <3>4. CASE d[2] # conns[i].owner BY <1>6, <3>1, <3>4
    <3> QED BY <3>3, <3>4
  <2> QED BY <2>2, <2>3
<1>7. CASE Skipped(p)
  <2>1. PICK d \in job[p].todo : job'[p].todo = job[p].todo \ {d} /\ Lookup(d[2]) = {}
    BY <1>7 DEF Skipped
  <2> QED BY <1>6, <1>7, <2>1 DEF Skipped
<1>8. CASE Taken(p)
  <2>1. PICK d \in job[p].todo : job'[p].todo = job[p].todo \ {d} /\ job'[p].owner = d[2]
    BY <1>8 DEF Taken
  <2>2. job'[p].pc # "scan" BY <1>8 DEF Taken
  <2> QED BY <1>6, <1>8, <2>1, <2>2 DEF Taken
<1> QED BY <1>2, <1>3, <1>4, <1>5, <1>7, <1>8, ReadsAre

\* Reading moves no re-seal but the reader's own.
LEMMA ReadsKeepReach ==
  ASSUME JobsTyped, ReachInv, NEW p \in Proc, Reads(p),
         SameOp(p) \/ p \in Console
  PROVE  ReachInv'
<1>1. /\ UNCHANGED <<table, conns, stale, lagging, rushed>>
      /\ \A q \in Proc : q # p => job'[q] = job[q]
  BY ReadsTyped
<1>2. OpsOK' BY <1>1 DEF ReachInv, OpsOK, SameOp, Commands
<1>3. ASSUME NEW q \in Proc PROVE GenOK(job[q])' /\ Reached(job[q])'
  <2>1. GenOK(job[q]) /\ Reached(job[q]) BY DEF ReachInv
  <2>2. CASE q = p BY <2>1, <2>2, ReaderChooses, ReaderReaches
  <2>3. CASE q # p
    <3>1. job'[q] = job[q] BY <1>1, <2>3
    <3> QED BY <1>1, <2>1, <3>1 DEF GenOK, Reached, Resealing
  <2> QED BY <2>2, <2>3
<1> QED BY <1>2, <1>3 DEF ReachInv

\* A key that is written on a current decision leaves the file no older.
LEMMA PutKeepsReach ==
  ASSUME JobsTyped, FileInv, ReachInv, NEW p \in Proc, PutKey(p)
  PROVE  ReachInv'
<1>1. /\ job[p] \in JobSet /\ JobOK(job[p]) /\ job[p].pc = "put" /\ RestTyped
      /\ GenOK(job[p])
  BY JobsTypedIs DEF PutKey, ReachInv
<1>2. /\ UNCHANGED <<conns, stale, lagging>>
      /\ table' = [job[p].tab EXCEPT ![job[p].gen] = job[p].mat]
      /\ rushed' = (rushed \/ job[p].cut)
  BY DEF PutKey
<1>3. /\ \A q \in Proc : q # p => Kept(q) /\ job'[q].cut
      /\ job'[p] = [job[p] EXCEPT !.pc = "reread"]
  BY PutTyped, CutKeeps
<1>4. /\ job'[p].pc = "reread" /\ job'[p].op = job[p].op /\ job'[p].gen = job[p].gen
      /\ job'[p].cut = job[p].cut /\ job'[p].owner = job[p].owner /\ job'[p].todo = job[p].todo
      /\ job'[p].base = job[p].base
  BY <1>1, <1>3 DEF JobSet
<1>5. job[p].gen \in Gens /\ job[p].mat # NoKey BY <1>1 DEF JobOK, Sealing
<1>6. OpsOK' BY <1>3, <1>4 DEF ReachInv, OpsOK, Kept
<1>7. GenOK(job[p])'
  <2> SUFFICES ASSUME job[p].op # "rotate", ~job[p].cut PROVE job[p].gen = TopGen(table')
    BY <1>4 DEF GenOK
  <2>1. job[p].gen = 1 /\ TopGen(table) = 0 /\ job[p].tab = table BY <1>1 DEF GenOK
  <2>2. table'[1] # NoKey /\ \A g \in Gens : g # 1 => table'[g] = table[g]
    BY <1>1, <1>2, <1>5, <2>1 DEF RestTyped
  <2>3. \A g \in Gens : table[g] = NoKey
    <3>1. \A g \in Gens : g \in Nat /\ g >= 1 BY DEF Gens
    <3> QED BY <2>1, <3>1, TopIs
  <2>4. TopGen(table') # 0 /\ TopGen(table') \in Gens => TopGen(table') = 1
    BY <2>2, <2>3, TopIs
  <2>5. 1 <= TopGen(table') BY <1>5, <2>1, <2>2, TopIs
  <2>6. TopGen(table') # 0 BY <2>5
  <2> QED BY <2>1, <2>4, <2>6, TopIs
<1>8. ~rushed' => TopGen(table') >= TopGen(table)
  <2> SUFFICES ASSUME ~rushed' PROVE TopGen(table') >= TopGen(table)
    OBVIOUS
  <2>1. job[p].tab = table BY <1>1, <1>2 DEF FileInv, KeyOK
  <2>2. \A g \in Gens : table[g] # NoKey => table'[g] # NoKey
    BY <1>1, <1>2, <1>5, <2>1 DEF RestTyped
  <2>3. TopGen(table) # 0 => TopGen(table) <= TopGen(table') BY <2>2, TopIs
  <2>4. TopGen(table) \in Nat /\ TopGen(table') \in Nat BY TopIs, KeysAssumption
  <2> QED BY <2>3, <2>4
<1>9. ASSUME NEW q \in Proc PROVE GenOK(job[q])'
  BY <1>3, <1>7 DEF GenOK
<1>10. ASSUME NEW q \in Proc PROVE Reached(job[q])'
  <2> SUFFICES ASSUME Resealing(job'[q]), ~rushed'
               PROVE  /\ TopGen(table') >= job'[q].base
                      /\ \A i \in Conns : conns[i].st = "active" /\ conns[i].owner \notin stale \cup lagging =>
                           \/ conns[i].gen >= job'[q].base
                           \/ \E d \in job'[q].todo : d[2] = conns[i].owner
                           \/ job'[q].pc # "scan" /\ job'[q].owner = conns[i].owner
    BY <1>2 DEF Reached, Resealing
  <2>1. /\ job'[q].base = job[q].base /\ job'[q].todo = job[q].todo /\ job'[q].owner = job[q].owner
        /\ job'[q].op = job[q].op
    BY <1>3, <1>4 DEF Kept
  <2>2. Resealing(job[q]) /\ (job[q].pc # "scan" => job'[q].pc # "scan")
    <3>1. CASE q = p
      <4>1. job[p].op = "reseal" BY <1>4, <3>1 DEF Resealing
      <4> QED BY <1>1, <1>4, <3>1, <4>1 DEF Resealing, Writing, Sealing
    <3>2. CASE q # p
      <4>1. job'[q].pc = job[q].pc /\ job'[q].op = job[q].op BY <1>3, <3>2 DEF Kept
      <4> QED BY <4>1 DEF Resealing
    <3> QED BY <3>1, <3>2
  <2>3. Reached(job[q]) BY DEF ReachInv
  <2>4. ~rushed BY <1>2
  <2>5. job[q].base \in Nat /\ TopGen(table) \in Nat /\ TopGen(table') \in Nat
    BY JobsTypedIs, TopIs, KeysAssumption DEF JobSet
  <2>6. TopGen(table) >= job[q].base BY <2>2, <2>3, <2>4 DEF Reached
  <2>7. TopGen(table') >= job'[q].base BY <1>8, <2>1, <2>5, <2>6
  <2> QED BY <2>1, <2>2, <2>3, <2>4, <2>7 DEF Reached
<1> QED BY <1>6, <1>9, <1>10 DEF ReachInv

\* While the operator's command destroys the file, it does not re-seal.
LEMMA ShredKeepsReach ==
  ASSUME OneConsole, JobsTyped, ReachInv, NEW p \in Proc, Shred(p)
  PROVE  ReachInv'
<1>1. job[p] \in JobSet /\ JobOK(job[p]) /\ job[p].pc = "shred" BY JobsTypedIs DEF Shred
<1>2. job[p].op = "purge" /\ p \in Console BY <1>1 DEF JobOK, ReachInv, OpsOK
<1>3. /\ \A q \in Proc : q # p => Kept(q) /\ job'[q].cut
      /\ job'[p] = [job[p] EXCEPT !.pc = "delete"]
  BY ShredTyped, CutKeeps
<1>4. job'[p].pc = "delete" /\ job'[p].op = "purge" BY <1>1, <1>2, <1>3 DEF JobSet
<1>5. OpsOK' BY <1>2, <1>3, <1>4 DEF ReachInv, OpsOK, Kept
<1>6. ASSUME NEW q \in Proc PROVE GenOK(job[q])' /\ ~Resealing(job'[q])
  <2>1. CASE q = p BY <1>4, <2>1 DEF GenOK, Resealing
  <2>2. CASE q # p
    <3>1. job[q].op # "reseal" BY <1>2, <2>2 DEF OneConsole, ReachInv, OpsOK
    <3> QED BY <1>3, <2>2, <3>1 DEF GenOK, Resealing, Kept
  <2> QED BY <2>1, <2>2
<1> QED BY <1>5, <1>6 DEF ReachInv, Reached, Resealing

\* A connection is written with the newest generation, unless the file has changed; the
\* one the re-seal was at is the only one of its owner, unless somebody else was, too.
LEMMA StoreKeepsReach ==
  ASSUME JobsTyped, OwnerInv, ReachInv, NEW p \in Proc, Store(p)
  PROVE  ReachInv'
<1> DEFINE o == job[p].owner
<1>1. PICK i \in Conns :
        /\ conns'[i] = [st |-> "active", owner |-> job[p].owner, secret |-> job[p].secret,
                        gen |-> job[p].gen, mat |-> job[p].mat]
        /\ \A j \in Conns : j # i => conns'[j] = conns[j]
        /\ ~job[p].late /\ job[p].owner \notin stale => ActiveOf(job[p].owner) \subseteq {i}
  BY StoredRow
<1>2. conns'[i].owner = o /\ conns'[i].gen = job[p].gen BY <1>1
<1>3. job[p] \in JobSet /\ JobOK(job[p]) /\ job[p].pc = "store" /\ GenOK(job[p])
  BY JobsTypedIs DEF Store, ReachInv
<1>4. job[p].op \in {"login", "reseal"} BY <1>3 DEF JobOK
<1>5. /\ stale' = IF job[p].late THEN stale \cup {o} ELSE stale
      /\ lagging' = IF job[p].cut THEN lagging \cup {o} ELSE lagging
      /\ UNCHANGED <<table, rushed>>
  BY DEF Store
<1>6. \A q \in Proc : q # p => Kept(q) /\ job'[q].cut = job[q].cut
  <2>1. \A q \in Proc : q # p => job'[q] = [job[q] EXCEPT !.late = job[q].late \/ job[q].owner = o]
    BY StoreTyped
  <2> HIDE DEF o
  <2> QED BY <2>1, OwnersKeep
<1>7. /\ job[p].op = "login" => job'[p].pc = "idle" /\ job'[p].op = "none"
      /\ job[p].op = "reseal" => /\ job'[p].pc = "scan" /\ job'[p].op = "reseal"
                                 /\ job'[p].base = job[p].base /\ job'[p].todo = job[p].todo
  <2>1. CASE job[p].op = "login"
    <3>1. job'[p] = AtRest BY <2>1, StoreTyped
    <3> QED BY <2>1, <3>1 DEF AtRest
  <2>2. CASE job[p].op = "reseal"
    <3>1. job'[p] = [job[p] EXCEPT !.pc = "scan", !.owner = Common] BY <2>2, StoreTyped
    <3> QED BY <1>3, <2>2, <3>1 DEF JobSet
  <2> QED BY <1>4, <2>1, <2>2
<1> HIDE DEF o
<1>8. OpsOK' BY <1>4, <1>6, <1>7 DEF ReachInv, OpsOK, Kept
<1>9. ASSUME NEW q \in Proc PROVE GenOK(job[q])'
  <2>1. CASE q = p BY <1>4, <1>7, <2>1 DEF GenOK
  <2>2. CASE q # p
    <3>1. GenOK(job[q]) BY DEF ReachInv
    <3> QED BY <1>5, <1>6, <2>2, <3>1 DEF GenOK, Kept
  <2> QED BY <2>1, <2>2
<1>10. ASSUME NEW q \in Proc, Resealing(job'[q]), ~rushed'
       PROVE  /\ Resealing(job[q]) /\ job'[q].base = job[q].base /\ job'[q].todo = job[q].todo
              /\ q # p => job'[q].pc = job[q].pc /\ job'[q].owner = job[q].owner
              /\ TopGen(table) >= job[q].base
  <2>1. /\ Resealing(job[q]) /\ job'[q].base = job[q].base /\ job'[q].todo = job[q].todo
        /\ q # p => job'[q].pc = job[q].pc /\ job'[q].owner = job[q].owner
    <3>1. CASE q = p BY <1>3, <1>4, <1>7, <1>10, <3>1 DEF Resealing, Writing, Sealing
    <3>2. CASE q # p BY <1>6, <1>10, <3>2 DEF Kept, Resealing
    <3> QED BY <3>1, <3>2
  <2> QED BY <1>5, <1>10, <2>1 DEF ReachInv, Reached
<1>11. ASSUME NEW q \in Proc, Resealing(job'[q]), ~rushed', NEW j \in Conns,
              conns'[j].st = "active", conns'[j].owner \notin stale' \cup lagging'
       PROVE  \/ conns'[j].gen >= job'[q].base
              \/ \E d \in job'[q].todo : d[2] = conns'[j].owner
              \/ job'[q].pc # "scan" /\ job'[q].owner = conns'[j].owner
  <2>1. CASE j = i
    <3>1. ~job[p].cut BY <1>2, <1>5, <1>11, <2>1
    <3>2. job[p].gen = TopGen(table) BY <1>3, <1>4, <3>1 DEF GenOK
    <3> QED BY <1>2, <1>10, <1>11, <2>1, <3>2
  <2>2. CASE j # i
    <3>1. conns'[j] = conns[j] BY <1>1, <2>2
    <3>2. conns[j].owner \notin stale \cup lagging BY <1>5, <1>11, <3>1
    <3>3. \/ conns[j].gen >= job[q].base
          \/ \E d \in job[q].todo : d[2] = conns[j].owner
          \/ job[q].pc # "scan" /\ job[q].owner = conns[j].owner
      BY <1>5, <1>10, <1>11, <3>1, <3>2 DEF ReachInv, Reached
    <3>4. CASE q # p BY <1>10, <1>11, <3>1, <3>3, <3>4
    <3>5. CASE q = p
      <4>1. conns[j].owner # job[p].owner
        <5>1. SUFFICES ASSUME conns[j].owner = job[p].owner PROVE FALSE OBVIOUS
        <5>2. ~job[p].late /\ job[p].owner \notin stale BY <1>5, <1>11, <3>1, <5>1 DEF o
        <5>3. j \in ActiveOf(job[p].owner) BY <1>11, <3>1, <5>1 DEF ActiveOf
        <5> QED BY <1>1, <2>2, <5>2, <5>3
      <4> QED BY <1>10, <1>11, <3>1, <3>3, <3>5, <4>1
    <3> QED BY <3>4, <3>5
  <2> QED BY <2>1, <2>2
<1>12. \A q \in Proc : Reached(job[q])'
  <2>1. ASSUME NEW q \in Proc, Resealing(job'[q]), ~rushed'
        PROVE  /\ TopGen(table') >= job'[q].base
               /\ \A j \in Conns : conns'[j].st = "active" /\ conns'[j].owner \notin stale' \cup lagging' =>
                    \/ conns'[j].gen >= job'[q].base
                    \/ \E d \in job'[q].todo : d[2] = conns'[j].owner
                    \/ job'[q].pc # "scan" /\ job'[q].owner = conns'[j].owner
    BY <1>5, <1>10, <1>11, <2>1
  <2> QED BY <2>1 DEF Reached, Resealing
<1> QED BY <1>8, <1>9, <1>12 DEF ReachInv

\* A connection that is revoked or deleted needs no key.
LEMMA LessToReach ==
  ASSUME JobsTyped, ReachInv, UNCHANGED <<table, rushed, stale, lagging>>,
         \A i \in Conns : conns'[i].st = "active" => conns'[i] = conns[i],
         \A q \in Proc : (Kept(q) /\ job'[q].cut = job[q].cut) \/ job'[q] = AtRest
  PROVE  ReachInv'
<1>1. AtRest.pc = "idle" /\ AtRest.op = "none" BY DEF AtRest
<1>2. OpsOK' BY <1>1 DEF ReachInv, OpsOK, Kept
<1>3. ASSUME NEW q \in Proc PROVE GenOK(job[q])' /\ Reached(job[q])'
  <2>1. GenOK(job[q]) /\ Reached(job[q]) BY DEF ReachInv
  <2>2. CASE Kept(q) /\ job'[q].cut = job[q].cut
    <3>1. GenOK(job[q])' BY <2>1, <2>2 DEF GenOK, Kept
    <3>2. Reached(job[q])' BY <2>1, <2>2 DEF Reached, Resealing, Kept
    <3> QED BY <3>1, <3>2
  <2>3. CASE job'[q] = AtRest BY <1>1, <2>3 DEF GenOK, Reached, Resealing, Writing, Sealing
  <2> QED BY <2>2, <2>3
<1> QED BY <1>2, <1>3 DEF ReachInv

LEMMA RevokeKeepsReach ==
  ASSUME JobsTyped, ReachInv, NEW i \in Conns, Revoke(i)
  PROVE  ReachInv'
<1>1. UNCHANGED <<table, rushed, stale, lagging>> BY DEF Revoke, memory
<1>2. conns'[i].st = "revoked" /\ \A j \in Conns : j # i => conns'[j] = conns[j]
  BY JobsTypedIs DEF Revoke, RestTyped, NoConn
<1>3. \A j \in Conns : conns'[j].st = "active" => conns'[j] = conns[j] BY <1>2
<1>4. \A q \in Proc : Kept(q) /\ job'[q].cut = job[q].cut BY RevokeTyped, OwnersKeep
<1> QED BY <1>1, <1>3, <1>4, LessToReach

LEMMA DeleteKeepsReach ==
  ASSUME JobsTyped, ReachInv, NEW p \in Proc, DeleteRows(p)
  PROVE  ReachInv'
<1>1. UNCHANGED <<table, rushed, stale, lagging>> BY DEF DeleteRows, memory
<1>2. \A j \in Conns : conns'[j].st = "active" => conns'[j] = conns[j] BY DEF DeleteRows, NoConn
<1>3. job'[p] = AtRest /\ \A q \in Proc : q # p => Kept(q) /\ job'[q].cut = job[q].cut
  BY DeleteTyped, LateKeeps
<1> QED BY <1>1, <1>2, <1>3, LessToReach

LEMMA ReachKeeps ==
  ASSUME OneConsole, JobsTyped, FileInv, OwnerInv, ReachInv, [KeysNext]_keyVars
  PROVE  ReachInv'
<1>1. ASSUME NEW p \in Proc, Reads(p), SameOp(p) \/ p \in Console PROVE ReachInv'
  BY <1>1, ReadsKeepReach
<1>2. ASSUME NEW p \in Proc,
             \/ \E o \in Owner : Login(p, o)
             \/ Find(p) \/ Decide(p) \/ Fetch(p) \/ Load(p) \/ Reread(p) \/ Die(p)
      PROVE  ReachInv'
  <2>1. SameOp(p) /\ Reads(p)
    BY <1>2, BeginsAre, SealsGoOn, FindIs, CommandsAre DEF Reads
  <2> QED BY <1>1, <2>1
<1>3. CASE KeysNext
  BY <1>1, <1>2, <1>3, PutKeepsReach, ShredKeepsReach, StoreKeepsReach, RevokeKeepsReach,
     DeleteKeepsReach DEF KeysNext, Reads, Proc
<1>4. CASE UNCHANGED keyVars
  BY <1>4 DEF keyVars, memory, ReachInv, OpsOK, GenOK, Reached, Resealing
<1> QED BY <1>3, <1>4
-----------------------------------------------------------------------------
(* The invariants, and the theorems. *)

KeysInv == JobsTyped /\ FileInv /\ OwnerInv

LEMMA KeysStaySo == KeysSpec => []KeysInv
<1>1. KeysInit => KeysInv BY KeysInitTyped, FileInit, OwnerInit DEF KeysInv
<1>2. KeysInv /\ [KeysNext]_keyVars => KeysInv'
  BY KeysKeepTypes, FileKeeps, OwnersKeepTheirOwn DEF KeysInv
<1> QED BY <1>1, <1>2, PTL DEF KeysSpec

\* However many processes log in, rotate, re-seal and purge, and wherever one of them dies:
\* no secret is lost, no shredded key comes back, no stale token is injected (keys.py
\* FileKeyStore, KeyRing; store.py upsert_connection).
THEOREM KeysStaySound == KeysSpec => []KeysSound
<1>1. KeysInv => KeysSound
  <2> SUFFICES ASSUME KeysInv PROVE KeysSound
    OBVIOUS
  <2>1. SecretsStayReadable BY DEF KeysInv, FileInv, SecretsStayReadable, Opens
  <2>2. ShredIsFinal BY DEF KeysInv, FileInv, ShredIsFinal
  <2>3. NoStaleToken BY DEF KeysInv, OwnerInv
  <2> QED BY <2>1, <2>2, <2>3 DEF KeysSound
<1> QED BY <1>1, KeysStaySo, PTL

LEMMA ResealEndsReached ==
  ASSUME JobsTyped, ReachInv
  PROVE  ResealReaches
<1> SUFFICES ASSUME NEW p \in Proc, ResealEnds(p), ~rushed, NEW i \in Conns,
                    conns[i].st = "active", conns[i].owner \notin stale \cup lagging
             PROVE  conns[i].gen >= job[p].base
  BY DEF ResealReaches
<1>1. job[p].pc = "scan" /\ job[p].todo = {} BY DEF ResealEnds
<1>2. job[p].op = "reseal" BY <1>1, JobsTypedIs DEF JobOK
<1>3. Reached(job[p]) BY DEF ReachInv
<1> QED BY <1>1, <1>2, <1>3 DEF Reached, Resealing

\* With one operator at a time, a re-seal that ends has reached everything nobody else was
\* writing, and a revoked connection stays revoked, for every number of users, connections
\* and api processes (keys.py reseal; store.py revoke_connection).
THEOREM ResealsReach == ASSUME OneConsole PROVE KeysSpec => ResealsKeepOrder
<1>1. KeysInit => KeysInv /\ ReachInv BY KeysInitTyped, FileInit, OwnerInit, ReachInit DEF KeysInv
<1>2. KeysInv /\ ReachInv /\ [KeysNext]_keyVars => (KeysInv /\ ReachInv)'
  BY KeysKeepTypes, FileKeeps, OwnersKeepTheirOwn, ReachKeeps DEF KeysInv
<1>3. KeysInv /\ ReachInv /\ [KeysNext]_keyVars => [RevokedStaysRevoked /\ ResealReaches]_keyVars
  BY RevokedStays, ResealEndsReached DEF KeysInv
<1> QED BY <1>1, <1>2, <1>3, PTL DEF KeysSpec, ResealsKeepOrder
=============================================================================
