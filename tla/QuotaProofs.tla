---------------------------- MODULE QuotaProofs ----------------------------
(***************************************************************************)
(* Proofs about what a workspace's quota limits: the work that is let in   *)
(* (Admission, for any workspaces, clients, operators and limits) and the  *)
(* workers that are launched for it (Fleet, for any supervisors, workers,  *)
(* groups, policies and bounds).                                           *)
(*                                                                         *)
(* Admission.  A request that passed the count has not been counted by the *)
(* requests that count after it, until it saves.  So the bound is kept for *)
(* the rows together with the requests about to save (Charged), of which   *)
(* there is at most one per client.                                        *)
(*                                                                         *)
(* The fleet.  A plan fits when what it starts, added to the workers there *)
(* are, stays within the policy: it does when it is made, as registry and  *)
(* inventory together leave out no worker, booting ones included.  Until   *)
(* somebody launches another it goes on to fit, as the crew only shrinks;  *)
(* and whoever applies a plan holds the lease, so nobody else launches.    *)
(***************************************************************************)
EXTENDS Admission, Fleet, FiniteSetTheorems, FunctionTheorems, WellFoundedInduction, TLAPS

\* A request under way knows its workspace, and what it still has to enqueue.
RequestOK(r) ==
  r.pc # "idle" =>
    /\ r.w \in Workspace
    /\ r.pc = "counting" => r.for = "batch"
    /\ r.for \in {"batch", "item"} => r.left > 0
    /\ r.for = "run" => r.raced

Typed ==
  /\ TypeOK
  /\ \A c \in Client : RequestOK(req[c])
  /\ \A p \in Operator : op[p].pc # "idle" => op[p].w \in Workspace

Charged ==
  \A w \in Workspace :
    /\ runs[w] + Cardinality(Saving(w, "run")) <= MaxRuns - 1 + Cardinality(Client)
    /\ jobs[w] + Cardinality(Saving(w, "item")) <= MaxDepth - 1 + Cardinality(Client)

\* As long as nobody touches its workspace, there is room for all that is left of a batch.
UnitOK(r) ==
  r.pc # "idle" /\ ~r.raced =>
    /\ r.for = "batch" /\ r.pc # "counting" => Depth(r.w) + r.left - 1 <= r.seen
    /\ r.pc = "usage" => Active(r.w)
    /\ r.for = "item" => Active(r.w) /\ r.w \notin spent /\ Depth(r.w) + r.left <= MaxDepth

Room == \A c \in Client : UnitOK(req[c])

IInv == Typed /\ Charged /\ Room /\ BatchIsAUnit
-----------------------------------------------------------------------------
(* Types. *)

LEMMA TouchedTyped ==
  ASSUME req \in [Client -> Request], NEW w \in Workspace
  PROVE  /\ Touched(w) \in [Client -> Request]
         /\ \A c \in Client : Touched(w)[c] = [req[c] EXCEPT !.raced = Touched(w)[c].raced]
         /\ \A c \in Client : Touched(w)[c].raced = (req[c].raced \/ req[c].w = w)
<1> DEFINE T == Touched(w)
<1>1. ASSUME NEW c \in Client
      PROVE  T[c] \in Request /\ T[c] = [req[c] EXCEPT !.raced = T[c].raced]
             /\ T[c].raced = (req[c].raced \/ req[c].w = w)
  <2>1. req[c] \in Request OBVIOUS
  <2>2. T[c] = IF req[c].w = w THEN [req[c] EXCEPT !.raced = TRUE] ELSE req[c] BY DEF Touched
  <2>3. CASE req[c].w = w BY <2>1, <2>2, <2>3 DEF Request
  <2>4. CASE req[c].w # w BY <2>1, <2>2, <2>4 DEF Request
  <2> QED BY <2>3, <2>4
<1>2. T = [c \in Client |-> T[c]] BY DEF Touched
<1> QED BY <1>1, <1>2

LEMMA SavingCounts ==
  ASSUME NEW w, NEW what
  PROVE  /\ IsFiniteSet(Saving(w, what)) /\ Cardinality(Saving(w, what)) \in Nat
         /\ Cardinality(Client) \in Nat
         /\ Cardinality(Saving(w, what)) <= Cardinality(Client)
BY AdmissionAssumption, FS_Subset, FS_CardinalityType DEF Saving

\* Whoever is not about to save any more, is counted no more.
LEMMA FewerSaving ==
  ASSUME NEW w, NEW what, Saving(w, what)' \subseteq Saving(w, what)
  PROVE  Cardinality(Saving(w, what)') \in Nat /\ Cardinality(Saving(w, what)) \in Nat
         /\ Cardinality(Saving(w, what)') <= Cardinality(Saving(w, what))
BY SavingCounts, FS_Subset, FS_CardinalityType

LEMMA InitIInv == Init => IInv
<1> SUFFICES ASSUME Init PROVE IInv
  OBVIOUS
<1> USE DEF Init
<1>1. Typed
  BY AdmissionAssumption DEF Typed, TypeOK, RequestOK, NoRequest, NoCommand, Request, Command
<1>2. Charged
  <2>1. ASSUME NEW w \in Workspace, NEW what PROVE Saving(w, what) = {}
    BY DEF Saving, NoRequest
  <2>2. Cardinality(Client) \in Nat \ {0}
    BY AdmissionAssumption, FS_EmptySet, FS_CardinalityType
  <2>3. MaxRuns \in Nat \ {0} /\ MaxDepth \in Nat \ {0}
    BY AdmissionAssumption
  <2>4. ASSUME NEW w \in Workspace
        PROVE  /\ Cardinality(Saving(w, "run")) = 0 /\ Cardinality(Saving(w, "item")) = 0
               /\ runs[w] = 0 /\ jobs[w] = 0
    BY <2>1, FS_EmptySet
  <2> QED BY <2>2, <2>3, <2>4 DEF Charged
<1>3. Room
  BY DEF Room, UnitOK, NoRequest
<1> QED BY <1>1, <1>2, <1>3 DEF IInv, BatchIsAUnit

(* A client goes on with its request. *)

LEMMA GoesTyped ==
  ASSUME Typed, NEW c \in Client, NEW r \in Request, RequestOK(r), Goes(c, r),
         UNCHANGED <<tenancy, work, op>>, torn' \subseteq Client
  PROVE  Typed'
<1>1. req \in [Client -> Request] /\ op \in [Operator -> Command]
  BY DEF Typed, TypeOK
<1>2. req' \in [Client -> Request] /\ op' \in [Operator -> Command]
  BY <1>1 DEF Goes
<1>3. TypeOK'
  BY <1>2 DEF Typed, TypeOK, tenancy, work
<1>4. \A d \in Client : RequestOK(req'[d])
  BY <1>1 DEF Goes, Typed
<1>5. \A d \in Client : RequestOK(req[d])'
  BY <1>4 DEF RequestOK
<1> QED BY <1>3, <1>5 DEF Typed

LEMMA GoesRoom ==
  ASSUME Typed, Room, NEW c \in Client, NEW r, UnitOK(r), Goes(c, r),
         UNCHANGED <<tenancy, work>>
  PROVE  Room'
<1>1. req \in [Client -> Request]
  BY DEF Typed, TypeOK
<1>2. \A d \in Client : UnitOK(req'[d])
  BY <1>1 DEF Goes, Room
<1> QED BY <1>2 DEF Room, UnitOK, Depth, Active, tenancy, work

\* Who is about to save is who was, but for the client that goes on.
LEMMA GoesSaving ==
  ASSUME Typed, NEW c \in Client, NEW r, Goes(c, r), NEW w, NEW what
  PROVE  \/ Saving(w, what)' \subseteq Saving(w, what)
         \/ r.pc = "saving" /\ r.w = w /\ r.for = what
<1>1. \A d \in Client : req'[d] = IF d = c THEN r ELSE req[d]
  BY DEF Goes, Typed, TypeOK
<1> QED BY <1>1 DEF Saving

LEMMA GoesCharged ==
  ASSUME Typed, Charged, NEW c \in Client, NEW r, Goes(c, r), UNCHANGED work,
         r.pc = "saving" /\ r.for = "run" => runs[r.w] < MaxRuns,
         r.pc = "saving" /\ r.for = "item" => jobs[r.w] < MaxDepth
  PROVE  Charged'
<1> SUFFICES ASSUME NEW w \in Workspace
             PROVE  /\ runs[w] + Cardinality(Saving(w, "run")') <= MaxRuns - 1 + Cardinality(Client)
                    /\ jobs[w] + Cardinality(Saving(w, "item")') <= MaxDepth - 1 + Cardinality(Client)
  BY DEF Charged, work
<1>1. runs[w] \in Nat /\ jobs[w] \in Nat /\ MaxRuns \in Nat /\ MaxDepth \in Nat
  BY AdmissionAssumption DEF Typed, TypeOK
<1>2. \A what : /\ Cardinality(Saving(w, what)') \in Nat /\ Cardinality(Client) \in Nat
                /\ Cardinality(Saving(w, what)') <= Cardinality(Client)
  BY AdmissionAssumption, FS_Subset, FS_CardinalityType DEF Saving
<1>3. runs[w] + Cardinality(Saving(w, "run")') <= MaxRuns - 1 + Cardinality(Client)
  <2>1. CASE Saving(w, "run")' \subseteq Saving(w, "run")
    BY <2>1, <1>1, <1>2, FewerSaving DEF Charged
  <2>2. CASE r.pc = "saving" /\ r.w = w /\ r.for = "run"
    BY <2>2, <1>1, <1>2
  <2> QED BY <2>1, <2>2, GoesSaving
<1>4. jobs[w] + Cardinality(Saving(w, "item")') <= MaxDepth - 1 + Cardinality(Client)
  <2>1. CASE Saving(w, "item")' \subseteq Saving(w, "item")
    BY <2>1, <1>1, <1>2, FewerSaving DEF Charged
  <2>2. CASE r.pc = "saving" /\ r.w = w /\ r.for = "item"
    BY <2>2, <1>1, <1>2
  <2> QED BY <2>1, <2>2, GoesSaving
<1> QED BY <1>3, <1>4

LEMMA GoesIInv ==
  ASSUME IInv, NEW c \in Client, NEW r \in Request, RequestOK(r), UnitOK(r), Goes(c, r),
         UNCHANGED <<tenancy, work, op, torn>>,
         r.pc = "saving" /\ r.for = "run" => runs[r.w] < MaxRuns,
         r.pc = "saving" /\ r.for = "item" => jobs[r.w] < MaxDepth
  PROVE  IInv'
<1>1. torn' \subseteq Client
  BY DEF IInv, Typed, TypeOK
<1> QED BY <1>1, GoesTyped, GoesRoom, GoesCharged DEF IInv, BatchIsAUnit

LEMMA ReqOf ==
  ASSUME IInv, NEW c \in Client
  PROVE  req[c] \in Request /\ RequestOK(req[c]) /\ UnitOK(req[c])
BY DEF IInv, Typed, TypeOK, Room

LEMMA CountsTyped ==
  ASSUME IInv, NEW w \in Workspace
  PROVE  /\ runs[w] \in Nat /\ others[w] \in Nat /\ jobs[w] \in Nat /\ again[w] \in Nat
         /\ Depth(w) \in Nat /\ jobs[w] <= Depth(w) /\ runs[w] <= LiveRuns(w)
         /\ LiveRuns(w) \in Nat
BY DEF IInv, Typed, TypeOK, Depth, LiveRuns

LEMMA IdleKeeps ==
  ASSUME IInv, NEW c \in Client, Goes(c, NoRequest), UNCHANGED <<tenancy, work, op, torn>>
  PROVE  IInv'
BY GoesIInv DEF NoRequest, Request, RequestOK, UnitOK

LEMMA PostKeeps ==
  ASSUME IInv, NEW c \in Client, NEW w \in Workspace,
         PostEvent(c, w) \/ \E n \in 1 .. MaxBatch : PostBatch(c, w, n)
  PROVE  IInv'
<1>1. ASSUME PostEvent(c, w) PROVE IInv'
  <2> DEFINE r == [NoRequest EXCEPT !.pc = "active", !.w = w, !.for = "run", !.raced = TRUE]
  <2>1. r \in Request /\ RequestOK(r) /\ UnitOK(r) /\ r.pc # "saving"
    BY DEF NoRequest, Request, RequestOK, UnitOK
  <2>2. Goes(c, r) /\ UNCHANGED <<tenancy, work, op, torn>>
    BY <1>1 DEF PostEvent
  <2> HIDE DEF r
  <2> QED BY <2>1, <2>2, GoesIInv
<1>2. ASSUME NEW n \in 1 .. MaxBatch, PostBatch(c, w, n) PROVE IInv'
  <2> DEFINE r == [NoRequest EXCEPT !.pc = "counting", !.w = w, !.for = "batch", !.left = n]
  <2>1. r \in Request /\ RequestOK(r) /\ UnitOK(r) /\ r.pc # "saving"
    <3>1. n \in Nat /\ n > 0
      BY AdmissionAssumption
    <3> QED BY <3>1 DEF NoRequest, Request, RequestOK, UnitOK
  <2>2. Goes(c, r) /\ UNCHANGED <<tenancy, work, op, torn>>
    BY <1>2 DEF PostBatch
  <2> HIDE DEF r
  <2> QED BY <2>1, <2>2, GoesIInv
<1> QED BY <1>1, <1>2

LEMMA ChargeKeeps ==
  ASSUME IInv, NEW c \in Client, ChargeBatch(c)
  PROVE  IInv'
<1> DEFINE q == req[c]
           r == [q EXCEPT !.pc = "active", !.seen = Depth(q.w) + q.left - 1]
<1>1. q \in Request /\ RequestOK(q) /\ q.pc = "counting"
  BY ReqOf DEF ChargeBatch
<1>2. Depth(q.w) \in Nat /\ q.left \in Nat /\ q.left > 0 /\ q.for = "batch" /\ q.w \in Workspace
  BY <1>1, CountsTyped DEF RequestOK, Request
<1>3. r \in Request
  <2>1. Depth(q.w) + q.left - 1 \in Nat
    BY <1>2
  <2> DEFINE n == Depth(q.w) + q.left - 1
  <2> HIDE DEF n
  <2>2. n \in Nat => [q EXCEPT !.pc = "active", !.seen = n] \in Request
    BY <1>1 DEF Request
  <2> QED BY <2>1, <2>2 DEF n
<1>4. RequestOK(r) /\ UnitOK(r) /\ r.pc # "saving"
  BY <1>1, <1>2 DEF Request, RequestOK, UnitOK
<1>5. Goes(c, r) /\ UNCHANGED <<tenancy, work, op, torn>>
  BY DEF ChargeBatch
<1> HIDE DEF q, r
<1> QED BY <1>3, <1>4, <1>5, GoesIInv

\* A refusal: a batch that has begun is not refused unless somebody touched its workspace.
LEMMA RefusedKeeps ==
  ASSUME IInv, NEW c \in Client, Refused(c), UNCHANGED <<tenancy, work, op>>,
         ~(req[c].for = "item" /\ ~req[c].raced)
  PROVE  IInv'
BY IdleKeeps DEF Refused

LEMMA RequireActiveKeeps ==
  ASSUME IInv, NEW c \in Client, RequireActive(c)
  PROVE  IInv'
<1> DEFINE q == req[c]
           r == [q EXCEPT !.pc = "usage"]
<1>1. q \in Request /\ RequestOK(q) /\ UnitOK(q) /\ q.pc = "active"
  BY ReqOf DEF RequireActive
<1>2. CASE Active(q.w)
  <2>1. r \in Request /\ RequestOK(r) /\ UnitOK(r) /\ r.pc # "saving"
    BY <1>1, <1>2 DEF Request, RequestOK, UnitOK
  <2>2. Goes(c, r) /\ UNCHANGED <<tenancy, work, op, torn>>
    BY <1>2 DEF RequireActive
  <2> HIDE DEF q, r
  <2> QED BY <2>1, <2>2, GoesIInv
<1>3. CASE ~Active(q.w)
  BY <1>1, <1>3, RefusedKeeps DEF RequireActive, UnitOK
<1> QED BY <1>2, <1>3

LEMMA CheckUsageKeeps ==
  ASSUME IInv, NEW c \in Client, CheckUsage(c)
  PROVE  IInv'
<1> DEFINE q == req[c]
<1>1. q \in Request /\ RequestOK(q) /\ UnitOK(q) /\ q.pc = "usage" /\ q.w \in Workspace
  BY ReqOf DEF CheckUsage, RequestOK
<1>2. /\ Depth(q.w) \in Nat /\ jobs[q.w] \in Nat /\ jobs[q.w] <= Depth(q.w)
      /\ runs[q.w] \in Nat /\ LiveRuns(q.w) \in Nat /\ runs[q.w] <= LiveRuns(q.w)
      /\ MaxDepth \in Nat /\ MaxRuns \in Nat /\ q.left \in Nat /\ q.seen \in Nat
  BY <1>1, CountsTyped, AdmissionAssumption DEF Request
<1>3. CASE Admissible(q) /\ q.for = "batch"
  <2> DEFINE r == [q EXCEPT !.pc = "active", !.for = "item", !.seen = 0]
  <2>1. q.seen < MaxDepth /\ q.w \notin spent
    BY <1>3 DEF Admissible, Within
  <2>2. r \in Request /\ RequestOK(r) /\ r.pc # "saving"
    BY <1>1, <1>3 DEF Request, RequestOK
  <2>3. UnitOK(r)
    <3>1. ~q.raced => Depth(q.w) + q.left - 1 <= q.seen /\ Active(q.w)
      BY <1>1, <1>3 DEF UnitOK
    <3>2. ~q.raced => Depth(q.w) + q.left <= MaxDepth
      BY <3>1, <2>1, <1>2
    <3>3. r.w = q.w /\ r.raced = q.raced /\ r.left = q.left /\ r.for = "item" /\ r.pc = "active"
      BY <1>1 DEF Request
    <3> HIDE DEF q, r
    <3> QED BY <3>1, <3>2, <3>3, <2>1 DEF UnitOK
  <2>4. Goes(c, r) /\ UNCHANGED <<tenancy, work, op, torn>>
    BY <1>3 DEF CheckUsage
  <2> HIDE DEF q, r
  <2> QED BY <2>2, <2>3, <2>4, GoesIInv
<1>4. CASE Admissible(q) /\ q.for # "batch"
  <2> DEFINE r == [q EXCEPT !.pc = "saving"]
  <2>1. /\ q.for = "run" => runs[q.w] < MaxRuns
        /\ q.for = "item" => jobs[q.w] < MaxDepth
    BY <1>2, <1>4 DEF Admissible, Within
  <2>2. r \in Request /\ RequestOK(r) /\ UnitOK(r) /\ r.w = q.w /\ r.for = q.for
    BY <1>1, <1>4 DEF Request, RequestOK, UnitOK
  <2>4. Goes(c, r) /\ UNCHANGED <<tenancy, work, op, torn>>
    BY <1>4 DEF CheckUsage
  <2> HIDE DEF q, r
  <2> QED BY <2>1, <2>2, <2>4, GoesIInv
<1>5. CASE ~Admissible(q)
  <2>1. ~(q.for = "item" /\ ~q.raced)
    <3> SUFFICES ASSUME q.for = "item", ~q.raced PROVE FALSE
      OBVIOUS
    <3>1. q.w \notin spent /\ Depth(q.w) + q.left <= MaxDepth /\ q.left > 0
      BY <1>1 DEF UnitOK, RequestOK
    <3>2. Depth(q.w) < MaxDepth
      BY <3>1, <1>2
    <3> QED BY <3>1, <3>2, <1>5 DEF Admissible, Within
  <2> QED BY <2>1, <1>5, RefusedKeeps DEF CheckUsage
<1> QED BY <1>3, <1>4, <1>5

(* A client saves what it was admitted with. *)

\* The client that saves leaves those about to save; for the others nothing changes but
\* that they see their workspace touched.
LEMMA SavedSaving ==
  ASSUME Typed, NEW c \in Client, NEW r, NEW w \in Workspace, NEW u, NEW what,
         \A d \in Client : req'[d] = IF d = c THEN r ELSE Touched(w)[d], r.pc # "saving"
  PROVE  Saving(u, what)' = Saving(u, what) \ {c}
<1>1. req \in [Client -> Request] /\ Touched(w) \in [Client -> Request]
  BY TouchedTyped DEF Typed, TypeOK
<1>2. \A d \in Client : Touched(w)[d].pc = req[d].pc /\ Touched(w)[d].w = req[d].w
                        /\ Touched(w)[d].for = req[d].for
  BY <1>1 DEF Touched, Request
<1> QED BY <1>2 DEF Saving

LEMMA TouchedOK ==
  ASSUME IInv, NEW w \in Workspace, NEW d \in Client
  PROVE  /\ Touched(w)[d] \in Request /\ RequestOK(Touched(w)[d]) /\ UnitOK(Touched(w)[d])
         /\ Touched(w)[d].w = req[d].w
         /\ req[d].w = w => Touched(w)[d].raced
<1>1. req \in [Client -> Request]
  BY DEF IInv, Typed, TypeOK
<1>2. req[d] \in Request /\ RequestOK(req[d]) /\ UnitOK(req[d])
  BY ReqOf
<1>3. Touched(w)[d] = IF req[d].w = w THEN [req[d] EXCEPT !.raced = TRUE] ELSE req[d]
  BY DEF Touched
<1>4. CASE req[d].w # w
  BY <1>2, <1>3, <1>4
<1>5. CASE req[d].w = w
  <2> DEFINE r == [req[d] EXCEPT !.raced = TRUE]
  <2>1. r \in Request /\ r.raced /\ r.pc = req[d].pc /\ r.w = req[d].w /\ r.for = req[d].for
        /\ r.left = req[d].left
    BY <1>2 DEF Request
  <2>2. Touched(w)[d] = r
    BY <1>3, <1>5
  <2> HIDE DEF r
  <2> QED BY <1>2, <2>1, <2>2 DEF RequestOK, UnitOK
<1> QED BY <1>4, <1>5

\* What saving one run, or one job, does to the requests.
LEMMA SavedRequests ==
  ASSUME IInv, NEW c \in Client, NEW w \in Workspace, NEW r \in Request, RequestOK(r),
         req' = [Touched(w) EXCEPT ![c] = r], UNCHANGED tenancy,
         \A u \in Workspace : u # w => Depth(u)' = Depth(u),
         UnitOK(r)'
  PROVE  /\ req' \in [Client -> Request] /\ (\A d \in Client : RequestOK(req[d])')
         /\ Room'
<1>1. req \in [Client -> Request] /\ Touched(w) \in [Client -> Request]
  BY TouchedTyped DEF IInv, Typed, TypeOK
<1>2. \A d \in Client : req'[d] = IF d = c THEN r ELSE Touched(w)[d]
  BY <1>1
<1>3. req' \in [Client -> Request]
  BY <1>1
<1>4. \A d \in Client : RequestOK(req'[d])
  BY <1>2, TouchedOK
<1>5. ASSUME NEW d \in Client PROVE UnitOK(req[d])'
  <2>1. CASE d = c
    BY <2>1, <1>2 DEF UnitOK, Depth, Active
  <2>2. CASE d # c
    <3> SUFFICES ASSUME NEW q, q = Touched(w)[d] PROVE UnitOK(q)'
      BY <1>2, <2>2 DEF UnitOK, Depth, Active
    <3>2. UnitOK(q) /\ RequestOK(q) /\ (q.w = w => q.raced)
      BY TouchedOK
    <3>3. q.pc # "idle" /\ ~q.raced => Depth(q.w)' = Depth(q.w)
      BY <3>2 DEF RequestOK
    <3> QED BY <3>2, <3>3 DEF UnitOK, Active, tenancy
  <2> QED BY <2>1, <2>2
<1> QED BY <1>3, <1>4, <1>5 DEF Room, RequestOK

LEMMA SaveRunKeeps ==
  ASSUME IInv, NEW c \in Client, SaveRun(c)
  PROVE  IInv'
<1>1. PICK w : w = req[c].w
  OBVIOUS
<1>2. PICK r : r = [req[c] EXCEPT !.pc = "active", !.for = "item", !.left = 1]
  OBVIOUS
<1>3. /\ req[c].pc = "saving" /\ req[c].for = "run" /\ req[c].raced /\ w \in Workspace
      /\ runs' = [runs EXCEPT ![w] = @ + 1]
      /\ req' = [Touched(w) EXCEPT ![c] = r]
      /\ UNCHANGED <<tenancy, others, jobs, again, busy, op, torn>>
  BY <1>1, <1>2, ReqOf DEF SaveRun, More, RequestOK
<1>4. r \in Request /\ RequestOK(r) /\ r.raced /\ r.pc = "active"
  <2> DEFINE q == req[c]
  <2>1. q \in Request /\ RequestOK(q) /\ q.raced /\ q.pc = "saving"
    BY <1>3, ReqOf
  <2>2. r = [q EXCEPT !.pc = "active", !.for = "item", !.left = 1]
    BY <1>2
  <2> HIDE DEF q
  <2>3. r \in Request
    BY <2>1, <2>2 DEF Request
  <2>4. r.pc = "active" /\ r.for = "item" /\ r.left = 1 /\ r.raced = q.raced /\ r.w = q.w
    BY <2>1, <2>2 DEF Request
  <2> QED BY <2>1, <2>3, <2>4 DEF RequestOK
<1>5. runs \in [Workspace -> Nat] /\ runs' \in [Workspace -> Nat]
  BY <1>3 DEF IInv, Typed, TypeOK
<1>6. UnitOK(r)'
  BY <1>4 DEF UnitOK
<1>7. \A u \in Workspace : Depth(u)' = Depth(u)
  BY <1>3 DEF Depth
<1>8. req' \in [Client -> Request] /\ (\A d \in Client : RequestOK(req[d])') /\ Room'
  BY <1>3, <1>4, <1>6, <1>7, SavedRequests
<1>9. Typed'
  BY <1>3, <1>5, <1>8 DEF IInv, Typed, TypeOK, tenancy
<1>10. Charged'
  <2> SUFFICES ASSUME NEW u \in Workspace
               PROVE  /\ runs'[u] + Cardinality(Saving(u, "run")') <= MaxRuns - 1 + Cardinality(Client)
                      /\ jobs[u] + Cardinality(Saving(u, "item")') <= MaxDepth - 1 + Cardinality(Client)
    BY <1>3 DEF Charged
  <2>1. Saving(u, "run")' = Saving(u, "run") \ {c} /\ Saving(u, "item")' = Saving(u, "item") \ {c}
    <3>1. Typed /\ w \in Workspace /\ r.pc # "saving" /\ Touched(w) \in [Client -> Request]
      BY <1>3, <1>4, TouchedTyped DEF IInv, Typed, TypeOK
    <3>2. \A d \in Client : req'[d] = IF d = c THEN r ELSE Touched(w)[d]
      BY <1>3, <3>1
    <3>3. Saving(u, "run")' = Saving(u, "run") \ {c}
      BY <3>1, <3>2, SavedSaving
    <3>4. Saving(u, "item")' = Saving(u, "item") \ {c}
      BY <3>1, <3>2, SavedSaving
    <3> QED BY <3>3, <3>4
  <2>2. jobs[u] + Cardinality(Saving(u, "item")') <= MaxDepth - 1 + Cardinality(Client)
    <3>1. Saving(u, "item")' \subseteq Saving(u, "item")
      BY <2>1
    <3> QED BY <3>1, FewerSaving, SavingCounts, CountsTyped, AdmissionAssumption DEF IInv, Charged
  <2>3. runs'[u] + Cardinality(Saving(u, "run")') <= MaxRuns - 1 + Cardinality(Client)
    <3>1. CASE u # w
      <4>1. runs'[u] = runs[u] /\ Saving(u, "run")' \subseteq Saving(u, "run")
        BY <1>3, <1>5, <2>1, <3>1
      <4> QED BY <4>1, FewerSaving, SavingCounts, CountsTyped, AdmissionAssumption DEF IInv, Charged
    <3>2. CASE u = w
      <4>1. runs'[u] = runs[u] + 1 /\ c \in Saving(u, "run")
        BY <1>1, <1>3, <1>5, <3>2 DEF Saving
      <4>2. Cardinality(Saving(u, "run")') = Cardinality(Saving(u, "run")) - 1
        BY <2>1, <4>1, SavingCounts, FS_RemoveElement
      <4> QED BY <4>1, <4>2, SavingCounts, CountsTyped, AdmissionAssumption DEF IInv, Charged
    <3> QED BY <3>1, <3>2
  <2> QED BY <2>2, <2>3
<1> QED BY <1>3, <1>8, <1>9, <1>10 DEF IInv, BatchIsAUnit

LEMMA SaveJobKeeps ==
  ASSUME IInv, NEW c \in Client, SaveJob(c)
  PROVE  IInv'
<1>1. PICK w, q : w = req[c].w /\ q = req[c]
  OBVIOUS
<1>2. PICK r : r = IF q.left = 1 THEN NoRequest
                   ELSE [q EXCEPT !.pc = "active", !.left = @ - 1, !.begun = TRUE]
  OBVIOUS
<1>3. /\ q.pc = "saving" /\ q.for = "item" /\ w \in Workspace /\ q \in Request /\ q.w = w
      /\ q.left > 0 /\ UnitOK(q) /\ RequestOK(q)
      /\ jobs' = [jobs EXCEPT ![w] = @ + 1]
      /\ req' = [Touched(w) EXCEPT ![c] = r]
      /\ UNCHANGED <<tenancy, runs, others, again, busy, op, torn>>
  BY <1>1, <1>2, ReqOf DEF SaveJob, More, RequestOK
<1>4. r \in Request /\ RequestOK(r) /\ r.pc # "saving"
  <2>1. CASE q.left = 1
    BY <1>2, <2>1 DEF NoRequest, Request, RequestOK
  <2>2. CASE q.left # 1
    <3>1. q.left - 1 \in Nat /\ q.left - 1 > 0
      BY <1>3, <2>2 DEF Request
    <3> DEFINE n == q.left - 1
    <3> HIDE DEF n
    <3>2. n \in Nat /\ n > 0 /\ r = [q EXCEPT !.pc = "active", !.left = n, !.begun = TRUE]
      BY <1>2, <1>3, <2>2, <3>1 DEF Request, n
    <3> QED BY <1>3, <3>2 DEF Request, RequestOK
  <2> QED BY <2>1, <2>2
<1>5. jobs \in [Workspace -> Nat] /\ jobs' \in [Workspace -> Nat]
  BY <1>3 DEF IInv, Typed, TypeOK
<1>6. \A u \in Workspace : Depth(u)' = IF u = w THEN Depth(u) + 1 ELSE Depth(u)
  BY <1>3, <1>5, CountsTyped DEF Depth
<1>7. UnitOK(r)'
  <2>1. CASE q.left = 1
    BY <1>2, <2>1 DEF NoRequest, UnitOK
  <2>2. CASE q.left # 1
    <3>1. r.w = w /\ r.for = "item" /\ r.left = q.left - 1 /\ r.pc = "active" /\ r.raced = q.raced
      BY <1>2, <1>3, <2>2 DEF Request
    <3>2. ~q.raced => Active(w) /\ w \notin spent /\ Depth(w) + q.left <= MaxDepth
      BY <1>3 DEF UnitOK
    <3>3. Depth(w)' = Depth(w) + 1 /\ Depth(w) \in Nat /\ q.left \in Nat
      BY <1>3, <1>6, CountsTyped DEF Request
    <3>4. ~q.raced => (Depth(w)' + r.left <= MaxDepth)
      BY <3>1, <3>2, <3>3, AdmissionAssumption
    <3>5. ~q.raced => Active(w)' /\ w \notin spent'
      BY <1>3, <3>2 DEF Active, tenancy
    <3> QED BY <3>1, <3>4, <3>5 DEF UnitOK
  <2> QED BY <2>1, <2>2
<1>8. req' \in [Client -> Request] /\ (\A d \in Client : RequestOK(req[d])') /\ Room'
  BY <1>3, <1>4, <1>6, <1>7, SavedRequests
<1>9. Typed'
  BY <1>3, <1>5, <1>8 DEF IInv, Typed, TypeOK, tenancy
<1>10. Charged'
  <2> SUFFICES ASSUME NEW u \in Workspace
               PROVE  /\ runs[u] + Cardinality(Saving(u, "run")') <= MaxRuns - 1 + Cardinality(Client)
                      /\ jobs'[u] + Cardinality(Saving(u, "item")') <= MaxDepth - 1 + Cardinality(Client)
    BY <1>3 DEF Charged
  <2>1. Saving(u, "run")' = Saving(u, "run") \ {c} /\ Saving(u, "item")' = Saving(u, "item") \ {c}
    <3>1. Typed /\ w \in Workspace /\ r.pc # "saving" /\ Touched(w) \in [Client -> Request]
      BY <1>3, <1>4, TouchedTyped DEF IInv, Typed, TypeOK
    <3>2. \A d \in Client : req'[d] = IF d = c THEN r ELSE Touched(w)[d]
      BY <1>3, <3>1
    <3>3. Saving(u, "run")' = Saving(u, "run") \ {c}
      BY <3>1, <3>2, SavedSaving
    <3>4. Saving(u, "item")' = Saving(u, "item") \ {c}
      BY <3>1, <3>2, SavedSaving
    <3> QED BY <3>3, <3>4
  <2>2. runs[u] + Cardinality(Saving(u, "run")') <= MaxRuns - 1 + Cardinality(Client)
    <3>1. Saving(u, "run")' \subseteq Saving(u, "run")
      BY <2>1
    <3> QED BY <3>1, FewerSaving, SavingCounts, CountsTyped, AdmissionAssumption DEF IInv, Charged
  <2>3. jobs'[u] + Cardinality(Saving(u, "item")') <= MaxDepth - 1 + Cardinality(Client)
    <3>1. CASE u # w
      <4>1. jobs'[u] = jobs[u] /\ Saving(u, "item")' \subseteq Saving(u, "item")
        BY <1>3, <1>5, <2>1, <3>1
      <4> QED BY <4>1, FewerSaving, SavingCounts, CountsTyped, AdmissionAssumption DEF IInv, Charged
    <3>2. CASE u = w
      <4>1. jobs'[u] = jobs[u] + 1 /\ c \in Saving(u, "item")
        BY <1>1, <1>3, <1>5, <3>2 DEF Saving
      <4>2. Cardinality(Saving(u, "item")') = Cardinality(Saving(u, "item")) - 1
        BY <2>1, <4>1, SavingCounts, FS_RemoveElement
      <4> QED BY <4>1, <4>2, SavingCounts, CountsTyped, AdmissionAssumption DEF IInv, Charged
    <3> QED BY <3>1, <3>2
  <2> QED BY <2>2, <2>3
<1> QED BY <1>3, <1>8, <1>9, <1>10 DEF IInv, BatchIsAUnit

(* Work goes on, operators command: the workspace changes under the requests. *)

\* Nothing a batch under way has counted on gets worse.
Calm(u) == /\ Depth(u)' <= Depth(u)
           /\ Active(u) => Active(u)'
           /\ u \in spent' => u \in spent

LEMMA WorldKeeps ==
  ASSUME IInv, NEW w \in Workspace,
         life' \in [Workspace -> {"absent", "active", "disabled", "purged"}],
         exists' \subseteq Workspace, keyed' \subseteq exists', spent' \subseteq Workspace,
         runs' \in [Workspace -> Nat], others' \in [Workspace -> Nat],
         jobs' \in [Workspace -> Nat], again' \in [Workspace -> Nat],
         busy' \in [Workspace -> Nat],
         op' \in [Operator -> Command], \A p \in Operator : op'[p].pc # "idle" => op'[p].w \in Workspace,
         torn' = torn,
         req' = req \/ req' = Touched(w),
         \A u \in Workspace : runs'[u] <= runs[u] /\ jobs'[u] <= jobs[u],
         \A u \in Workspace : Calm(u) \/ (u = w /\ req' = Touched(w))
  PROVE  IInv'
<1>1. req \in [Client -> Request] /\ Touched(w) \in [Client -> Request]
  BY TouchedTyped DEF IInv, Typed, TypeOK
<1>2. req' \in [Client -> Request]
  BY <1>1
<1>3. \A d \in Client : RequestOK(req'[d])
  BY TouchedOK, ReqOf
<1>4. Typed'
  <2>1. TypeOK'
    BY <1>2 DEF TypeOK, IInv, Typed
  <2> QED BY <2>1, <1>3 DEF Typed, RequestOK
<1>5. Charged'
  <2> SUFFICES ASSUME NEW u \in Workspace
               PROVE  /\ runs'[u] + Cardinality(Saving(u, "run")') <= MaxRuns - 1 + Cardinality(Client)
                      /\ jobs'[u] + Cardinality(Saving(u, "item")') <= MaxDepth - 1 + Cardinality(Client)
    BY DEF Charged
  <2>1. \A d \in Client : req'[d].pc = req[d].pc /\ req'[d].w = req[d].w /\ req'[d].for = req[d].for
    BY <1>1 DEF Touched, Request
  <2>2. Saving(u, "run")' = Saving(u, "run") /\ Saving(u, "item")' = Saving(u, "item")
    BY <2>1 DEF Saving
  <2>3. runs'[u] \in Nat /\ jobs'[u] \in Nat /\ runs'[u] <= runs[u] /\ jobs'[u] <= jobs[u]
    OBVIOUS
  <2> QED BY <2>2, <2>3, SavingCounts, CountsTyped, AdmissionAssumption DEF IInv, Charged
<1>6. Room'
  <2> SUFFICES ASSUME NEW d \in Client, NEW q, q = req'[d] PROVE UnitOK(q)'
    BY DEF Room, UnitOK, Depth, Active
  <2>1. q \in Request /\ UnitOK(q) /\ RequestOK(q) /\ (req' = Touched(w) /\ q.w = w => q.raced)
    BY TouchedOK, ReqOf
  <2>2. q.pc # "idle" /\ ~q.raced => Calm(q.w) /\ q.w \in Workspace
    BY <2>1 DEF RequestOK
  <2>3. q.pc # "idle" /\ ~q.raced => Depth(q.w) \in Nat /\ Depth(q.w)' \in Nat
    BY <2>2, CountsTyped DEF Depth
  <2>4. q.left \in Nat /\ q.seen \in Nat /\ MaxDepth \in Nat
    BY <2>1, AdmissionAssumption DEF Request
  <2> QED BY <2>1, <2>2, <2>3, <2>4 DEF UnitOK, Calm
<1> QED BY <1>4, <1>5, <1>6 DEF IInv, BatchIsAUnit

LEMMA Types ==
  ASSUME IInv
  PROVE  /\ life \in [Workspace -> {"absent", "active", "disabled", "purged"}]
         /\ exists \subseteq Workspace /\ keyed \subseteq exists /\ spent \subseteq Workspace
         /\ runs \in [Workspace -> Nat] /\ others \in [Workspace -> Nat]
         /\ jobs \in [Workspace -> Nat] /\ again \in [Workspace -> Nat]
         /\ busy \in [Workspace -> Nat]
         /\ op \in [Operator -> Command]
         /\ \A p \in Operator : op[p].pc # "idle" => op[p].w \in Workspace
BY DEF IInv, Typed, TypeOK

\* Claims, ends and retries of jobs, ends of runs, runs that were never admitted.
LEMMA WorkKeeps ==
  ASSUME IInv, NEW w \in Workspace,
         Claim(w) \/ JobEnds(w) \/ Requeue(w) \/ RunEnds(w) \/ IngestRun(w)
  PROVE  IInv'
<1>0. \A u \in Workspace : /\ runs[u] \in Nat /\ jobs[u] \in Nat /\ again[u] \in Nat
                           /\ others[u] \in Nat /\ busy[u] \in Nat
  BY Types
<1>1. ASSUME Claim(w) PROVE IInv'
  <2>1. /\ jobs' \in [Workspace -> Nat] /\ again' \in [Workspace -> Nat] /\ busy' \in [Workspace -> Nat]
        /\ \A u \in Workspace : jobs'[u] <= jobs[u] /\ again'[u] <= again[u]
    BY <1>0, <1>1, Types DEF Claim, Less, More
  <2>2. \A u \in Workspace : Calm(u)
    BY <1>0, <1>1, <2>1 DEF Calm, Depth, Active, Claim, tenancy
  <2> QED BY <1>0, <1>1, <2>1, <2>2, Types, WorldKeeps DEF Claim, tenancy
<1>2. ASSUME JobEnds(w) PROVE IInv'
  <2>1. busy' \in [Workspace -> Nat]
    BY <1>0, <1>2, Types DEF JobEnds, Less
  <2>2. \A u \in Workspace : Calm(u)
    BY <1>0, <1>2 DEF Calm, Depth, Active, JobEnds, tenancy
  <2> QED BY <1>0, <1>2, <2>1, <2>2, Types, WorldKeeps DEF JobEnds, tenancy
<1>3. ASSUME Requeue(w) PROVE IInv'
  <2>1. /\ busy' \in [Workspace -> Nat] /\ again' \in [Workspace -> Nat]
        /\ \A u \in Workspace : u # w => again'[u] = again[u]
    BY <1>0, <1>3, Types DEF Requeue, Less, More
  <2>2. \A u \in Workspace : u # w => Calm(u)
    BY <1>0, <1>3, <2>1 DEF Calm, Depth, Active, Requeue, tenancy
  <2> QED BY <1>0, <1>3, <2>1, <2>2, Types, WorldKeeps DEF Requeue, tenancy
<1>4. ASSUME RunEnds(w) PROVE IInv'
  <2>1. /\ runs' \in [Workspace -> Nat] /\ others' \in [Workspace -> Nat]
        /\ \A u \in Workspace : runs'[u] <= runs[u]
    BY <1>0, <1>4, Types DEF RunEnds, Less
  <2>2. \A u \in Workspace : Calm(u)
    BY <1>0, <1>4 DEF Calm, Depth, Active, RunEnds, tenancy
  <2> QED BY <1>0, <1>4, <2>1, <2>2, Types, WorldKeeps DEF RunEnds, tenancy
<1>5. ASSUME IngestRun(w) PROVE IInv'
  <2>1. others' \in [Workspace -> Nat]
    BY <1>0, <1>5, Types DEF IngestRun, More
  <2>2. \A u \in Workspace : Calm(u)
    BY <1>0, <1>5 DEF Calm, Depth, Active, IngestRun, tenancy
  <2> QED BY <1>0, <1>5, <2>1, <2>2, Types, WorldKeeps DEF IngestRun, tenancy
<1> QED BY <1>1, <1>2, <1>3, <1>4, <1>5

LEMMA VerdictKeeps ==
  ASSUME IInv, NEW w \in Workspace, MintKey(w) \/ \E exhausted \in BOOLEAN : Verdict(w, exhausted)
  PROVE  IInv'
<1>0. \A u \in Workspace : runs[u] \in Nat /\ jobs[u] \in Nat /\ again[u] \in Nat
  BY Types
<1>1. ASSUME MintKey(w) PROVE IInv'
  <2>1. keyed' \subseteq exists' /\ exists' = exists
    BY <1>1, Types DEF MintKey
  <2>2. \A u \in Workspace : Calm(u)
    BY <1>0, <1>1 DEF Calm, Depth, Active, MintKey, work
  <2> QED BY <1>0, <1>1, <2>1, <2>2, Types, WorldKeeps DEF MintKey, work
<1>2. ASSUME NEW exhausted \in BOOLEAN, Verdict(w, exhausted) PROVE IInv'
  <2>1. spent' \subseteq Workspace /\ \A u \in Workspace : u # w => (u \in spent' <=> u \in spent)
    BY <1>2, Types DEF Verdict
  <2>2. \A u \in Workspace : u # w => Calm(u)
    BY <1>0, <1>2, <2>1 DEF Calm, Depth, Active, Verdict, work
  <2> QED BY <1>0, <1>2, <2>1, <2>2, Types, WorldKeeps DEF Verdict, work
<1> QED BY <1>1, <1>2

LEMMA CommandTyped ==
  ASSUME IInv, NEW p \in Operator, NEW w,
         Done(p) \/ (w \in Workspace /\ \E pc \in {"revoking", "enabling", "rows", "policy",
                                                    "tenancy", "recording"} : Commands(p, pc, w))
  PROVE  /\ op' \in [Operator -> Command]
         /\ \A q \in Operator : op'[q].pc # "idle" => op'[q].w \in Workspace
BY Types DEF Done, Commands, Command, NoCommand

\* disable and enable.
LEMMA SwitchKeeps ==
  ASSUME IInv, NEW p \in Operator,
         \/ \E w \in Workspace : Disable(p, w) \/ BeginEnable(p, w)
         \/ RevokeKeys(p) \/ WriteEnabled(p)
  PROVE  IInv'
<1>0. \A u \in Workspace : runs[u] \in Nat /\ jobs[u] \in Nat /\ again[u] \in Nat
  BY Types
<1>1. ASSUME NEW w \in Workspace, Disable(p, w) PROVE IInv'
  <2>1. life' \in [Workspace -> {"absent", "active", "disabled", "purged"}]
        /\ \A u \in Workspace : u # w => life'[u] = life[u]
    BY <1>1, Types DEF Disable
  <2>2. \A u \in Workspace : u # w => Calm(u)
    BY <1>0, <1>1, <2>1 DEF Calm, Depth, Active, Disable, work
  <2>3. /\ op' \in [Operator -> Command]
        /\ \A q \in Operator : op'[q].pc # "idle" => op'[q].w \in Workspace
    BY <1>1, CommandTyped DEF Disable
  <2> QED BY <1>0, <1>1, <2>1, <2>2, <2>3, Types, WorldKeeps DEF Disable, work
<1>2. ASSUME NEW w \in Workspace, BeginEnable(p, w) PROVE IInv'
  <2>1. \A u \in Workspace : Calm(u)
    BY <1>0, <1>2 DEF Calm, Depth, Active, BeginEnable, work, tenancy
  <2>2. /\ op' \in [Operator -> Command]
        /\ \A q \in Operator : op'[q].pc # "idle" => op'[q].w \in Workspace
    BY <1>2, CommandTyped DEF BeginEnable
  <2> QED BY <1>0, <1>2, <2>1, <2>2, Types, WorldKeeps DEF BeginEnable, work, tenancy
<1>3. ASSUME RevokeKeys(p) PROVE IInv'
  <2> PICK w \in Workspace : w = op[p].w
    BY <1>3, Types DEF RevokeKeys
  <2>1. \A u \in Workspace : Calm(u)
    BY <1>0, <1>3 DEF Calm, Depth, Active, RevokeKeys, work
  <2>2. /\ op' \in [Operator -> Command]
        /\ \A q \in Operator : op'[q].pc # "idle" => op'[q].w \in Workspace
    BY <1>3, CommandTyped DEF RevokeKeys
  <2>3. keyed' \subseteq exists'
    BY <1>3, Types DEF RevokeKeys
  <2> QED BY <1>0, <1>3, <2>1, <2>2, <2>3, Types, WorldKeeps DEF RevokeKeys, work
<1>4. ASSUME WriteEnabled(p) PROVE IInv'
  <2> PICK w \in Workspace : w = op[p].w
    BY <1>4, Types DEF WriteEnabled
  <2>1. life' \in [Workspace -> {"absent", "active", "disabled", "purged"}]
        /\ \A u \in Workspace : u # w => life'[u] = life[u]
    BY <1>4, Types DEF WriteEnabled
  <2>2. \A u \in Workspace : u # w => Calm(u)
    BY <1>0, <1>4, <2>1 DEF Calm, Depth, Active, WriteEnabled, work
  <2>3. /\ op' \in [Operator -> Command]
        /\ \A q \in Operator : op'[q].pc # "idle" => op'[q].w \in Workspace
    BY <1>4, CommandTyped DEF WriteEnabled
  <2> QED BY <1>0, <1>4, <2>1, <2>2, <2>3, Types, WorldKeeps DEF WriteEnabled, work
<1> QED BY <1>1, <1>2, <1>3, <1>4

\* purge, statement by statement.
LEMMA PurgeKeeps ==
  ASSUME IInv, NEW p \in Operator,
         \/ \E w \in Workspace, force \in BOOLEAN : BeginPurge(p, w, force)
         \/ DeleteRows(p) \/ DeletePolicy(p) \/ DeleteTenancy(p) \/ RecordPurge(p) \/ OpDies(p)
  PROVE  IInv'
<1>0. \A u \in Workspace : runs[u] \in Nat /\ jobs[u] \in Nat /\ again[u] \in Nat
  BY Types
<1>1. ASSUME NEW w \in Workspace, NEW force \in BOOLEAN, BeginPurge(p, w, force) PROVE IInv'
  <2>1. \A u \in Workspace : Calm(u)
    BY <1>0, <1>1 DEF Calm, Depth, Active, BeginPurge, work, tenancy
  <2>2. /\ op' \in [Operator -> Command]
        /\ \A q \in Operator : op'[q].pc # "idle" => op'[q].w \in Workspace
    BY <1>1, CommandTyped DEF BeginPurge
  <2> QED BY <1>0, <1>1, <2>1, <2>2, Types, WorldKeeps DEF BeginPurge, work, tenancy
<1>2. ASSUME DeleteRows(p) PROVE IInv'
  <2> PICK w \in Workspace : w = op[p].w
    BY <1>2, Types DEF DeleteRows
  <2>1. /\ runs' \in [Workspace -> Nat] /\ others' \in [Workspace -> Nat]
        /\ jobs' \in [Workspace -> Nat] /\ again' \in [Workspace -> Nat]
        /\ busy' \in [Workspace -> Nat]
        /\ \A u \in Workspace : runs'[u] <= runs[u] /\ jobs'[u] <= jobs[u] /\ again'[u] <= again[u]
    BY <1>0, <1>2, Types DEF DeleteRows
  <2>2. \A u \in Workspace : Calm(u)
    BY <1>0, <1>2, <2>1 DEF Calm, Depth, Active, DeleteRows, tenancy
  <2>3. /\ op' \in [Operator -> Command]
        /\ \A q \in Operator : op'[q].pc # "idle" => op'[q].w \in Workspace
    BY <1>2, CommandTyped DEF DeleteRows
  <2> QED BY <1>0, <1>2, <2>1, <2>2, <2>3, Types, WorldKeeps DEF DeleteRows, tenancy
<1>3. ASSUME DeletePolicy(p) PROVE IInv'
  <2> PICK w \in Workspace : w = op[p].w
    BY <1>3, Types DEF DeletePolicy
  <2>1. /\ life' \in [Workspace -> {"absent", "active", "disabled", "purged"}]
        /\ \A u \in Workspace : life'[u] = IF u = w THEN "absent" ELSE life[u]
    BY <1>3, Types DEF DeletePolicy
  <2>2. \A u \in Workspace : Calm(u)
    BY <1>0, <1>3, <2>1 DEF Calm, Depth, Active, DeletePolicy, work
  <2>3. /\ op' \in [Operator -> Command]
        /\ \A q \in Operator : op'[q].pc # "idle" => op'[q].w \in Workspace
    BY <1>3, CommandTyped DEF DeletePolicy
  <2>4. spent' \subseteq Workspace
    BY <1>3, Types DEF DeletePolicy
  <2> QED BY <1>0, <1>3, <2>1, <2>2, <2>3, <2>4, Types, WorldKeeps DEF DeletePolicy, work
<1>4. ASSUME DeleteTenancy(p) PROVE IInv'
  <2> PICK w \in Workspace : w = op[p].w
    BY <1>4, Types DEF DeleteTenancy
  <2>1. \A u \in Workspace : Calm(u)
    BY <1>0, <1>4 DEF Calm, Depth, Active, DeleteTenancy, work
  <2>2. /\ op' \in [Operator -> Command]
        /\ \A q \in Operator : op'[q].pc # "idle" => op'[q].w \in Workspace
    BY <1>4, CommandTyped DEF DeleteTenancy
  <2>3. exists' \subseteq Workspace /\ keyed' \subseteq exists'
    BY <1>4, Types DEF DeleteTenancy
  <2> QED BY <1>0, <1>4, <2>1, <2>2, <2>3, Types, WorldKeeps DEF DeleteTenancy, work
<1>5. ASSUME RecordPurge(p) PROVE IInv'
  <2> PICK w \in Workspace : w = op[p].w
    BY <1>5, Types DEF RecordPurge
  <2>1. life' \in [Workspace -> {"absent", "active", "disabled", "purged"}]
        /\ \A u \in Workspace : u # w => life'[u] = life[u]
    BY <1>5, Types DEF RecordPurge
  <2>2. \A u \in Workspace : u # w => Calm(u)
    BY <1>0, <1>5, <2>1 DEF Calm, Depth, Active, RecordPurge, work
  <2>3. /\ op' \in [Operator -> Command]
        /\ \A q \in Operator : op'[q].pc # "idle" => op'[q].w \in Workspace
    BY <1>5, CommandTyped DEF RecordPurge
  <2> QED BY <1>0, <1>5, <2>1, <2>2, <2>3, Types, WorldKeeps DEF RecordPurge, work
<1>6. ASSUME OpDies(p) PROVE IInv'
  <2> PICK w \in Workspace : w = op[p].w
    BY <1>6, Types DEF OpDies
  <2>1. \A u \in Workspace : Calm(u)
    BY <1>0, <1>6 DEF Calm, Depth, Active, OpDies, work, tenancy
  <2>2. /\ op' \in [Operator -> Command]
        /\ \A q \in Operator : op'[q].pc # "idle" => op'[q].w \in Workspace
    BY <1>6, CommandTyped DEF OpDies
  <2> QED BY <1>0, <1>6, <2>1, <2>2, Types, WorldKeeps DEF OpDies, work, tenancy
<1> QED BY <1>1, <1>2, <1>3, <1>4, <1>5, <1>6

LEMMA NextIInv == IInv /\ [Next]_vars => IInv'
<1> SUFFICES ASSUME IInv, [Next]_vars PROVE IInv'
  OBVIOUS
<1>1. ASSUME NEW c \in Client, Abandon(c) PROVE IInv'
  BY <1>1, IdleKeeps DEF Abandon
<1>2. ASSUME NEW c \in Client,
             \/ \E w \in Workspace : PostEvent(c, w) \/ \E n \in 1 .. MaxBatch : PostBatch(c, w, n)
             \/ ChargeBatch(c) \/ RequireActive(c) \/ CheckUsage(c) \/ SaveRun(c) \/ SaveJob(c)
      PROVE  IInv'
  BY <1>2, PostKeeps, ChargeKeeps, RequireActiveKeeps, CheckUsageKeeps, SaveRunKeeps, SaveJobKeeps
<1>3. ASSUME NEW w \in Workspace,
             \/ Claim(w) \/ JobEnds(w) \/ Requeue(w) \/ RunEnds(w) \/ IngestRun(w) \/ MintKey(w)
             \/ \E exhausted \in BOOLEAN : Verdict(w, exhausted)
      PROVE  IInv'
  BY <1>3, WorkKeeps, VerdictKeeps
<1>4. ASSUME NEW p \in Operator,
             \/ \E w \in Workspace : \/ Disable(p, w) \/ BeginEnable(p, w)
                                     \/ \E force \in BOOLEAN : BeginPurge(p, w, force)
             \/ RevokeKeys(p) \/ WriteEnabled(p) \/ DeleteRows(p) \/ DeletePolicy(p)
             \/ DeleteTenancy(p) \/ RecordPurge(p) \/ OpDies(p)
      PROVE  IInv'
  BY <1>4, SwitchKeeps, PurgeKeeps
<1>5. CASE UNCHANGED vars
  BY <1>5 DEF vars, tenancy, work, IInv, Typed, TypeOK, RequestOK, Charged, Saving, Room, UnitOK,
              Depth, Active, BatchIsAUnit
<1> QED BY <1>1, <1>2, <1>3, <1>4, <1>5 DEF Next

\* Keys are of workspaces that exist, and everything keeps its type, whatever requests,
\* commands and purges interleave or die (purge.py purge, _delete_tenancy).
THEOREM AdmissionTypeCorrect == Spec => []TypeOK
BY InitIInv, NextIInv, PTL DEF Spec, IInv, Typed

\* For any number of clients and any limits, what a workspace was admitted with exceeds
\* its quota by at most one for every other request under way (quotas.py check_admission).
THEOREM OvershootIsBounded == Spec => []AdmissionBounded
<1>1. IInv => AdmissionBounded
  <2> SUFFICES ASSUME IInv, NEW w \in Workspace
               PROVE  /\ runs[w] <= MaxRuns - 1 + Cardinality(Client)
                      /\ jobs[w] <= MaxDepth - 1 + Cardinality(Client)
    BY DEF AdmissionBounded
  <2> QED BY SavingCounts, CountsTyped, AdmissionAssumption DEF IInv, Charged
<1> QED BY InitIInv, NextIInv, <1>1, PTL DEF Spec

\* A batch nobody interferes with is admitted or refused whole, whatever its size and
\* the limits (queue.py enqueue_batch).
THEOREM BatchesAreUnits == Spec => []BatchIsAUnit
BY InitIInv, NextIInv, PTL DEF Spec, IInv

-----------------------------------------------------------------------------
(* The fleet. *)

\* A container driver at the version scope: it lists every worker under its own key.
Container == Substrate = TRUE /\ Wide = FALSE

\* What is known of the constants: a key is a group.
LEMMA Keys ==
  ASSUME Container
  PROVE  /\ Key = Group /\ Key \subseteq Nat \ {0} /\ IsFiniteSet(Key)
         /\ Tenant \notin Key /\ NoKey \notin Key /\ NoKey \notin Nat
         /\ IsFiniteSet(Worker) /\ NoSup \notin Sup
         /\ MaxReplicas \in Nat \ {0} /\ MaxWorkers \in Nat /\ Backlog \in Nat \ {0}
BY FleetAssumption DEF Container, Key, Tenant, NoKey

-----------------------------------------------------------------------------
(* Sums. *)

\* Places are as many as there are numbers to be summed.
LEMMA PlacesFacts ==
  ASSUME NEW K, IsFiniteSet(K), NEW n \in [K -> Nat]
  PROVE  /\ IsFiniteSet(Places(n)) /\ Total(n) \in Nat
         /\ Total(n) = Cardinality(Places(n))
         /\ \A k, i : <<k, i>> \in Places(n) <=> k \in K /\ i \in 1 .. n[k]
         /\ \A x \in Places(n) : \E k \in K : \E i \in 1 .. n[k] : x = <<k, i>>
         /\ Total(n) = 0 => \A k \in K : n[k] = 0
<1> DEFINE f == [k \in K |-> {k} \X (1 .. n[k])]
           T == {{k} \X (1 .. n[k]) : k \in K}
<1>1. Places(n) = UNION T BY DEF Places
<1>2. IsFiniteSet(T)
  <2>1. f \in Surjection(K, T) BY DEF Surjection
  <2> QED BY <2>1, FS_Surjection
<1>3. ASSUME NEW k \in K PROVE IsFiniteSet({k} \X (1 .. n[k]))
  <2>1. IsFiniteSet({k}) BY FS_Singleton
  <2>2. 1 \in Int /\ n[k] \in Int OBVIOUS
  <2>3. IsFiniteSet(1 .. n[k]) BY <2>2, FS_Interval
  <2> QED BY <2>1, <2>3, FS_Product
<1>4. IsFiniteSet(UNION T)
  <2>1. \A t \in T : IsFiniteSet(t) BY <1>3
  <2> HIDE DEF T
  <2> QED BY <1>2, <2>1, FS_UNION
<1>9. Total(n) = Cardinality(Places(n)) BY DEF Total
<1>5. Total(n) \in Nat BY <1>1, <1>4, <1>9, FS_CardinalityType
<1>6. \A k, i : <<k, i>> \in Places(n) <=> k \in K /\ i \in 1 .. n[k]
  BY <1>1
<1>7. \A x \in Places(n) : \E k \in K : \E i \in 1 .. n[k] : x = <<k, i>>
  BY <1>1
<1>8. ASSUME Total(n) = 0, NEW k \in K PROVE n[k] = 0
  <2>1. Places(n) = {} BY <1>1, <1>4, <1>8, <1>9, FS_EmptySet
  <2>2. ~(1 \in 1 .. n[k]) BY <1>6, <2>1
  <2> QED BY <2>2
<1> QED BY <1>1, <1>4, <1>5, <1>6, <1>7, <1>8, <1>9

\* One place fewer.
LEMMA TakesOne ==
  ASSUME NEW K, IsFiniteSet(K), NEW n \in [K -> Nat], NEW k \in K, n[k] > 0
  PROVE  /\ [n EXCEPT ![k] = @ - 1] \in [K -> Nat]
         /\ Total([n EXCEPT ![k] = @ - 1]) = Total(n) - 1
<1> DEFINE m == [n EXCEPT ![k] = @ - 1]
<1>1. m \in [K -> Nat] /\ m[k] = n[k] - 1 /\ \A j \in K : j # k => m[j] = n[j]
  OBVIOUS
<1> HIDE DEF m
<1>2. Places(m) = Places(n) \ {<<k, n[k]>>}
  <2>1. ASSUME NEW x \in Places(m) PROVE x \in Places(n) \ {<<k, n[k]>>}
    <3>0. PICK j \in K : \E i \in 1 .. m[j] : x = <<j, i>> BY <1>1, PlacesFacts
    <3>1. PICK i \in 1 .. m[j] : x = <<j, i>> BY <3>0
    <3>2. i \in 1 .. n[j] /\ ~(j = k /\ i = n[k]) BY <1>1, <3>1
    <3> QED BY <3>1, <3>2, PlacesFacts
  <2>2. ASSUME NEW x \in Places(n) \ {<<k, n[k]>>} PROVE x \in Places(m)
    <3>0. PICK j \in K : \E i \in 1 .. n[j] : x = <<j, i>> BY PlacesFacts
    <3>1. PICK i \in 1 .. n[j] : x = <<j, i>> BY <3>0
    <3>2. i \in 1 .. m[j] BY <1>1, <2>2, <3>1
    <3> QED BY <1>1, <3>1, <3>2, PlacesFacts
  <2> QED BY <2>1, <2>2
<1>3. <<k, n[k]>> \in Places(n) BY PlacesFacts
<1>4. IsFiniteSet(Places(n)) /\ Total(n) = Cardinality(Places(n))
      /\ Total(m) = Cardinality(Places(m))
  BY <1>1, PlacesFacts
<1> QED BY <1>1, <1>2, <1>3, <1>4, FS_RemoveElement DEF m

\* The places of one element.
LEMMA OneRow ==
  ASSUME NEW g, NEW m \in Nat
  PROVE  IsFiniteSet({g} \X (1 .. m)) /\ Cardinality({g} \X (1 .. m)) = m
<1> DEFINE A == {g}
           B == 1 .. m
<1>1. IsFiniteSet(A) /\ Cardinality(A) = 1 BY FS_Singleton
<1>2. IsFiniteSet(B) /\ Cardinality(B) = m
  <2>1. IsFiniteSet(B) /\ Cardinality(B) = IF 1 > m THEN 0 ELSE m - 1 + 1
    BY FS_Interval
  <2> QED BY <2>1
<1> HIDE DEF A, B
<1>3. IsFiniteSet(A \X B) /\ Cardinality(A \X B) = Cardinality(A) * Cardinality(B)
  BY <1>1, <1>2, FS_Product
<1>4. Cardinality(A \X B) = m
  <2>1. 1 * m = m OBVIOUS
  <2> QED BY <1>1, <1>2, <1>3, <2>1
<1> QED BY <1>3, <1>4 DEF A, B

\* A finite set of numbers has a greatest one.
LEMMA Greatest ==
  ASSUME NEW N \in SUBSET Nat, IsFiniteSet(N), N # {}
  PROVE  \E n \in N : \A m \in N : m <= n
<1> DEFINE Above(n) == {m \in N : m > n}
           A == {Above(n) : n \in N}
<1>1. A \subseteq FiniteSubsetsOf(N) /\ A # {}
  <2>1. \A n \in N : Above(n) \subseteq N /\ IsFiniteSet(Above(n)) BY FS_Subset
  <2> QED BY <2>1 DEF FiniteSubsetsOf
<1>2. PICK x \in A : \A y \in A : ~(<<y, x>> \in StrictSubsetOrdering(N))
  <2> HIDE DEF A
  <2> QED BY <1>1, FS_StrictSubsetOrderingWellFounded, WFMin
<1>3. PICK n \in N : x = Above(n) OBVIOUS
<1>4. ASSUME NEW m \in N, m > n PROVE FALSE
  <2>1. n \in Nat /\ m \in Nat OBVIOUS
  <2>2. m \in Above(n) /\ m \notin Above(m) BY <1>4, <2>1
  <2>3. Above(m) \subseteq Above(n) /\ Above(n) \subseteq N
    <3>1. \A k \in N : k \in Nat /\ (k > m => k > n) BY <1>4, <2>1
    <3> QED BY <3>1
  <2>4. <<Above(m), Above(n)>> \in StrictSubsetOrdering(N)
    BY <2>2, <2>3 DEF StrictSubsetOrdering
  <2> QED BY <1>2, <1>3, <2>4
<1>5. \A m \in N : m \in Nat /\ n \in Nat OBVIOUS
<1> QED BY <1>4, <1>5

LEMMA PlaceIn ==
  ASSUME NEW n, NEW x \in Places(n)
  PROVE  \E k \in DOMAIN n : \E i \in 1 .. n[k] : x = <<k, i>>
BY DEF Places

\* Each key gets no more than it needs and than those before it leave.
InTurn(K, n, need, places) ==
  \A k \in K :
    /\ n[k] <= need[k]
    /\ n[k] <= Most(0, places - Total([j \in {j \in K : j < k} |-> need[j]]))

\* Handing out places in order, as long as there are some, hands out no more than
\* there are.
LEMMA GreedyFits ==
  ASSUME NEW K \in SUBSET Nat, IsFiniteSet(K), NEW n \in [K -> Nat], NEW need \in [K -> Nat],
         NEW places \in Nat, InTurn(K, n, need, places)
  PROVE  Total(n) <= places
<1>a. IsFiniteSet(Places(n)) /\ Total(n) \in Nat /\ Total(n) = Cardinality(Places(n))
  BY PlacesFacts
<1>b. ASSUME NEW x \in Places(n) PROVE \E k \in K : \E i \in 1 .. n[k] : x = <<k, i>>
  <2>1. DOMAIN n = K OBVIOUS
  <2> QED BY <2>1, PlaceIn, Zenon
<1> DEFINE S == {k \in K : n[k] > 0}
<1>1. CASE S = {}
  <2>1. Places(n) = {}
    <3>1. \A k \in K : n[k] \in Nat /\ ~(n[k] > 0) BY <1>1
    <3>2. \A k \in K : 1 .. n[k] = {} BY <3>1
    <3> QED BY <1>a, <1>b, <3>2
  <2>2. Total(n) = 0 BY <1>a, <1>b, <2>1, FS_EmptySet
  <2>3. \A m \in Nat : 0 <= m OBVIOUS
  <2> QED BY <2>2, <2>3
<1>2. CASE S # {}
  <2>1. S \in SUBSET Nat /\ IsFiniteSet(S) BY FS_Subset
  <2>2. PICK g \in S : \A k \in S : k <= g
    <3> HIDE DEF S
    <3> QED BY <1>2, <2>1, Greatest
  <2> DEFINE E == {j \in K : j < g}
             e == [j \in E |-> need[j]]
             own == {g} \X (1 .. n[g])
  <2>3. IsFiniteSet(E) /\ e \in [E -> Nat] BY FS_Subset
  <2>4. /\ IsFiniteSet(Places(e)) /\ Total(e) \in Nat /\ Total(e) = Cardinality(Places(e))
        /\ \A k, i : <<k, i>> \in Places(e) <=> k \in E /\ i \in 1 .. e[k]
    <3> HIDE DEF E, e
    <3> QED BY <2>3, PlacesFacts
  <2>5. n[g] \in Nat /\ n[g] > 0 /\ g \in K OBVIOUS
  <2>6. IsFiniteSet(own) /\ Cardinality(own) = n[g] BY <2>5, OneRow
  <2>7. Places(n) \subseteq Places(e) \cup own
    <3> SUFFICES ASSUME NEW x \in Places(n) PROVE x \in Places(e) \cup own
      OBVIOUS
    <3>1. PICK k \in K : \E i \in 1 .. n[k] : x = <<k, i>> BY <1>a, <1>b
    <3>2. PICK i \in 1 .. n[k] : x = <<k, i>> BY <3>1
    <3>3. k \in S BY <3>2
    <3>4. k <= g /\ k \in Nat /\ g \in Nat BY <2>1, <2>2, <3>3
    <3>5. CASE k = g BY <3>2, <3>5
    <3>6. CASE k < g
      <4>1. n[k] \in Nat /\ need[k] \in Nat /\ n[k] <= need[k] BY DEF InTurn
      <4>2. i \in 1 .. need[k] BY <3>2, <4>1
      <4> QED BY <2>4, <3>2, <3>6, <4>2
    <3> QED BY <3>4, <3>5, <3>6
  <2>8. /\ IsFiniteSet(Places(e) \cup own)
        /\ Cardinality(Places(e) \cup own) <= Total(e) + n[g]
    <3> HIDE DEF own, e
    <3>1. Cardinality(Places(e) \cap own) \in Nat BY <2>6, FS_Subset, FS_CardinalityType
    <3>2. /\ IsFiniteSet(Places(e) \cup own)
          /\ Cardinality(Places(e) \cup own) =
               Cardinality(Places(e)) + Cardinality(own) - Cardinality(Places(e) \cap own)
      BY <2>4, <2>6, FS_Union
    <3> QED BY <2>4, <2>5, <2>6, <3>1, <3>2
  <2>9. Total(n) <= Total(e) + n[g]
    <3> HIDE DEF own, e
    <3>1. Cardinality(Places(n)) <= Cardinality(Places(e) \cup own)
      BY <2>7, <2>8, FS_Subset
    <3>2. Total(n) \in Nat /\ Total(n) = Cardinality(Places(n)) BY <1>a, <1>b
    <3>3. Cardinality(Places(e) \cup own) \in Nat BY <2>8, FS_CardinalityType
    <3> QED BY <2>4, <2>5, <2>8, <3>1, <3>2, <3>3
  <2>10. n[g] <= Most(0, places - Total(e)) BY <2>5 DEF InTurn
  <2>11. Total(n) \in Nat BY <1>a, <1>b
  <2> HIDE DEF e, own, S
  <2> QED BY <2>4, <2>5, <2>9, <2>10, <2>11 DEF Most
<1> QED BY <1>1, <1>2

-----------------------------------------------------------------------------
(* The crew: the worker processes there are, and those of one key. *)

Crew(p) == {w \in Worker : p[w].st # "none"}
CrewOf(p, k) == {w \in Worker : p[w].st # "none" /\ p[w].key = k}

\* If every key is counted for as many workers as it has, all workers are counted.
LEMMA CrewCounted ==
  ASSUME Container, NEW p, \A w \in Crew(p) : p[w].key \in Key,
         NEW D, Key \subseteq D, IsFiniteSet(D), NEW n \in [D -> Nat],
         \A k \in Key : Cardinality(CrewOf(p, k)) <= n[k]
  PROVE  Cardinality(Crew(p)) <= Total(n)
<1> DEFINE b == [k \in Key |-> CHOOSE f : f \in Injection(CrewOf(p, k), 1 .. n[k])]
           h == [w \in Crew(p) |-> <<p[w].key, b[p[w].key][w]>>]
<1>1. ASSUME NEW k \in Key PROVE b[k] \in Injection(CrewOf(p, k), 1 .. n[k])
  <2> DEFINE c == Cardinality(CrewOf(p, k))
  <2>1. IsFiniteSet(CrewOf(p, k)) BY Keys, FS_Subset DEF CrewOf
  <2>2. c \in Nat /\ ExistsBijection(1 .. c, CrewOf(p, k)) BY <2>1, FS_CardinalityType
  <2>3. ExistsBijection(CrewOf(p, k), 1 .. c) BY <2>2, Fun_ExistsBijSymmetric
  <2>4. PICK f : f \in Bijection(CrewOf(p, k), 1 .. c) BY <2>3 DEF ExistsBijection
  <2>5. n[k] \in Nat /\ c <= n[k] BY <1>1
  <2>6. 1 .. c \subseteq 1 .. n[k] BY <2>2, <2>5
  <2> HIDE DEF c
  <2>7. f \in Injection(CrewOf(p, k), 1 .. n[k]) BY <2>4, <2>6 DEF Bijection, Injection, IsInjective
  <2> QED BY <2>7
<1> HIDE DEF b
<1>2. ASSUME NEW w \in Crew(p) PROVE /\ p[w].key \in Key /\ w \in CrewOf(p, p[w].key)
                                     /\ h[w] \in Places(n)
  <2>1. p[w].key \in Key /\ w \in CrewOf(p, p[w].key) BY DEF Crew, CrewOf
  <2>2. b[p[w].key][w] \in 1 .. n[p[w].key] BY <1>1, <2>1 DEF Injection, IsInjective
  <2> QED BY <2>1, <2>2, PlacesFacts
<1>3. ASSUME NEW v \in Crew(p), NEW w \in Crew(p), h[v] = h[w] PROVE v = w
  <2>1. p[v].key = p[w].key /\ b[p[v].key][v] = b[p[w].key][w] BY <1>3
  <2>2. v \in CrewOf(p, p[v].key) /\ w \in CrewOf(p, p[v].key) /\ p[v].key \in Key
    BY <1>2, <2>1
  <2>3. b[p[v].key] \in Injection(CrewOf(p, p[v].key), 1 .. n[p[v].key]) BY <1>1, <2>2
  <2> QED BY <2>1, <2>2, <2>3 DEF Injection, IsInjective
<1>4. h \in Injection(Crew(p), Places(n))
  BY <1>2, <1>3 DEF Injection, IsInjective
<1>5. IsFiniteSet(Places(n)) /\ Total(n) = Cardinality(Places(n)) BY PlacesFacts
<1> HIDE DEF h
<1> QED BY <1>4, <1>5, FS_Injection

-----------------------------------------------------------------------------
(* A plan. *)

\* What is planned fits beside the crew there is.
Fits(p, start) ==
  /\ \A k \in Key : start[k] = 0 \/ Cardinality(CrewOf(p, k)) + start[k] <= MaxReplicas
  /\ Total(start) = 0 \/ Cardinality(Crew(p)) + Total(start) <= MaxWorkers

\* The crew is within its bounds.
Slim(p) ==
  /\ \A k \in Key : Cardinality(CrewOf(p, k)) <= MaxReplicas
  /\ Cardinality(Crew(p)) <= MaxWorkers

ProcSet == [st : {"none", "booting", "admitted", "up", "drained", "beating", "leaving"},
            key : Key \cup {NoKey}, by : Sup \cup {NoSup}, saw : {"absent", "alive", "stopped"}]
RowSet == [status : {"absent", "alive", "stopped"}, fresh : BOOLEAN]
SupSet == [pc : {"down", "idle", "planned", "applying"}, reap : SUBSET Worker,
           start : [Key -> Nat], current : BOOLEAN]

FleetTyped ==
  /\ lease \in [holder : Sup \cup {NoSup}, live : BOOLEAN]
  /\ sup \in [Sup -> SupSet] /\ started \in [Sup -> [Key -> Nat]]
  /\ proc \in [Worker -> ProcSet] /\ row \in [Worker -> RowSet]
  /\ depth \in [Group -> Nat] /\ excused \in BOOLEAN
  /\ \A w \in Crew(proc) : proc[w].key \in Key

LEMMA CrewFinite ==
  ASSUME Container, NEW p
  PROVE  /\ IsFiniteSet(Crew(p)) /\ Cardinality(Crew(p)) \in Nat
         /\ \A k : IsFiniteSet(CrewOf(p, k)) /\ Cardinality(CrewOf(p, k)) \in Nat
BY Keys, FS_Subset, FS_CardinalityType DEF Crew, CrewOf

\* What a key is planned for is no more than the policy's replicas.
LEMMA WantBounded ==
  ASSUME Container, FleetTyped, NEW k \in Key
  PROVE  Want(k) \in Nat /\ Want(k) <= MaxReplicas
<1>1. DepthOf(k) \in Nat BY Keys DEF DepthOf, FleetTyped
<1> DEFINE q == (DepthOf(k) + Backlog - 1) \div Backlog
<1>2. Backlog \in Nat /\ Backlog > 0 /\ MaxReplicas \in Nat /\ MaxReplicas > 0 BY Keys
<1>3. q \in Int BY <1>1, <1>2
<1>4. CASE DepthOf(k) > 0
  <2>1. Want(k) = Least(MaxReplicas, Most(1, q)) BY <1>4 DEF Want
  <2> HIDE DEF q
  <2> QED BY <1>2, <1>3, <2>1 DEF Least, Most
<1>5. CASE ~(DepthOf(k) > 0)
  <2>1. Want(k) = 0 \/ Want(k) = 1 BY <1>5 DEF Want
  <2> QED BY <1>2, <2>1
<1> QED BY <1>4, <1>5

\* An inventory that leaves no worker out.
Whole(launched) == \A k \in Key : Cardinality(CrewOf(proc, k)) <= launched[k]

\* A plan made on it fits.
LEMMA PlanFits ==
  ASSUME Container, FleetTyped, NEW launched \in [Key \cup {NoKey} -> Nat]
  PROVE  /\ Starts(launched) \in [Key -> Nat]
         /\ Whole(launched) => Fits(proc, Starts(launched))
<1> DEFINE D == Key \cup {NoKey}
           live == [k \in D |-> LiveCount(k, launched)]
           need == [k \in Key |-> Need(k, launched)]
           n == Starts(launched)
           places == Budget(launched)
           before(k) == Total([j \in {j \in Key : j < k} |-> need[j]])
<1>1. IsFiniteSet(D) BY Keys, FS_AddElement
<1>2. ASSUME NEW k \in D PROVE LiveCount(k, launched) \in Nat /\ launched[k] <= LiveCount(k, launched)
  <2>1. IsFiniteSet({w \in Worker : Alive(w) /\ proc[w].key = k}) BY Keys, FS_Subset
  <2>2. Registered(k) \in Nat
    BY <2>1, FS_CardinalityType DEF Registered
  <2>3. launched[k] \in Nat OBVIOUS
  <2> QED BY <2>2, <2>3 DEF LiveCount, Most
<1>3. live \in [D -> Nat] /\ \A k \in D : live[k] = LiveCount(k, launched) BY <1>2
<1>4. Total(live) \in Nat
  <2> HIDE DEF live, D
  <2> QED BY <1>1, <1>3, PlacesFacts
<1>5. places = Most(0, MaxWorkers - Total(live)) BY DEF Budget
<1>6. places \in Nat /\ (places > 0 => places + Total(live) = MaxWorkers)
  <2> HIDE DEF live, places
  <2> QED BY <1>4, <1>5, Keys DEF Most
<1>7. ASSUME NEW k \in Key
      PROVE  /\ need[k] \in Nat
             /\ need[k] > 0 => need[k] + LiveCount(k, launched) <= MaxReplicas
  <2>1. Want(k) \in Nat /\ Want(k) <= MaxReplicas /\ LiveCount(k, launched) \in Nat
        /\ MaxReplicas \in Nat
    BY <1>2, WantBounded, Keys
  <2>2. need[k] = 0 \/ need[k] = Most(0, Want(k) - LiveCount(k, launched))
    BY DEF Need
  <2> HIDE DEF need
  <2> QED BY <2>1, <2>2 DEF Most
<1>8. need \in [Key -> Nat] BY <1>7
<1>9. ASSUME NEW k \in Key
      PROVE  n[k] \in Nat /\ n[k] <= need[k] /\ n[k] <= Most(0, places - before(k))
  <2>1. n[k] = Least(need[k], Most(0, places - before(k)))
    <3>1. [j \in {j \in Key : j < k} |-> need[j]] = [j \in {j \in Key : j < k} |-> Need(j, launched)]
      OBVIOUS
    <3> QED BY <3>1 DEF Starts
  <2>2. before(k) \in Nat
    <3>1. IsFiniteSet({j \in Key : j < k}) BY Keys, FS_Subset
    <3>2. [j \in {j \in Key : j < k} |-> need[j]] \in [{j \in Key : j < k} -> Nat] BY <1>7
    <3> QED BY <3>1, <3>2, PlacesFacts
  <2>3. need[k] \in Nat BY <1>7
  <2> HIDE DEF n, need, places, before
  <2> QED BY <1>6, <2>1, <2>2, <2>3 DEF Least, Most
<1>10. n \in [Key -> Nat]
  <2>1. n = [k \in Key |-> n[k]] BY DEF Starts
  <2> HIDE DEF n
  <2> QED BY <1>9, <2>1
<1>11. Total(n) \in Nat /\ Total(n) <= places
  <2>1. Key \in SUBSET Nat /\ IsFiniteSet(Key) BY Keys
  <2>2. InTurn(Key, n, need, places)
    BY <1>9 DEF InTurn
  <2> HIDE DEF n, need, places
  <2>3. Total(n) <= places BY <1>6, <1>8, <1>10, <2>1, <2>2, GreedyFits
  <2> QED BY <1>10, <2>1, <2>3, PlacesFacts
<1>12. ASSUME Whole(launched), NEW k \in Key PROVE n[k] = 0 \/ Cardinality(CrewOf(proc, k)) + n[k] <= MaxReplicas
  <2>1. n[k] \in Nat /\ n[k] <= need[k] /\ need[k] \in Nat BY <1>7, <1>9
  <2>2. need[k] > 0 => need[k] + LiveCount(k, launched) <= MaxReplicas BY <1>7
  <2>3. Cardinality(CrewOf(proc, k)) \in Nat BY CrewFinite
  <2>4. LiveCount(k, launched) \in Nat /\ Cardinality(CrewOf(proc, k)) <= LiveCount(k, launched)
    <3>1. Cardinality(CrewOf(proc, k)) <= launched[k] /\ launched[k] <= LiveCount(k, launched)
          /\ launched[k] \in Nat /\ LiveCount(k, launched) \in Nat
      BY <1>2, <1>12 DEF Whole
    <3> HIDE DEF D, live, need, n, places
    <3> QED BY <2>3, <3>1
  <2>5. MaxReplicas \in Nat BY Keys
  <2> HIDE DEF D, live, need, n, places
  <2> QED BY <2>1, <2>2, <2>3, <2>4, <2>5
<1>13. ASSUME Whole(launched)
       PROVE  Total(n) = 0 \/ Cardinality(Crew(proc)) + Total(n) <= MaxWorkers
  <2>1. Cardinality(Crew(proc)) <= Total(live)
    <3>1. \A k \in Key : Cardinality(CrewOf(proc, k)) <= live[k]
      <4> SUFFICES ASSUME NEW k \in Key PROVE Cardinality(CrewOf(proc, k)) <= live[k]
        OBVIOUS
      <4>1. Cardinality(CrewOf(proc, k)) \in Nat /\ launched[k] \in Nat /\ live[k] \in Nat
            /\ Cardinality(CrewOf(proc, k)) <= launched[k] /\ launched[k] <= live[k]
        BY <1>2, <1>3, <1>13, CrewFinite DEF Whole
      <4> HIDE DEF D, live
      <4> QED BY <4>1
    <3>2. Key \subseteq D OBVIOUS
    <3>3. \A w \in Crew(proc) : proc[w].key \in Key BY DEF FleetTyped
    <3> HIDE DEF D, live
    <3> QED BY <1>1, <1>3, <3>1, <3>2, <3>3, CrewCounted
  <2>2. Cardinality(Crew(proc)) \in Nat /\ MaxWorkers \in Nat BY CrewFinite, Keys
  <2> HIDE DEF D, live, need, n, places
  <2> QED BY <1>4, <1>6, <1>11, <2>1, <2>2
<1> HIDE DEF D, live, need, n, places
<1> QED BY <1>10, <1>12, <1>13 DEF Fits, n

LEMMA InventoryWhole ==
  ASSUME Container, FleetTyped, NEW s \in Sup
  PROVE  Inventory(s) \in [Key \cup {NoKey} -> Nat] /\ Whole(Inventory(s))
<1> DEFINE D == Key \cup {NoKey}
           seen(k) == {w \in Worker : /\ Running(w) /\ Label(w) = k
                                      /\ Substrate \/ proc[w].by = s}
<1>1. Inventory(s) = [k \in D |-> Cardinality(seen(k))]
  BY DEF Inventory
<1>2. \A k : IsFiniteSet(seen(k)) /\ Cardinality(seen(k)) \in Nat
  BY Keys, FS_Subset, FS_CardinalityType
<1>3. ASSUME NEW k \in Key PROVE Cardinality(CrewOf(proc, k)) <= Cardinality(seen(k))
  <2>1. ASSUME NEW w \in CrewOf(proc, k) PROVE w \in seen(k)
    <3>1. w \in Worker /\ proc[w].st # "none" /\ proc[w].key = k /\ k # Tenant
      BY Keys DEF CrewOf
    <3> QED BY <3>1 DEF Running, Label, Container
  <2>2. CrewOf(proc, k) \in SUBSET seen(k) BY <2>1
  <2> HIDE DEF seen
  <2> QED BY <1>2, <2>2, FS_Subset
<1> HIDE DEF seen
<1>4. Inventory(s) \in [D -> Nat] BY <1>1, <1>2
<1>5. \A k \in Key : Inventory(s)[k] = Cardinality(seen(k)) BY <1>1
<1> QED BY <1>3, <1>4, <1>5 DEF Whole

-----------------------------------------------------------------------------
(* A smaller crew, and a smaller plan. *)

Shrinks(p, q) ==
  \A w \in Worker : q[w].st # "none" => p[w].st # "none" /\ q[w].key = p[w].key

LEMMA CrewShrinks ==
  ASSUME Container, NEW p, NEW q, Shrinks(p, q)
  PROVE  /\ Slim(p) => Slim(q)
         /\ \A start \in [Key -> Nat] : Fits(p, start) => Fits(q, start)
<1>1. Crew(q) \in SUBSET Crew(p) /\ \A k : CrewOf(q, k) \in SUBSET CrewOf(p, k)
  BY DEF Crew, CrewOf, Shrinks
<1>2. /\ Cardinality(Crew(q)) <= Cardinality(Crew(p))
      /\ \A k : Cardinality(CrewOf(q, k)) <= Cardinality(CrewOf(p, k))
  BY <1>1, CrewFinite, FS_Subset
<1>3. /\ Cardinality(Crew(q)) \in Nat /\ Cardinality(Crew(p)) \in Nat
      /\ \A k : Cardinality(CrewOf(q, k)) \in Nat /\ Cardinality(CrewOf(p, k)) \in Nat
  BY CrewFinite
<1>4. MaxReplicas \in Nat /\ MaxWorkers \in Nat BY Keys
<1>5. ASSUME Slim(p) PROVE Slim(q)
  BY <1>2, <1>3, <1>4, <1>5 DEF Slim
<1>6. ASSUME NEW start \in [Key -> Nat], Fits(p, start) PROVE Fits(q, start)
  <2>1. Total(start) \in Nat BY Keys, PlacesFacts
  <2>2. \A k \in Key : start[k] \in Nat OBVIOUS
  <2> QED BY <1>2, <1>3, <1>4, <1>6, <2>1, <2>2 DEF Fits
<1> QED BY <1>5, <1>6

\* Once a start was tried there is one fewer to come, whether it failed ...
LEMMA OneFewer ==
  ASSUME Container, NEW p, NEW start \in [Key -> Nat], NEW k \in Key, start[k] > 0,
         Fits(p, start)
  PROVE  Fits(p, [start EXCEPT ![k] = @ - 1])
<1> DEFINE m == [start EXCEPT ![k] = @ - 1]
<1>1. m \in [Key -> Nat] /\ Total(m) = Total(start) - 1 BY Keys, TakesOne
<1>2. Total(m) \in Nat /\ Total(start) \in Nat BY <1>1, Keys, PlacesFacts
<1>3. \A j \in Key : start[j] \in Nat /\ m[j] = IF j = k THEN start[k] - 1 ELSE start[j]
  OBVIOUS
<1>4. /\ Cardinality(Crew(p)) \in Nat /\ \A j : Cardinality(CrewOf(p, j)) \in Nat
      /\ MaxReplicas \in Nat /\ MaxWorkers \in Nat
  BY CrewFinite, Keys
<1> HIDE DEF m
<1>5. ASSUME NEW j \in Key PROVE m[j] = 0 \/ Cardinality(CrewOf(p, j)) + m[j] <= MaxReplicas
  <2>1. start[j] = 0 \/ Cardinality(CrewOf(p, j)) + start[j] <= MaxReplicas BY DEF Fits
  <2>2. m[j] = 0 \/ m[j] = start[j] \/ (m[j] = start[j] - 1 /\ start[j] > 0) BY <1>3
  <2> QED BY <1>3, <1>4, <2>1, <2>2
<1>6. Total(m) = 0 \/ Cardinality(Crew(p)) + Total(m) <= MaxWorkers
  <2>1. Total(start) = 0 \/ Cardinality(Crew(p)) + Total(start) <= MaxWorkers BY DEF Fits
  <2> QED BY <1>1, <1>2, <1>4, <2>1
<1> QED BY <1>5, <1>6 DEF Fits, m

Joins(w, k, p, q) ==
  /\ p[w].st = "none" /\ q[w].st # "none" /\ q[w].key = k
  /\ \A v \in Worker : v # w => q[v] = p[v]

\* ... or not: then there is one worker more, within the bounds.
LEMMA OneMore ==
  ASSUME Container, NEW p, NEW q, NEW start \in [Key -> Nat], NEW k \in Key, start[k] > 0,
         Fits(p, start), Slim(p), NEW w \in Worker, Joins(w, k, p, q)
  PROVE  Slim(q) /\ Fits(q, [start EXCEPT ![k] = @ - 1])
<1> DEFINE m == [start EXCEPT ![k] = @ - 1]
<1>1. m \in [Key -> Nat] /\ Total(m) = Total(start) - 1 BY Keys, TakesOne
<1>2. Total(m) \in Nat /\ Total(start) \in Nat BY <1>1, Keys, PlacesFacts
<1>3. \A j \in Key : start[j] \in Nat /\ m[j] = IF j = k THEN start[k] - 1 ELSE start[j]
  OBVIOUS
<1>4. /\ Cardinality(Crew(p)) \in Nat /\ \A j : Cardinality(CrewOf(p, j)) \in Nat
      /\ MaxReplicas \in Nat /\ MaxWorkers \in Nat
  BY CrewFinite, Keys
<1>5. Crew(q) = Crew(p) \cup {w} /\ w \notin Crew(p) BY DEF Crew, Joins
<1>6. CrewOf(q, k) = CrewOf(p, k) \cup {w} /\ w \notin CrewOf(p, k) BY DEF CrewOf, Joins
<1>7. \A j : j # k => CrewOf(q, j) = CrewOf(p, j) BY DEF CrewOf, Joins
<1>8. /\ Cardinality(Crew(q)) = Cardinality(Crew(p)) + 1
      /\ Cardinality(CrewOf(q, k)) = Cardinality(CrewOf(p, k)) + 1
  BY <1>5, <1>6, CrewFinite, FS_AddElement
<1> HIDE DEF m
<1>9. Cardinality(CrewOf(p, k)) + start[k] <= MaxReplicas /\ start[k] \in Nat
  BY <1>3 DEF Fits
<1>10. Cardinality(Crew(p)) + Total(start) <= MaxWorkers
  <2>1. Total(start) # 0 BY <1>1, <1>2
  <2> QED BY <2>1 DEF Fits
<1>11. Slim(q)
  <2>1. ASSUME NEW j \in Key PROVE Cardinality(CrewOf(q, j)) <= MaxReplicas
    <3>1. CASE j = k BY <1>4, <1>8, <1>9, <3>1
    <3>2. CASE j # k BY <1>7, <3>2 DEF Slim
    <3> QED BY <3>1, <3>2
  <2>2. Cardinality(Crew(q)) <= MaxWorkers BY <1>1, <1>2, <1>4, <1>8, <1>10
  <2> QED BY <2>1, <2>2 DEF Slim
<1>12. ASSUME NEW j \in Key PROVE m[j] = 0 \/ Cardinality(CrewOf(q, j)) + m[j] <= MaxReplicas
  <2>1. CASE j = k BY <1>3, <1>4, <1>8, <1>9, <2>1
  <2>2. CASE j # k
    <3>1. m[j] = start[j] /\ CrewOf(q, j) = CrewOf(p, j) BY <1>3, <1>7, <2>2
    <3> QED BY <3>1 DEF Fits
  <2> QED BY <2>1, <2>2
<1>13. Total(m) = 0 \/ Cardinality(Crew(q)) + Total(m) <= MaxWorkers
  BY <1>1, <1>2, <1>4, <1>8, <1>10
<1> QED BY <1>11, <1>12, <1>13 DEF Fits, m

-----------------------------------------------------------------------------
(* The invariant. *)

\* A plan that will be applied as it is: nobody has launched anything since it was
\* made, or it is being applied.
Planned(s) == sup[s].pc = "applying" \/ (sup[s].pc = "planned" /\ sup[s].current)

\* Whoever applies a plan holds the lease, so nobody else does.
Alone == \A s \in Sup : sup[s].pc = "applying" => lease.holder = s /\ lease.live

FleetSound == Slim(proc) /\ Alone /\ \A s \in Sup : Planned(s) => Fits(proc, sup[s].start)
FleetInv == FleetTyped /\ (excused = FALSE => FleetSound)

LEMMA NoStartsFacts == NoStarts \in [Key -> Nat]
BY DEF NoStarts

LEMMA FleetInitially == Container /\ FleetInit => FleetInv
<1> SUFFICES ASSUME Container, FleetInit PROVE FleetInv
  OBVIOUS
<1>1. Gone \in ProcSet BY DEF Gone, ProcSet
<1>2. Unregistered \in RowSet BY DEF Unregistered, RowSet
<1>3. Down \in SupSet BY NoStartsFacts DEF Down, SupSet
<1>4. Crew(proc) = {} /\ \A k : CrewOf(proc, k) = {}
  BY DEF FleetInit, Gone, Crew, CrewOf
<1>5. FleetTyped
  BY <1>1, <1>2, <1>3, <1>4, NoStartsFacts DEF FleetInit, FleetTyped
<1>6. Slim(proc) BY <1>4, FS_EmptySet, Keys DEF Slim
<1>7. \A s \in Sup : sup[s].pc = "down" BY DEF FleetInit, Down
<1> QED BY <1>5, <1>6, <1>7 DEF FleetInv, FleetSound, Alone, Planned

\* Changes of supervisors.
LEMMA SupTyped ==
  ASSUME FleetTyped, NEW s \in Sup, NEW x \in SupSet, sup' = [sup EXCEPT ![s] = x]
  PROVE  sup' \in [Sup -> SupSet]
BY DEF FleetTyped

LEMMA SupFields ==
  ASSUME NEW x \in SupSet
  PROVE  /\ \A pc \in {"down", "idle", "planned", "applying"} : [x EXCEPT !.pc = pc] \in SupSet
         /\ \A W \in SUBSET Worker : [x EXCEPT !.reap = W] \in SupSet
         /\ \A st \in [Key -> Nat] : [x EXCEPT !.start = st] \in SupSet
         /\ [x EXCEPT !.current = FALSE] \in SupSet
         /\ x.reap \in SUBSET Worker /\ x.start \in [Key -> Nat] /\ x.current \in BOOLEAN
BY DEF SupSet

LEMMA DownFacts ==
  /\ Down \in SupSet /\ [Down EXCEPT !.pc = "idle"] \in SupSet
  /\ Down.pc = "down" /\ [Down EXCEPT !.pc = "idle"].pc = "idle"
BY NoStartsFacts DEF Down, SupSet

\* Nothing is launched, and no plan is taken up that does not fit.
LEMMA Quiet ==
  ASSUME Container, FleetInv, excused = FALSE, Shrinks(proc, proc'), Alone',
         \A s \in Sup : Planned(s)' => \/ Planned(s) /\ sup'[s].start = sup[s].start
                                       \/ Fits(proc, sup'[s].start),
         \A s \in Sup : sup'[s].start \in [Key -> Nat]
  PROVE  FleetSound'
<1>1. FleetSound BY DEF FleetInv
<1>2. Slim(proc') BY <1>1, CrewShrinks DEF FleetSound
<1>3. ASSUME NEW s \in Sup, Planned(s)' PROVE Fits(proc', sup'[s].start)
  <2>1. Fits(proc, sup'[s].start) BY <1>1, <1>3 DEF FleetSound
  <2> QED BY <2>1, CrewShrinks
<1>4. Slim(proc)' /\ \A s \in Sup : Planned(s)' => Fits(proc, sup[s].start)'
  BY <1>2, <1>3 DEF Slim, Fits, Crew, CrewOf
<1> QED BY <1>4 DEF FleetSound

LEMMA Same == Shrinks(proc, proc)
BY DEF Shrinks

\* One supervisor goes down or idle, or drops a part of its plan.
LEMMA OneSup ==
  ASSUME Container, FleetInv, FleetTyped', excused' = FALSE => excused = FALSE,
         Shrinks(proc, proc'), NEW s \in Sup, NEW x \in SupSet, sup' = [sup EXCEPT ![s] = x],
         lease' = lease \/ (lease.holder = s /\ sup[s].pc # "applying"),
         \/ x.pc \in {"down", "idle"}
         \/ x.pc = sup[s].pc /\ x.current = sup[s].current /\ x.start = sup[s].start
         \/ x.pc = sup[s].pc /\ (Planned(s) => Fits(proc, x.start)) /\ x.current = sup[s].current
         \/ x.pc = "planned" /\ Fits(proc, x.start)
  PROVE  excused' = FALSE => FleetSound'
<1> SUFFICES ASSUME excused' = FALSE PROVE FleetSound'
  OBVIOUS
<1>1. excused = FALSE /\ FleetSound /\ FleetTyped BY DEF FleetInv
<1>2. sup'[s] = x /\ \A t \in Sup : t # s => sup'[t] = sup[t] BY <1>1 DEF FleetTyped
<1>3. Alone'
  <2> SUFFICES ASSUME NEW t \in Sup, sup'[t].pc = "applying"
               PROVE  lease'.holder = t /\ lease'.live
    BY DEF Alone
  <2>1. sup[t].pc = "applying"
    <3>1. CASE t = s BY <1>2, <3>1
    <3>2. CASE t # s BY <1>2, <3>2
    <3> QED BY <3>1, <3>2
  <2>2. lease.holder = t /\ lease.live BY <1>1, <2>1 DEF FleetSound, Alone
  <2> QED BY <2>1, <2>2
<1>4. ASSUME NEW t \in Sup, Planned(t)'
      PROVE  (Planned(t) /\ sup'[t].start = sup[t].start) \/ Fits(proc, sup'[t].start)
  <2>1. CASE t # s BY <1>2, <1>4, <2>1 DEF Planned
  <2>2. CASE t = s
    <3>1. sup'[t] = x /\ (x.pc = "applying" \/ (x.pc = "planned" /\ x.current))
      BY <1>2, <1>4, <2>2 DEF Planned
    <3> QED BY <2>2, <3>1 DEF Planned
  <2> QED BY <2>1, <2>2
<1>5. \A t \in Sup : sup'[t].start \in [Key -> Nat]
  <2>1. \A t \in Sup : sup'[t] \in SupSet BY DEF FleetTyped
  <2> QED BY <2>1, SupFields
<1> QED BY <1>1, <1>3, <1>4, <1>5, Quiet

\* One worker goes on, or goes.
LEMMA OneWorker ==
  ASSUME Container, FleetInv, NEW w \in Worker, NEW x \in ProcSet,
         sup' = sup, lease' = lease, started' = started, excused' = excused,
         depth' \in [Group -> Nat], row' \in [Worker -> RowSet], proc' = [proc EXCEPT ![w] = x],
         x.st = "none" \/ (proc[w].st # "none" /\ x.key = proc[w].key)
  PROVE  FleetInv'
<1>1. FleetTyped BY DEF FleetInv
<1>2. proc' \in [Worker -> ProcSet] /\ proc'[w] = x /\ \A v \in Worker : v # w => proc'[v] = proc[v]
  BY <1>1 DEF FleetTyped
<1>3. Shrinks(proc, proc') BY <1>2 DEF Shrinks
<1>4. FleetTyped' BY <1>1, <1>2, <1>3 DEF FleetTyped, Crew, Shrinks
<1>5. ASSUME excused' = FALSE PROVE FleetSound'
  <2>1. FleetSound BY <1>5 DEF FleetInv
  <2>2. Alone' BY <2>1 DEF FleetSound, Alone
  <2>3. \A s \in Sup : Planned(s)' => Planned(s) /\ sup'[s].start = sup[s].start
    BY DEF Planned
  <2>4. \A s \in Sup : sup'[s].start \in [Key -> Nat] BY <1>1, SupFields DEF FleetTyped
  <2> QED BY <1>3, <1>5, <2>2, <2>3, <2>4, Quiet
<1> QED BY <1>4, <1>5 DEF FleetInv

LEMMA StField ==
  ASSUME NEW x \in ProcSet,
         NEW st \in {"none", "booting", "admitted", "up", "drained", "beating", "leaving"}
  PROVE  [x EXCEPT !.st = st] \in ProcSet /\ [x EXCEPT !.st = st].st = st
         /\ [x EXCEPT !.st = st].key = x.key
BY DEF ProcSet

LEMMA SawField ==
  ASSUME NEW x \in ProcSet, NEW saw \in {"absent", "alive", "stopped"}
  PROVE  [x EXCEPT !.saw = saw] \in ProcSet /\ [x EXCEPT !.saw = saw].st = x.st
         /\ [x EXCEPT !.saw = saw].key = x.key
BY DEF ProcSet

LEMMA ByField ==
  ASSUME NEW x \in ProcSet, NEW s \in Sup \cup {NoSup}
  PROVE  [x EXCEPT !.by = s] \in ProcSet /\ [x EXCEPT !.by = s].st = x.st
         /\ [x EXCEPT !.by = s].key = x.key
BY DEF ProcSet

LEMMA GoneFacts == Gone \in ProcSet /\ Gone.st = "none"
BY DEF Gone, ProcSet

LEMMA TurnsFacts ==
  ASSUME FleetTyped, NEW w \in Worker,
         NEW st \in {"none", "booting", "admitted", "up", "drained", "beating", "leaving"},
         proc[w].st # "none", Turns(w, st)
  PROVE  \E x \in ProcSet : proc' = [proc EXCEPT ![w] = x] /\ x.key = proc[w].key
<1>1. proc[w] \in ProcSet BY DEF FleetTyped
<1>2. proc' = [proc EXCEPT ![w] = [proc[w] EXCEPT !.st = st]] BY DEF Turns, FleetTyped
<1>3. [proc[w] EXCEPT !.st = st] \in ProcSet /\ [proc[w] EXCEPT !.st = st].key = proc[w].key
  BY <1>1, StField
<1> QED BY <1>2, <1>3

LEMMA DeregisteredTyped ==
  ASSUME FleetTyped, NEW w \in Worker
  PROVE  Deregistered(w) \in [Worker -> RowSet]
BY DEF FleetTyped, Deregistered, RowSet

LEMMA SilentTyped ==
  ASSUME FleetTyped, NEW w \in Worker, FallsSilent(w)
  PROVE  row' \in [Worker -> RowSet]
BY DEF FleetTyped, FallsSilent, RowSet

\* A step that leaves the processes as they are is one that changes none of them.
LEMMA NoWorker ==
  ASSUME Container, FleetInv, NEW w \in Worker,
         sup' = sup, lease' = lease, started' = started, excused' = excused,
         depth' \in [Group -> Nat], row' \in [Worker -> RowSet], proc' = proc
  PROVE  FleetInv'
<1>1. proc \in [Worker -> ProcSet] BY DEF FleetInv, FleetTyped
<1>2. proc[w] \in ProcSet /\ proc' = [proc EXCEPT ![w] = proc[w]] BY <1>1
<1>3. proc[w].st = "none" \/ (proc[w].st # "none" /\ proc[w].key = proc[w].key) OBVIOUS
<1> QED BY <1>2, <1>3, OneWorker

LEMMA WorkerStep ==
  ASSUME Container, FleetInv, NEW w \in Worker,
         Live(w) \/ GoesIdle(w) \/ WorkerDies(w) \/ DeadFallsSilent(w) \/ BusyFallsSilent(w)
  PROVE  FleetInv'
<1>1. FleetTyped /\ depth \in [Group -> Nat] /\ row \in [Worker -> RowSet] /\ proc[w] \in ProcSet
      /\ proc \in [Worker -> ProcSet]
  BY DEF FleetInv, FleetTyped
<1>2. CASE Admit(w)
  <2>1. PICK x \in ProcSet : proc' = [proc EXCEPT ![w] = x] /\ x.key = proc[w].key
    BY <1>1, <1>2, TurnsFacts DEF Admit, At
  <2> QED BY <1>1, <1>2, <2>1, OneWorker DEF Admit, At
<1>3. CASE RefuseWorker(w)
  BY <1>1, <1>3, GoneFacts, OneWorker DEF RefuseWorker
<1>4. CASE Register(w)
  <2>1. PICK x \in ProcSet : proc' = [proc EXCEPT ![w] = x] /\ x.key = proc[w].key
    BY <1>1, <1>4, TurnsFacts DEF Register, At
  <2>2. row' \in [Worker -> RowSet] BY <1>1, <1>4 DEF Register, RowSet
  <2> QED BY <1>1, <1>4, <2>1, <2>2, OneWorker DEF Register, At
<1>5. CASE DrainNothing(w)
  <2>1. PICK x \in ProcSet : proc' = [proc EXCEPT ![w] = x] /\ x.key = proc[w].key
    BY <1>1, <1>5, TurnsFacts DEF DrainNothing, At
  <2> QED BY <1>1, <1>5, <2>1, OneWorker DEF DrainNothing, At
<1>6. CASE ReadRow(w)
  <2> DEFINE y == [proc[w] EXCEPT !.st = "beating"]
             x == [y EXCEPT !.saw = row[w].status]
  <2>1. y \in ProcSet /\ y.key = proc[w].key BY <1>1, StField
  <2>2. row[w].status \in {"absent", "alive", "stopped"} BY <1>1 DEF RowSet
  <2>3. proc' = [proc EXCEPT ![w] = x] BY <1>1, <1>6 DEF ReadRow
  <2> HIDE DEF y
  <2>4. x \in ProcSet /\ x.key = proc[w].key BY <2>1, <2>2, SawField
  <2> HIDE DEF x
  <2> QED BY <1>1, <1>6, <2>3, <2>4, OneWorker DEF ReadRow, At
<1>7. CASE WriteRow(w)
  <2> DEFINE y == [proc[w] EXCEPT !.st = "up"]
             x == [y EXCEPT !.saw = "absent"]
  <2>1. y \in ProcSet /\ y.key = proc[w].key BY <1>1, StField
  <2>2. proc[w].saw \in {"absent", "alive", "stopped"} BY <1>1 DEF ProcSet
  <2>3. proc' = [proc EXCEPT ![w] = x] BY <1>1, <1>7 DEF WriteRow
  <2>5. row' \in [Worker -> RowSet] BY <1>1, <1>7, <2>2 DEF WriteRow, RowSet
  <2> HIDE DEF y
  <2>4. x \in ProcSet /\ x.key = proc[w].key BY <2>1, SawField
  <2> HIDE DEF x
  <2> QED BY <1>1, <1>7, <2>3, <2>4, <2>5, OneWorker DEF WriteRow, At
<1>8. CASE Leaves(w)
  BY <1>1, <1>8, GoneFacts, DeregisteredTyped, OneWorker DEF Leaves
<1>9. ASSUME NEW g \in Group, Drain(w, g) PROVE FleetInv'
  <2>1. PICK x \in ProcSet : proc' = [proc EXCEPT ![w] = x] /\ x.key = proc[w].key
    BY <1>1, <1>9, TurnsFacts DEF Drain, At
  <2>2. depth' \in [Group -> Nat] BY <1>1, <1>9 DEF Drain
  <2> QED BY <1>1, <1>9, <2>1, <2>2, OneWorker DEF Drain, At
<1>10. CASE GoesIdle(w)
  <2>1. PICK x \in ProcSet : proc' = [proc EXCEPT ![w] = x] /\ x.key = proc[w].key
    BY <1>1, <1>10, TurnsFacts DEF GoesIdle, At
  <2> QED BY <1>1, <1>10, <2>1, OneWorker DEF GoesIdle, At
<1>11. CASE WorkerDies(w)
  <2> DEFINE y == [proc[w] EXCEPT !.st = "none"]
             z == [y EXCEPT !.saw = "absent"]
             x == [z EXCEPT !.by = NoSup]
  <2>1. y \in ProcSet /\ y.st = "none" BY <1>1, StField
  <2>2. proc' = [proc EXCEPT ![w] = x] BY <1>1, <1>11 DEF WorkerDies
  <2> HIDE DEF y
  <2>3. z \in ProcSet /\ z.st = "none" BY <2>1, SawField
  <2> HIDE DEF z
  <2>4. x \in ProcSet /\ x.st = "none" BY <2>3, ByField
  <2> HIDE DEF x
  <2> QED BY <1>1, <1>11, <2>2, <2>4, OneWorker DEF WorkerDies
<1>12. CASE DeadFallsSilent(w)
  BY <1>1, <1>12, SilentTyped, NoWorker DEF DeadFallsSilent, FallsSilent
<1>13. CASE BusyFallsSilent(w)
  BY <1>1, <1>13, SilentTyped, NoWorker DEF BusyFallsSilent, FallsSilent
<1> QED BY <1>2, <1>3, <1>4, <1>5, <1>6, <1>7, <1>8, <1>9, <1>10, <1>11, <1>12, <1>13 DEF Live

\* One supervisor changes, and nothing but it and perhaps a lease of its own.
LEMMA SupOnly ==
  ASSUME Container, FleetInv, NEW s \in Sup, NEW x \in SupSet, sup' = [sup EXCEPT ![s] = x],
         started' \in [Sup -> [Key -> Nat]], proc' \in [Worker -> ProcSet], Shrinks(proc, proc'),
         row' \in [Worker -> RowSet], depth' = depth,
         excused' \in BOOLEAN, excused' = FALSE => excused = FALSE,
         lease' \in [holder : Sup \cup {NoSup}, live : BOOLEAN],
         excused' = FALSE =>
           /\ lease' = lease \/ (lease.holder = s /\ sup[s].pc # "applying")
           /\ \/ x.pc \in {"down", "idle"}
              \/ x.pc = sup[s].pc /\ x.current = sup[s].current /\ x.start = sup[s].start
              \/ x.pc = sup[s].pc /\ (Planned(s) => Fits(proc, x.start)) /\ x.current = sup[s].current
              \/ x.pc = "planned" /\ Fits(proc, x.start)
  PROVE  FleetInv'
<1>1. FleetTyped BY DEF FleetInv
<1>2. FleetTyped'
  <2>1. sup' \in [Sup -> SupSet] BY <1>1, SupTyped
  <2>2. \A w \in Crew(proc)' : proc'[w].key \in Key
    BY <1>1 DEF FleetTyped, Crew, Shrinks
  <2> QED BY <1>1, <2>1, <2>2 DEF FleetTyped
<1>3. ASSUME excused' = FALSE PROVE FleetSound'
  BY <1>2, <1>3, OneSup
<1> QED BY <1>2, <1>3 DEF FleetInv

LEMMA OrphansFacts ==
  ASSUME FleetTyped, NEW s \in Sup
  PROVE  Orphans(s) \in [Worker -> ProcSet] /\ Shrinks(proc, Orphans(s))
<1>1. ASSUME NEW w \in Worker
      PROVE  /\ Orphans(s)[w] \in ProcSet
             /\ Orphans(s)[w].st = proc[w].st /\ Orphans(s)[w].key = proc[w].key
  <2>1. proc[w] \in ProcSet BY DEF FleetTyped
  <2>2. Orphans(s)[w] = proc[w] \/ Orphans(s)[w] = [proc[w] EXCEPT !.by = NoSup]
    BY DEF Orphans
  <2> DEFINE p == proc[w]
             o == Orphans(s)[w]
  <2>3. p \in ProcSet /\ (o = p \/ o = [p EXCEPT !.by = NoSup]) BY <2>1, <2>2
  <2> HIDE DEF p, o
  <2>4. o \in ProcSet /\ o.st = p.st /\ o.key = p.key
    <3>1. CASE o = p BY <2>3, <3>1
    <3>2. CASE o = [p EXCEPT !.by = NoSup] BY <2>3, <3>2, ByField
    <3> QED BY <2>3, <3>1, <3>2
  <2> QED BY <2>4 DEF p, o
<1>2. Orphans(s) = [w \in Worker |-> Orphans(s)[w]] BY DEF Orphans
<1> QED BY <1>1, <1>2 DEF Shrinks

LEMMA PlansKeep ==
  ASSUME Container, FleetInv, NEW s \in Sup, NEW launched \in [Key \cup {NoKey} -> Nat],
         Plans(s, launched), excused' \in BOOLEAN,
         excused' = FALSE => excused = FALSE /\ Whole(launched)
  PROVE  FleetInv'
<1>1. FleetTyped BY DEF FleetInv
<1> DEFINE x == [pc |-> "planned", reap |-> {w \in Worker : Lost(w)},
                 start |-> Starts(launched), current |-> TRUE]
<1>2. x \in SupSet BY <1>1, PlanFits DEF SupSet
<1>3. sup' = [sup EXCEPT ![s] = x] BY DEF Plans
<1>4. x.pc = "planned" /\ (excused' = FALSE => Fits(proc, x.start)) BY <1>1, PlanFits
<1> HIDE DEF x
<1>5. UNCHANGED <<lease, started, proc, row, depth>> BY DEF Plans
<1> QED BY <1>1, <1>2, <1>3, <1>4, <1>5, Same, SupOnly DEF FleetTyped

LEMMA SupStep ==
  ASSUME Container, FleetInv, NEW s \in Sup,
         \/ Boots(s) \/ Observe(s) \/ ObserveBlind(s) \/ HoldLease(s) \/ Withhold(s)
         \/ LeaseErrors(s) \/ EndTick(s) \/ Stops(s) \/ SupDies(s)
         \/ (\E w \in Worker : Reap(s, w)) \/ (\E k \in Key : StartFails(s, k))
  PROVE  FleetInv'
<1>1. /\ FleetTyped /\ sup[s] \in SupSet /\ row \in [Worker -> RowSet]
      /\ proc \in [Worker -> ProcSet] /\ started \in [Sup -> [Key -> Nat]]
      /\ excused \in BOOLEAN /\ lease \in [holder : Sup \cup {NoSup}, live : BOOLEAN]
      /\ sup \in [Sup -> SupSet]
  BY DEF FleetInv, FleetTyped
<1> DEFINE idle == [Down EXCEPT !.pc = "idle"]
<1>2. idle \in SupSet /\ idle.pc = "idle" BY DownFacts
<1> HIDE DEF idle
<1>3. CASE Boots(s)
  <2>1. sup' = [sup EXCEPT ![s] = idle] BY <1>3 DEF Boots, idle
  <2>2. started' \in [Sup -> [Key -> Nat]] BY <1>1, <1>3, NoStartsFacts DEF Boots
  <2> QED BY <1>1, <1>2, <1>3, <2>1, <2>2, Same, SupOnly DEF Boots
<1>4. CASE Observe(s)
  <2>1. Inventory(s) \in [Key \cup {NoKey} -> Nat] /\ Whole(Inventory(s))
    BY <1>1, InventoryWhole
  <2> QED BY <1>1, <1>4, <2>1, PlansKeep DEF Observe
<1>5. CASE ObserveBlind(s)
  <2>1. excused' = TRUE BY <1>5 DEF ObserveBlind
  <2>2. Remembered(s) \in [Key \cup {NoKey} -> Nat]
    BY <1>1 DEF Remembered
  <2>3. [k \in Key \cup {NoKey} |-> 0] \in [Key \cup {NoKey} -> Nat] OBVIOUS
  <2>4. Plans(s, Remembered(s)) \/ Plans(s, [k \in Key \cup {NoKey} |-> 0])
    BY <1>5 DEF ObserveBlind
  <2>5. CASE Plans(s, Remembered(s)) BY <2>1, <2>2, <2>5, PlansKeep
  <2>6. CASE Plans(s, [k \in Key \cup {NoKey} |-> 0]) BY <2>1, <2>3, <2>6, PlansKeep
  <2> QED BY <2>4, <2>5, <2>6
<1>6. CASE HoldLease(s)
  <2>1. /\ sup[s].pc = "planned" /\ Acquirable(s)
        /\ lease' = [holder |-> s, live |-> TRUE]
        /\ sup' = [sup EXCEPT ![s] = [sup[s] EXCEPT !.pc = "applying"]]
        /\ excused' = (excused \/ ~sup[s].current)
        /\ UNCHANGED <<started, proc, row, depth>>
    BY <1>1, <1>6 DEF HoldLease, Moves
  <2> DEFINE x == [sup[s] EXCEPT !.pc = "applying"]
  <2>2. x \in SupSet /\ x.pc = "applying" /\ x.start = sup[s].start
    BY <1>1 DEF SupSet
  <2>3. sup' = [sup EXCEPT ![s] = x] BY <2>1
  <2> HIDE DEF x
  <2>4. sup[s].current \in BOOLEAN BY <1>1, SupFields
  <2>5. FleetTyped'
    <3>1. sup' \in [Sup -> SupSet] BY <1>1, <2>2, <2>3, SupTyped
    <3>2. lease' \in [holder : Sup \cup {NoSup}, live : BOOLEAN] BY <2>1
    <3>3. excused' \in BOOLEAN BY <1>1, <2>1, <2>4
    <3>4. \A w \in Crew(proc)' : proc'[w].key \in Key BY <1>1, <2>1 DEF FleetTyped, Crew
    <3> QED BY <1>1, <2>1, <3>1, <3>2, <3>3, <3>4 DEF FleetTyped
  <2>6. ASSUME excused' = FALSE PROVE FleetSound'
    <3>a. excused = FALSE /\ sup[s].current = TRUE
      <4>1. ~(excused \/ ~sup[s].current) BY <2>1, <2>6
      <4> QED BY <1>1, <2>4, <4>1
    <3>1. excused = FALSE /\ sup[s].current /\ FleetSound BY <3>a DEF FleetInv
    <3>2. sup'[s] = x /\ \A t \in Sup : t # s => sup'[t] = sup[t] BY <1>1, <2>3
    <3>3. \A t \in Sup : t # s => sup[t].pc # "applying"
      BY <2>1, <3>1, Keys DEF Acquirable, FleetSound, Alone
    <3>4. Alone' BY <2>1, <3>2, <3>3 DEF Alone
    <3>5. ASSUME NEW t \in Sup, Planned(t)' PROVE Planned(t) /\ sup'[t].start = sup[t].start
      <4>1. CASE t = s BY <2>1, <2>2, <3>1, <3>2, <4>1 DEF Planned
      <4>2. CASE t # s BY <3>2, <3>5, <4>2 DEF Planned
      <4> QED BY <4>1, <4>2
    <3>6. \A t \in Sup : sup'[t].start \in [Key -> Nat]
      <4>1. \A t \in Sup : sup'[t] \in SupSet BY <2>5 DEF FleetTyped
      <4> QED BY <4>1, SupFields
    <3>7. Shrinks(proc, proc') BY <2>1, Same
    <3> QED BY <3>1, <3>4, <3>5, <3>6, <3>7, Quiet
  <2> QED BY <2>5, <2>6 DEF FleetInv
<1>7. CASE Withhold(s)
  <2>1. sup' = [sup EXCEPT ![s] = idle] BY <1>7 DEF Withhold, idle
  <2> QED BY <1>1, <1>2, <1>7, <2>1, Same, SupOnly DEF Withhold
<1>8. CASE LeaseErrors(s)
  <2> DEFINE x == [sup[s] EXCEPT !.pc = "applying"]
  <2>1. x \in SupSet BY <1>1, SupFields
  <2>2. sup' = [sup EXCEPT ![s] = x] /\ excused' = TRUE
    BY <1>1, <1>8 DEF LeaseErrors, Moves
  <2> HIDE DEF x
  <2> QED BY <1>1, <1>8, <2>1, <2>2, Same, SupOnly DEF LeaseErrors
<1>9. CASE EndTick(s)
  <2>1. sup' = [sup EXCEPT ![s] = idle] BY <1>9 DEF EndTick, idle
  <2> QED BY <1>1, <1>2, <1>9, <2>1, Same, SupOnly DEF EndTick
<1>10. CASE Stops(s)
  <2>1. sup' = [sup EXCEPT ![s] = Down] /\ proc' = Orphans(s) BY <1>10 DEF Stops
  <2>2. proc' \in [Worker -> ProcSet] /\ Shrinks(proc, proc') BY <1>1, <2>1, OrphansFacts
  <2>3. /\ lease' \in [holder : Sup \cup {NoSup}, live : BOOLEAN]
        /\ lease' = lease \/ (lease.holder = s /\ sup[s].pc # "applying")
    BY <1>1, <1>10 DEF Stops
  <2> QED BY <1>1, <1>10, <2>1, <2>2, <2>3, DownFacts, SupOnly DEF Stops
<1>11. CASE SupDies(s)
  <2>1. sup' = [sup EXCEPT ![s] = Down] /\ proc' = Orphans(s) BY <1>11 DEF SupDies
  <2>2. proc' \in [Worker -> ProcSet] /\ Shrinks(proc, proc') BY <1>1, <2>1, OrphansFacts
  <2> QED BY <1>1, <1>11, <2>1, <2>2, DownFacts, SupOnly DEF SupDies
<1>12. ASSUME NEW w \in Worker, Reap(s, w) PROVE FleetInv'
  <2> DEFINE x == [sup[s] EXCEPT !.reap = sup[s].reap \ {w}]
  <2>1. x \in SupSet /\ x.pc = sup[s].pc /\ x.start = sup[s].start /\ x.current = sup[s].current
    BY <1>1 DEF SupSet
  <2>2. sup' = [sup EXCEPT ![s] = x] BY <1>1, <1>12 DEF Reap
  <2>3. row' \in [Worker -> RowSet] BY <1>1, <1>12, DeregisteredTyped DEF Reap
  <2> HIDE DEF x
  <2> QED BY <1>1, <1>12, <2>1, <2>2, <2>3, Same, SupOnly DEF Reap
<1>13. ASSUME NEW k \in Key, StartFails(s, k) PROVE FleetInv'
  <2> DEFINE st == sup[s].start
             m == [st EXCEPT ![k] = @ - 1]
             x == [sup[s] EXCEPT !.start = m]
  <2>1. st \in [Key -> Nat] /\ st[k] > 0 BY <1>1, <1>13, SupFields DEF StartFails, NextStart
  <2>2. m \in [Key -> Nat] BY <2>1, TakesOne, Keys
  <2>3. sup' = [sup EXCEPT ![s] = x] BY <1>1, <1>13 DEF StartFails
  <2>4. excused' = excused /\ UNCHANGED <<lease, started, proc, row, depth>>
    BY <1>13 DEF StartFails
  <2>5. ASSUME excused = FALSE, Planned(s) PROVE Fits(proc, m)
    <3>1. Fits(proc, st) BY <2>5 DEF FleetInv, FleetSound
    <3> HIDE DEF st
    <3> QED BY <2>1, <3>1, OneFewer
  <2> HIDE DEF m
  <2>6. x \in SupSet /\ x.pc = sup[s].pc /\ x.start = m /\ x.current = sup[s].current
    BY <1>1, <2>2 DEF SupSet
  <2> HIDE DEF x, st
  <2> QED BY <1>1, <2>3, <2>4, <2>5, <2>6, Same, SupOnly DEF FleetTyped
<1> QED BY <1>3, <1>4, <1>5, <1>6, <1>7, <1>8, <1>9, <1>10, <1>11, <1>12, <1>13

LEMMA StartStep ==
  ASSUME Container, FleetInv, NEW s \in Sup, NEW k \in Key, NEW w \in Worker, Start(s, k, w)
  PROVE  FleetInv'
<1> DEFINE st == sup[s].start
           m == [st EXCEPT ![k] = @ - 1]
<1>1. /\ FleetTyped /\ sup[s] \in SupSet /\ row \in [Worker -> RowSet]
      /\ proc \in [Worker -> ProcSet] /\ started \in [Sup -> [Key -> Nat]]
      /\ sup \in [Sup -> SupSet]
  BY DEF FleetInv, FleetTyped
<1>2. /\ st \in [Key -> Nat] /\ st[k] > 0 /\ sup[s].pc = "applying" /\ proc[w].st = "none"
  BY <1>1, SupFields DEF Start, NextStart, Free, Running
<1>3. m \in [Key -> Nat] BY <1>2, TakesOne, Keys
<1>4. /\ \A t \in Sup : t # s => sup'[t] = [sup[t] EXCEPT !.current = FALSE]
      /\ sup'[s] = [sup[s] EXCEPT !.start = m]
      /\ sup' = [t \in Sup |-> sup'[t]]
  BY <1>1 DEF Start
<1> HIDE DEF m
<1>5. /\ sup'[s] \in SupSet /\ sup'[s].pc = "applying" /\ sup'[s].start = m
      /\ \A t \in Sup : t # s => sup'[t] \in SupSet /\ sup'[t].pc = sup[t].pc /\ ~sup'[t].current
  <2>1. \A t \in Sup : sup[t] \in SupSet BY <1>1
  <2>2. sup'[s] \in SupSet
    <3>1. [sup[s] EXCEPT !.start = m] \in SupSet BY <1>1, <1>3 DEF SupSet
    <3> QED BY <1>4, <3>1
  <2>3. sup'[s].pc = "applying" /\ sup'[s].start = m BY <1>1, <1>2, <1>4 DEF SupSet
  <2>4. ASSUME NEW t \in Sup, t # s
        PROVE  sup'[t] \in SupSet /\ sup'[t].pc = sup[t].pc /\ ~sup'[t].current
    <3>1. sup[t] \in SupSet /\ sup'[t] = [sup[t] EXCEPT !.current = FALSE] BY <1>4, <2>1, <2>4
    <3> QED BY <3>1 DEF SupSet
  <2> QED BY <2>2, <2>3, <2>4
<1> DEFINE x == [Gone EXCEPT !.st = "booting", !.key = k, !.by = IF Substrate THEN NoSup ELSE s]
<1>6. x \in ProcSet /\ x.st = "booting" /\ x.key = k BY DEF Gone, ProcSet
<1>7. proc' = [proc EXCEPT ![w] = x] BY DEF Start
<1> HIDE DEF x
<1>8. proc' \in [Worker -> ProcSet] /\ proc'[w] = x /\ \A v \in Worker : v # w => proc'[v] = proc[v]
  BY <1>1, <1>6, <1>7
<1>9. UNCHANGED <<lease, depth, excused>> BY DEF Start
<1>10. FleetTyped'
  <2>1. sup' \in [Sup -> SupSet] BY <1>4, <1>5
  <2>2. row' \in [Worker -> RowSet] BY <1>1 DEF Start, Unregistered, RowSet
  <2>3. started' \in [Sup -> [Key -> Nat]]
    <3>1. started[s][k] \in Nat /\ MaxReplicas \in Nat BY <1>1, Keys
    <3>2. Least(MaxReplicas, started[s][k] + 1) \in Nat BY <3>1 DEF Least
    <3>3. started' = [started EXCEPT ![s] =
                        [started[s] EXCEPT ![k] = Least(MaxReplicas, started[s][k] + 1)]]
      BY <1>1 DEF Start
    <3>4. [started[s] EXCEPT ![k] = Least(MaxReplicas, started[s][k] + 1)] \in [Key -> Nat]
      BY <1>1, <3>2
    <3> QED BY <1>1, <3>3, <3>4
  <2>4. \A v \in Crew(proc)' : proc'[v].key \in Key
    BY <1>1, <1>6, <1>8 DEF FleetTyped, Crew
  <2> QED BY <1>1, <1>8, <1>9, <2>1, <2>2, <2>3, <2>4 DEF FleetTyped
<1>11. ASSUME excused' = FALSE PROVE FleetSound'
  <2>1. FleetSound BY <1>9, <1>11 DEF FleetInv
  <2>2. Slim(proc) /\ Fits(proc, st) BY <1>2, <2>1 DEF FleetSound, Planned
  <2>3. Slim(proc') /\ Fits(proc', m)
    <3>1. Joins(w, k, proc, proc') BY <1>2, <1>6, <1>8 DEF Joins
    <3>2. Slim(proc') /\ Fits(proc', [st EXCEPT ![k] = @ - 1])
      <4> HIDE DEF st
      <4> QED BY <1>2, <2>2, <3>1, OneMore
    <3> QED BY <3>2 DEF m
  <2>4. \A t \in Sup : t # s => sup'[t].pc # "applying"
    BY <1>2, <1>5, <2>1 DEF FleetSound, Alone
  <2>5. Alone' BY <1>2, <1>9, <2>1, <2>4 DEF FleetSound, Alone
  <2>6. \A t \in Sup : Planned(t)' => t = s BY <1>5, <2>4 DEF Planned
  <2>7. Slim(proc)' /\ \A t \in Sup : Planned(t)' => Fits(proc, sup[t].start)'
    BY <1>5, <2>3, <2>6 DEF Slim, Fits, Crew, CrewOf
  <2> QED BY <2>5, <2>7 DEF FleetSound
<1> QED BY <1>10, <1>11 DEF FleetInv

\* What changes neither processes nor supervisors.
LEMMA OtherStep ==
  ASSUME Container, FleetInv,
         LeaseRunsOut \/ LeaseOverrun \/ (\E g \in Group : WorkArrives(g)) \/ UNCHANGED fleetVars
  PROVE  FleetInv'
<1>1. FleetTyped BY DEF FleetInv
<1>2. proc' = proc /\ sup' = sup /\ started' = started /\ row' = row
  BY DEF LeaseRunsOut, LeaseOverrun, LeaseExpires, WorkArrives, fleetVars
<1>3. depth' \in [Group -> Nat]
  BY <1>1 DEF FleetTyped, LeaseRunsOut, LeaseOverrun, LeaseExpires, WorkArrives, fleetVars
<1>4. /\ lease' \in [holder : Sup \cup {NoSup}, live : BOOLEAN] /\ excused' \in BOOLEAN
      /\ excused' = FALSE => excused = FALSE
  BY <1>1 DEF FleetTyped, LeaseRunsOut, LeaseOverrun, LeaseExpires, WorkArrives, fleetVars
<1>5. excused' = FALSE => \/ lease' = lease
                          \/ lease.holder \in Sup /\ sup[lease.holder].pc = "down"
  BY DEF LeaseRunsOut, LeaseOverrun, LeaseExpires, WorkArrives, fleetVars
<1>6. FleetTyped' BY <1>1, <1>2, <1>3, <1>4 DEF FleetTyped, Crew
<1>7. ASSUME excused' = FALSE PROVE FleetSound'
  <2>1. excused = FALSE /\ FleetSound BY <1>4, <1>7 DEF FleetInv
  <2>2. Alone' BY <1>2, <1>5, <1>7, <2>1 DEF FleetSound, Alone
  <2>3. \A s \in Sup : Planned(s)' => Planned(s) /\ sup'[s].start = sup[s].start
    BY <1>2 DEF Planned
  <2>4. \A s \in Sup : sup'[s].start \in [Key -> Nat] BY <1>1, <1>2, SupFields DEF FleetTyped
  <2>5. Shrinks(proc, proc') BY <1>2, Same
  <2> QED BY <2>1, <2>2, <2>3, <2>4, <2>5, Quiet
<1> QED BY <1>6, <1>7 DEF FleetInv

LEMMA FleetKeeps == Container /\ FleetInv /\ [FleetNext]_fleetVars => FleetInv'
<1> SUFFICES ASSUME Container, FleetInv, [FleetNext]_fleetVars PROVE FleetInv'
  OBVIOUS
<1>1. ASSUME NEW s \in Sup, Apply(s) PROVE FleetInv'
  BY <1>1, SupStep, StartStep DEF Apply
<1>2. ASSUME NEW s \in Sup,
             \/ Boots(s) \/ Observe(s) \/ ObserveBlind(s) \/ HoldLease(s) \/ Withhold(s)
             \/ LeaseErrors(s) \/ Stops(s) \/ SupDies(s)
      PROVE  FleetInv'
  BY <1>2, SupStep
<1> QED BY <1>1, <1>2, WorkerStep, OtherStep DEF FleetNext

\* A key never has more workers than the policy wants replicas, whatever supervisors,
\* workers, leases and launches do, as long as no plan is applied on an old or missing
\* view; with a driver that lists every worker under its own key.
THEOREM NoKeyStampedes == ASSUME Container PROVE FleetSpec => []NoStampede
<1>1. FleetInit => FleetInv BY FleetInitially
<1>2. FleetInv /\ [FleetNext]_fleetVars => FleetInv' BY FleetKeeps
<1>3. FleetInv => NoStampede
  <2> SUFFICES ASSUME FleetInv, excused = FALSE, NEW k \in Key
               PROVE  Cardinality({w \in Worker : Running(w) /\ proc[w].key = k}) <= MaxReplicas
    BY DEF NoStampede, FleetInv, FleetTyped
  <2>1. CrewOf(proc, k) = {w \in Worker : Running(w) /\ proc[w].key = k}
    BY DEF CrewOf, Running
  <2>2. Cardinality(CrewOf(proc, k)) <= MaxReplicas BY DEF FleetInv, FleetSound, Slim
  <2> QED BY <2>1, <2>2
<1> QED BY <1>1, <1>2, <1>3, PTL DEF FleetSpec

\* Nor does the fleet outgrow the workspace's quota of workers.
THEOREM FleetStaysWithinQuota == ASSUME Container PROVE FleetSpec => []FleetWithinQuota
<1>1. FleetInit => FleetInv BY FleetInitially
<1>2. FleetInv /\ [FleetNext]_fleetVars => FleetInv' BY FleetKeeps
<1>3. FleetInv => FleetWithinQuota
  <2> SUFFICES ASSUME FleetInv, excused = FALSE
               PROVE  Cardinality({w \in Worker : Running(w)}) <= MaxWorkers
    BY DEF FleetWithinQuota, FleetInv, FleetTyped
  <2>1. Crew(proc) = {w \in Worker : Running(w)} BY DEF Crew, Running
  <2>2. Cardinality(Crew(proc)) <= MaxWorkers BY DEF FleetInv, FleetSound, Slim
  <2> QED BY <2>1, <2>2
<1> QED BY <1>1, <1>2, <1>3, PTL DEF FleetSpec
=============================================================================
