------------------------------ MODULE Rollout ------------------------------
(***************************************************************************)
(* Versions, environments and the runs pinned to them: deployments.py,     *)
(* gates.py, the pin a new run gets (agents.py), and the refusal of retired *)
(* versions by the workers (worker.py resolve_bundle_root), over the rows  *)
(* of versions, environments and policies in store_postgres.py.            *)
(*                                                                         *)
(* A version is its content; all versions are of one agent.  Every request *)
(* reads, checks and writes in steps of its own, with nothing held between *)
(* them, so requests interleave and a process may die between two steps.   *)
(*                                                                         *)
(*   ver[v]      "none", "active" or "retired"     passing[v]  the evidence *)
(*               whose latest attestation is good                          *)
(*   own         the agent's gate policy, over Legacy, the unqualified one *)
(*   env[e]      the pointer and its history                               *)
(*   run[r]      a run and its pin       up        versions with a worker  *)
(*   req[c]      the request a client makes                                *)
(* and bookkeeping for the properties:                                     *)
(*   vouched     <<e, v>> whose gate was met in some state, whose override *)
(*               is on record, or that an operator named in a rollback     *)
(*   undo[e]     what the pointer held before its last change, NoVersion   *)
(*               if that change was made on a stale copy                   *)
(*   excused     versions retired by force, or while another request about *)
(*               them was under way                                        *)
(*   edits       attestations, gate changes, uses of force and deaths of   *)
(*               workers so far, at most MaxEdits                          *)
(***************************************************************************)
EXTENDS Integers, Sequences, SequencesExt, FiniteSets

CONSTANTS Version, NoVersion, Env, Kind, NoPolicy, Legacy, Run, Client,
          MaxFlips, MaxEdits    \* bounds

ASSUME RolloutAssumption ==
  /\ NoVersion \notin Version /\ NoPolicy \notin [Env -> SUBSET Kind]
  /\ Legacy \in {NoPolicy} \cup [Env -> SUBSET Kind]
  /\ MaxFlips \in Nat /\ MaxEdits \in Nat

VARIABLES ver, passing, own, env, run, up, req,
          vouched, undo, excused, edits

watch == <<undo, excused>>
vars == <<ver, passing, own, env, run, up, req, vouched, watch, edits>>

Edit == edits < MaxEdits /\ edits' = edits + 1
-----------------------------------------------------------------------------
Idle == [pc |-> "idle", v |-> NoVersion, e |-> NoVersion, forced |-> FALSE, vouch |-> FALSE,
         doc |-> [current |-> NoVersion, history |-> <<>>], raced |-> FALSE]
NoRun == [status |-> "none", v |-> NoVersion]
EmptyEnv == [current |-> NoVersion, history |-> <<>>]

\* Slip: a run that waits for a human counts as done.
LiveButWaiting(r) == run[r].status \in {"queued", "running"}

\* Everything but the terminal statuses.
Live(r) == run[r].status \in {"queued", "running", "waiting"}
Pinned(v) == {r \in Run : Live(r) /\ run[r].v = v}

\* The agent's own policy, or the unqualified row where there is none.  A policy
\* cleared to null reads like one never set.
Gate(e) == IF own # NoPolicy THEN own[e] ELSE IF Legacy # NoPolicy THEN Legacy[e] ELSE {}
Met(e, v) == Gate(e) \subseteq passing[v]

Goes(c, r) == req' = [req EXCEPT ![c] = r]
Retiring == {"unpointed", "unpinned"}
About(v) == {c \in Client : req[c].pc # "idle" /\ req[c].v = v}

Init ==
  /\ ver = [v \in Version |-> "none"] /\ passing = [v \in Version |-> {}]
  /\ own = NoPolicy
  /\ env = [e \in Env |-> EmptyEnv]
  /\ run = [r \in Run |-> NoRun] /\ up = {}
  /\ req = [c \in Client |-> Idle]
  /\ vouched = {x \in Env \X Version : Gate(x[1]) = {}}
  /\ undo = [e \in Env |-> NoVersion] /\ excused = {} /\ edits = 0

(* Deploy, attest, configure. *)

\* create_version: content on record is returned untouched, retired or not.
CreateVersion(v) ==
  /\ ver[v] = "none"
  /\ ver' = [ver EXCEPT ![v] = "active"]
  /\ UNCHANGED <<passing, own, env, run, up, req, watch, edits>>

\* The latest attestation of a kind is the one that counts.
Attest(v, k, ok) ==
  /\ Edit
  /\ ver[v] # "none"
  /\ passing' = [passing EXCEPT ![v] = IF ok THEN @ \cup {k} ELSE @ \ {k}]
  /\ UNCHANGED <<ver, own, env, run, up, req, watch>>

SetGate(p) ==
  /\ Edit
  /\ own' = p
  /\ UNCHANGED <<ver, passing, env, run, up, req, watch>>

(* Promote and roll back. *)

\* Slip: the gate is looked at, not enforced.
PromoteUngated(c, e, v) ==
  /\ req[c].pc = "idle" /\ ver[v] = "active"
  /\ Goes(c, [Idle EXCEPT !.pc = "checked", !.v = v, !.e = e])
  /\ UNCHANGED <<ver, passing, own, env, run, up, watch, edits>>

\* promote: an active version whose gate is met ...
Promote(c, e, v) ==
  /\ req[c].pc = "idle" /\ ver[v] = "active" /\ Met(e, v)
  /\ Goes(c, [Idle EXCEPT !.pc = "checked", !.v = v, !.e = e])
  /\ UNCHANGED <<ver, passing, own, env, run, up, watch, edits>>

\* ... or one an operator forces, which is put on record first.
ForcePromote(c, e, v) ==
  /\ Edit
  /\ req[c].pc = "idle" /\ ver[v] = "active" /\ ~Met(e, v)
  /\ Goes(c, [Idle EXCEPT !.pc = "checked", !.vouch = TRUE, !.v = v, !.e = e])
  /\ UNCHANGED <<ver, passing, own, env, run, up, watch>>

\* rollback: to the newest entry of the history, never gated.
Rollback(c, e) ==
  /\ req[c].pc = "idle" /\ env[e].current # NoVersion /\ env[e].history # <<>>
  /\ LET v == Last(env[e].history) IN
     /\ v # env[e].current /\ ver[v] = "active"
     /\ Goes(c, [Idle EXCEPT !.pc = "checked", !.v = v, !.e = e])
  /\ UNCHANGED <<ver, passing, own, env, run, up, watch, edits>>

\* ... or to a version the operator names, current at some time or not.
RollbackTo(c, e, v) ==
  /\ Edit
  /\ req[c].pc = "idle" /\ env[e].current \notin {NoVersion, v} /\ ver[v] = "active"
  /\ Goes(c, [Idle EXCEPT !.pc = "checked", !.vouch = TRUE, !.v = v, !.e = e])
  /\ UNCHANGED <<ver, passing, own, env, run, up, watch>>

\* env_set_current: the document is read ...
ReadEnv(c) ==
  /\ req[c].pc = "checked"
  /\ Len(env[req[c].e].history) < MaxFlips
  /\ Goes(c, [req[c] EXCEPT !.pc = "flipping", !.doc = env[req[c].e]])
  /\ UNCHANGED <<ver, passing, own, env, run, up, watch, edits>>

\* Slip: the history gets the version promoted, not the one it replaces.
PushedNew(doc, v) == [current |-> v, history |-> Append(doc.history, v)]

Pushed(doc, v) ==
  [current |-> v,
   history |-> IF doc.current = NoVersion THEN doc.history
               ELSE Append(doc.history, doc.current)]

\* Requests that write about a version race with one that retires it.
Raced(v) == [d \in Client |-> IF req[d].pc \in Retiring /\ req[d].v = v
                              THEN [req[d] EXCEPT !.raced = TRUE] ELSE req[d]]

\* ... and written whole, whatever happened to it since.
FlipEnv(c) ==
  LET r == req[c] IN
  /\ r.pc = "flipping"
  /\ env' = [env EXCEPT ![r.e] = Pushed(r.doc, r.v)]
  /\ req' = [Raced(r.v) EXCEPT ![c] = Idle]
  /\ undo' = [undo EXCEPT ![r.e] = IF env[r.e] = r.doc THEN r.doc.current ELSE NoVersion]
  /\ UNCHANGED <<ver, passing, own, run, up, excused, edits>>

(* Retire. *)

\* retire: no environment points at it ...
BeginRetire(c, v) ==
  /\ req[c].pc = "idle" /\ ver[v] = "active"
  /\ \A e \in Env : env[e].current # v
  /\ Goes(c, [Idle EXCEPT !.pc = "unpointed", !.v = v])
  /\ UNCHANGED <<ver, passing, own, env, run, up, watch, edits>>

\* ... no run that is not over is pinned to it ...
CheckPins(c) ==
  /\ req[c].pc = "unpointed"
  /\ Goes(c, IF Pinned(req[c].v) = {} THEN [req[c] EXCEPT !.pc = "unpinned"] ELSE Idle)
  /\ UNCHANGED <<ver, passing, own, env, run, up, watch, edits>>

\* ... or the operator insists ...
ForceRetire(c, v) ==
  /\ Edit
  /\ req[c].pc = "idle" /\ ver[v] = "active"
  /\ Goes(c, [Idle EXCEPT !.pc = "unpinned", !.v = v, !.forced = TRUE])
  /\ UNCHANGED <<ver, passing, own, env, run, up, watch>>

\* ... and its state is written.
SetRetired(c) ==
  LET r == req[c] IN
  /\ r.pc = "unpinned"
  /\ ver' = [ver EXCEPT ![r.v] = "retired"]
  /\ excused' = IF r.forced \/ r.raced \/ \E d \in About(r.v) : req[d].pc \notin Retiring
                THEN excused \cup {r.v} ELSE excused
  /\ Goes(c, Idle)
  /\ UNCHANGED <<passing, own, env, run, up, undo, edits>>

(* Runs. *)

\* agents.resolve: the version the environment points at; its state is not looked at.
ResolveRun(c, e) ==
  /\ req[c].pc = "idle" /\ env[e].current # NoVersion
  /\ Goes(c, [Idle EXCEPT !.pc = "resolved", !.v = env[e].current, !.e = e])
  /\ UNCHANGED <<ver, passing, own, env, run, up, watch, edits>>

\* ... and the run is saved with that pin, later.
SaveRun(c, r) ==
  /\ req[c].pc = "resolved" /\ run[r].status = "none"
  /\ run' = [run EXCEPT ![r] = [status |-> "queued", v |-> req[c].v]]
  /\ req' = [Raced(req[c].v) EXCEPT ![c] = Idle]
  /\ UNCHANGED <<ver, passing, own, env, up, watch, edits>>

\* The api process dies, or its client goes away, between two steps.
Abandon(c) ==
  /\ req[c].pc # "idle"
  /\ Goes(c, Idle)
  /\ UNCHANGED <<ver, passing, own, env, run, up, watch, edits>>

(* Workers: one per version, which refuses to start on a retired one. *)

Claimable(v) == \E r \in Run : run[r].v = v /\ run[r].status \in {"queued", "running"}

WorkerBoots(v) ==
  /\ v \notin up /\ ver[v] = "active" /\ Claimable(v)
  /\ up' = up \cup {v}
  /\ UNCHANGED <<ver, passing, own, env, run, req, watch, edits>>

WorkerLeaves(v) ==
  /\ v \in up
  /\ IF Claimable(v) THEN Edit ELSE UNCHANGED edits
  /\ up' = up \ {v}
  /\ UNCHANGED <<ver, passing, own, env, run, req, watch>>

RunGoes(r, from, to) ==
  /\ run[r].status = from
  /\ run' = [run EXCEPT ![r].status = to]
  /\ UNCHANGED <<ver, passing, own, env, up, req, watch, edits>>

Execute(r) ==
  /\ run[r].v \in up
  /\ RunGoes(r, "queued", "running") \/ RunGoes(r, "running", "done")
Pause(r) == run[r].v \in up /\ RunGoes(r, "running", "waiting")
Answer(r) == RunGoes(r, "waiting", "queued") \/ RunGoes(r, "waiting", "done")
-----------------------------------------------------------------------------
Step ==
  \/ \E v \in Version : \/ CreateVersion(v) \/ WorkerBoots(v) \/ WorkerLeaves(v)
                        \/ \E k \in Kind, ok \in BOOLEAN : Attest(v, k, ok)
  \/ \E p \in {NoPolicy} \cup [Env -> SUBSET Kind] : SetGate(p)
  \/ \E c \in Client :
       \/ \E e \in Env, v \in Version :
            Promote(c, e, v) \/ ForcePromote(c, e, v) \/ RollbackTo(c, e, v)
       \/ \E e \in Env : Rollback(c, e) \/ ResolveRun(c, e)
       \/ \E v \in Version : BeginRetire(c, v) \/ ForceRetire(c, v)
       \/ ReadEnv(c) \/ FlipEnv(c) \/ CheckPins(c) \/ SetRetired(c)
       \/ (\E r \in Run : SaveRun(c, r)) \/ Abandon(c)
  \/ \E r \in Run : Execute(r) \/ Pause(r) \/ Answer(r)

Vouched ==
  vouched \cup {x \in Env \X Version : Met(x[1], x[2])'}
          \cup {<<req'[c].e, req'[c].v>> : c \in {d \in Client : req'[d].vouch}}

Next == Step /\ vouched' = Vouched

Spec == Init /\ [][Next]_vars
-----------------------------------------------------------------------------
TypeOK ==
  /\ ver \in [Version -> {"none", "active", "retired"}]
  /\ passing \in [Version -> SUBSET Kind]
  /\ own \in {NoPolicy} \cup [Env -> SUBSET Kind]
  /\ env \in [Env -> [current: Version \cup {NoVersion}, history: Seq(Version)]]
  /\ run \in [Run -> [status: {"none", "queued", "running", "waiting", "done"},
                      v: Version \cup {NoVersion}]]
  /\ up \subseteq Version
  /\ req \in [Client -> [pc: {"idle", "checked", "flipping", "unpointed", "unpinned",
                              "resolved"},
                         v: Version \cup {NoVersion}, e: Env \cup {NoVersion},
                         forced: BOOLEAN, vouch: BOOLEAN, raced: BOOLEAN,
                         doc: [current: Version \cup {NoVersion}, history: Seq(Version)]]]
  /\ vouched \subseteq Env \X Version
  /\ undo \in [Env -> Version \cup {NoVersion}]
  /\ excused \subseteq Version /\ edits \in Nat

\* A version an environment points at, or a run that is not over is pinned to, is not
\* retired, unless an operator forced it or requests about it overlapped
\* (deployments.py retire, promote; "Fails closed with E_VERSION_IN_USE").
InUseStaysActive ==
  \A v \in Version : ver[v] = "retired" /\ v \notin excused =>
    /\ \A e \in Env : env[e].current # v
    /\ Pinned(v) = {}

\* No environment points at a version whose gate was never met, unless the override is
\* on record or an operator rolled back to it by name (gates.py require_promotion;
\* deployments.py rollback).
NoUnvettedVersion ==
  \A e \in Env : env[e].current # NoVersion =>
    <<e, env[e].current>> \in vouched

\* A bare rollback undoes the last change: the newest entry of the history is the
\* version that was current before it, unless two changes of the pointer overlapped
\* (store_postgres.py env_set_current; deployments.py rollback).
RollbackUndoesLastChange ==
  \A e \in Env : undo[e] # NoVersion => Last(env[e].history) = undo[e]

\* A run that is queued or running ends, or asks a human, on the version it is pinned
\* to, whatever is promoted and retired meanwhile (deployments.py retire, "Replay needs
\* the code that wrote the journal"; worker.py resolve_bundle_root).
PinnedRunsFinish ==
  \A r \in Run : run[r].status \in {"queued", "running"} /\ run[r].v \notin excused
    ~> run[r].status \in {"waiting", "done"} \/ run[r].v \in excused

\* A run is never pinned to a version that is already retired (deployments.py
\* VERSION_RETIRED, "a retired version accepts no NEW runs").
\* It does not hold: see "Disagreements" in README.md.
RetiredTakesNoNewRuns ==
  [][\A c \in Client : req[c].pc = "idle" /\ req'[c].pc = "resolved"
       => ver[req'[c].v] = "active"]_vars
=============================================================================
