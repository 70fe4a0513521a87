----------------------------- MODULE AgentLoop -----------------------------
(***************************************************************************)
(* The governed agent loop and what it spends: ctx.llm.run and             *)
(* ctx.llm.respond (sdk/context.py), the model call through the broker     *)
(* (broker/server.py _llm_call: attribute, allowlist, quota, call, meter)  *)
(* or in the process itself (providers/llm.py), the tool calls with retry  *)
(* and repair (_Tools), and the kill switches an operator sets meanwhile   *)
(* (api/app.py _set_tool_permission over the policy state).                *)
(*                                                                         *)
(* A worker that dies is replaced, and the loop starts again over the      *)
(* journal; the broker goes on with a call whose caller is dead.           *)
(*                                                                         *)
(*   conf       mediated or not; the switches in the old memory scope      *)
(*   policy     the kill switches in policy state, once there are any      *)
(*   req[a]     what api process a is about to write, and had read         *)
(*   loop[r]    where the handler of run r is                              *)
(*   journal[r] its completed steps, by ordinal                            *)
(*   flying[r]  model calls of r that were sent and are not answered yet   *)
(*   paid[r], rows[r], lost[r]  calls the provider answered, rows of the   *)
(*              meter, and rows that could not be written                  *)
(*   deaths[r], faults, ops   counters                                     *)
(* and bookkeeping: acked[t], the override of t an operator was last told  *)
(* to be in force; raced, whether two operators were at it at once.        *)
(***************************************************************************)
EXTENDS Integers, Sequences, SequencesExt, FiniteSets, FiniteSetsExt

CONSTANTS Run, Responding,   \* runs, and those of one ctx.llm.respond with a fallback model
          Api,
          Tool, Declared,    \* the manifest's permission of each tool
          Answers,           \* the tool calls a model may answer with
          MaxSteps,          \* max_steps of a loop
          Tries,             \* max_attempts of a tool
          Limit,             \* maxTokensPerDay; every call costs one
          MaxDeaths, MaxFaults, MaxOps   \* bounds

Permission == {"allowed", "read_only", "approval_required", "disabled"}

LoopAssumption ==
  /\ Responding \subseteq Run
  /\ Declared \in [Tool -> Permission]
  /\ <<>> \in Answers /\ Answers \subseteq Seq(Tool)
  /\ {MaxSteps, Tries} \subseteq Nat \ {0}
  /\ {Limit, MaxDeaths, MaxFaults, MaxOps} \subseteq Nat

VARIABLES conf, policy, req, loop, journal, flying, paid, rows, lost, deaths, faults, ops,
          acked, raced

governance == <<policy, req, ops, acked, raced>>
money == <<flying, paid, rows, lost>>
loopVars == <<conf, governance, loop, journal, money, deaths, faults>>
-----------------------------------------------------------------------------
Switches == [Tool -> Permission \cup {"unset"}]
NoSwitches == [t \in Tool |-> "unset"]

\* read_killswitches: what is in policy state, or, as long as nothing is, in the
\* memory scope the switches used to be kept in.
ReadKillswitches == IF policy.is THEN policy.map ELSE conf.legacy

EffectivePermission(t) ==
  IF ReadKillswitches[t] # "unset" THEN ReadKillswitches[t] ELSE Declared[t]

Callable == {"allowed", "read_only"}

Free == [pc |-> "idle", tool |-> CHOOSE t \in Tool : TRUE, to |-> "unset", map |-> NoSwitches,
         cut |-> FALSE]
Fresh == [pc |-> "start", offered |-> {}, at |-> 0, step |-> 0, todo |-> <<>>,
          tries |-> 0, fixed |-> FALSE, perm |-> "disabled", fell |-> FALSE]

\* A model step and a tool call as journaled: what it was asked, what was answered.
ModelStep(calls) == [kind |-> "llm", perm |-> "none", calls |-> calls]
ToolStep(p) == [kind |-> "tool", perm |-> p, calls |-> <<>>]
IsModelStep(e) == e.kind = "llm"

\* What a counter of each run comes to, over all of them.
Units(f) == UNION {{r} \X (1 .. f[r]) : r \in Run}
Total(f) == Cardinality(Units(f))
Charged == Total(rows)
StepsOf(r) == IF r \in Responding THEN 1 ELSE MaxSteps
Fault == faults < MaxFaults /\ faults' = faults + 1
Ended == {"done", "raised", "nokey"}

LoopInit ==
  /\ conf \in [mediated : BOOLEAN, legacy : {NoSwitches} \cup
                 {[NoSwitches EXCEPT ![t] = "disabled"] : t \in Tool}]
  /\ policy = [is |-> FALSE, map |-> NoSwitches]
  /\ req = [a \in Api |-> Free]
  /\ loop = [r \in Run |-> Fresh] /\ journal = [r \in Run |-> <<>>]
  /\ flying = [r \in Run |-> 0] /\ paid = [r \in Run |-> 0]
  /\ rows = [r \in Run |-> 0] /\ lost = [r \in Run |-> 0]
  /\ deaths = [r \in Run |-> 0] /\ faults = 0 /\ ops = 0
  /\ acked = conf.legacy /\ raced = FALSE

\* run["journal"][seq] = entry
Record(r, e) == journal' = [journal EXCEPT ![r] =
  [i \in 1..Max({loop[r].at + 1, Len(@)}) |-> IF i = loop[r].at + 1 THEN e ELSE @[i]]]

Set(r, l) == loop' = [loop EXCEPT ![r] = l]
LoopGoes(r, pc) == Set(r, [loop[r] EXCEPT !.pc = pc])
Quiet == UNCHANGED <<conf, governance, deaths>>

(* Kill switches. *)

\* PUT /tools/{id}/permission: the whole map is read ...
ReadSwitches(a, t, p) ==
  /\ req[a].pc = "idle" /\ ops < MaxOps
  /\ ops' = ops + 1
  /\ req' = [req EXCEPT ![a] = [pc |-> "write", tool |-> t, to |-> p,
                                map |-> ReadKillswitches, cut |-> FALSE]]
  /\ UNCHANGED <<conf, policy, loop, journal, money, deaths, faults, acked, raced>>

\* Slip: a first switch begins with an empty map.
WrittenAfresh(q) == [(IF policy.is THEN q.map ELSE NoSwitches) EXCEPT ![q.tool] = q.to]

Written(q) == [q.map EXCEPT ![q.tool] = q.to]

\* ... and written with this one changed.
WriteSwitches(a) ==
  LET q == req[a] IN
  /\ q.pc = "write"
  /\ policy' = [is |-> TRUE, map |-> Written(q)]
  /\ req' = [b \in Api |-> IF b = a THEN Free ELSE [req[b] EXCEPT !.cut = req[b].pc = "write"]]
  /\ acked' = [acked EXCEPT ![q.tool] = q.to]
  /\ raced' = (raced \/ q.cut)
  /\ UNCHANGED <<conf, loop, journal, money, deaths, faults, ops>>

(* The loop. *)

\* The tools a loop offers are chosen once; a policy that cannot be read offers none.
Begin(r, readable) ==
  /\ loop[r].pc = "start"
  /\ IF readable THEN UNCHANGED faults ELSE Fault
  /\ Set(r, [Fresh EXCEPT !.pc = "model",
       !.offered = {t \in Tool : readable /\ r \notin Responding
                                 /\ EffectivePermission(t) \in Callable}])
  /\ UNCHANGED <<journal, money>> /\ Quiet

\* Slip: only tool calls are recognised, a model step never matches its record.
RecordedTools(r) == loop[r].at < Len(journal[r]) /\ ~IsModelStep(journal[r][loop[r].at + 1])

\* The step at this ordinal has been completed before (_replay).
Recorded(r) == loop[r].at < Len(journal[r])

\* The model has answered with these calls: without any, that was the last step.
Heard(r, calls) ==
  [loop[r] EXCEPT !.pc = IF calls = <<>> THEN "done" ELSE "tools",
                  !.at = @ + 1, !.step = @ + 1, !.todo = calls]

RecallModel(r) ==
  /\ loop[r].pc = "model" /\ loop[r].step < StepsOf(r) /\ Recorded(r)
  /\ Set(r, Heard(r, journal[r][loop[r].at + 1].calls))
  /\ UNCHANGED <<journal, money, faults>> /\ Quiet

\* Slip: the quota is asked at admission of the run only.
AdmittedAlways == TRUE

\* require_admission(kind="model"): what the meter says of today, against the limit.
Admitted == Charged < Limit

Sent(r) ==
  /\ flying' = [flying EXCEPT ![r] = @ + 1] /\ UNCHANGED <<paid, rows, lost>>
  /\ LoopGoes(r, "wait")

\* A model call is made, through the broker if it is admitted, or directly.
AskModel(r) ==
  /\ loop[r].pc = "model" /\ loop[r].step < StepsOf(r) /\ ~Recorded(r)
  /\ conf.mediated => Admitted
  /\ Sent(r)
  /\ UNCHANGED <<journal, faults>> /\ Quiet

\* respond tries the fallback model once, in its own process, which under mediation
\* has no credential to do so; a loop has none.
Disappointed(r) ==
  IF r \notin Responding \/ loop[r].fell THEN LoopGoes(r, "raised")
  ELSE IF conf.mediated THEN LoopGoes(r, "nokey")
  ELSE Set(r, [loop[r] EXCEPT !.pc = "fallback", !.fell = TRUE])

RefuseModel(r) ==
  /\ loop[r].pc = "model" /\ loop[r].step < StepsOf(r) /\ ~Recorded(r)
  /\ conf.mediated /\ ~Admitted
  /\ Disappointed(r)
  /\ UNCHANGED <<journal, money, faults>> /\ Quiet

\* The version has no manifest to take the route from, or the model is not on the
\* allowlist.
RefuseRoute(r) ==
  /\ loop[r].pc = "model" /\ loop[r].step < StepsOf(r) /\ ~Recorded(r)
  /\ conf.mediated /\ Fault
  /\ Disappointed(r)
  /\ UNCHANGED <<journal, money>> /\ Quiet

AskFallback(r) ==
  /\ loop[r].pc = "fallback"
  /\ Sent(r)
  /\ UNCHANGED <<journal, faults>> /\ Quiet

\* [max_steps reached]
StepsOut(r) ==
  /\ loop[r].pc = "model" /\ loop[r].step = StepsOf(r)
  /\ LoopGoes(r, "done")
  /\ UNCHANGED <<journal, money, faults>> /\ Quiet

\* One of the calls under way may be of a caller that has died.
Orphaned(r) == flying[r] > (IF loop[r].pc = "wait" THEN 1 ELSE 0)

\* Slip: the writes of the tokens wait for the socket of the call they come from.
OnOneSocket(r) == loop[r].pc = "wait" /\ ~conf.mediated

\* BrokerClient.call: a call made from within another has a socket of its own, so
\* that the caller gets to the end of the frames.
ForItself(r) == loop[r].pc = "wait"

\* A row of the meter; metering never fails a call.
MeterRow(r) ==
  \/ rows' = [rows EXCEPT ![r] = @ + 1] /\ UNCHANGED <<lost, faults>>
  \/ lost' = [lost EXCEPT ![r] = @ + 1] /\ Fault /\ UNCHANGED rows

\* Slip: both the broker and the caller meter a mediated call.
MetersAlways == TRUE

\* ctx._meter: a mediated store has no meter_append, the broker has done it.
MetersItself == ~conf.mediated

\* The provider answers; the broker meters before it hands on.
Answer(r, calls) ==
  /\ flying[r] > 0
  /\ flying' = [flying EXCEPT ![r] = @ - 1] /\ paid' = [paid EXCEPT ![r] = @ + 1]
  /\ IF conf.mediated THEN MeterRow(r) ELSE UNCHANGED <<rows, lost, faults>>
  /\ \/ ForItself(r) /\ ToSet(calls) \subseteq loop[r].offered
        /\ Set(r, [loop[r] EXCEPT !.pc = "commit", !.todo = calls])
     \/ Orphaned(r) /\ calls = <<>> /\ UNCHANGED loop
  /\ UNCHANGED journal /\ Quiet

CallFails(r) ==
  /\ flying[r] > 0 /\ Fault
  /\ flying' = [flying EXCEPT ![r] = @ - 1] /\ UNCHANGED <<paid, rows, lost>>
  /\ \/ ForItself(r) /\ Disappointed(r)
     \/ Orphaned(r) /\ UNCHANGED loop
  /\ UNCHANGED journal /\ Quiet

\* The socket times out at the caller; the broker goes on with the call.
GivesUp(r) ==
  /\ loop[r].pc = "wait" /\ conf.mediated /\ Fault
  /\ Disappointed(r)
  /\ UNCHANGED <<journal, money>> /\ Quiet

\* _commit appends to the journal ...
CommitModel(r) ==
  /\ loop[r].pc = "commit"
  /\ Record(r, ModelStep(loop[r].todo))
  /\ IF MetersItself THEN LoopGoes(r, "meter") ELSE Set(r, Heard(r, loop[r].todo))
  /\ UNCHANGED <<money, faults>> /\ Quiet

\* ... and then to the meter.
Meter(r) ==
  /\ loop[r].pc = "meter"
  /\ MeterRow(r) /\ UNCHANGED <<flying, paid>>
  /\ Set(r, Heard(r, loop[r].todo))
  /\ UNCHANGED journal /\ Quiet

\* The next call the model asked for, or the next model step.
Then(r, l) == [l EXCEPT !.pc = IF Tail(l.todo) = <<>> THEN "model" ELSE "tools",
                        !.at = @ + 1, !.todo = Tail(@)]

\* Slip: a tool that was offered is called.
PermissionOffered(r, t, readable) == IF t \in loop[r].offered THEN "allowed" ELSE "disabled"

\* _effective_tool_permission; unreadable is disabled.
PermissionNow(r, t, readable) == IF readable THEN EffectivePermission(t) ELSE "disabled"

\* prepare: every call is checked again, and what was recorded of it must have been
\* asked under the same permission.
CallTool(r, readable) ==
  LET p == PermissionNow(r, Head(loop[r].todo), readable) IN
  /\ loop[r].pc = "tools"
  /\ IF readable THEN UNCHANGED faults ELSE Fault
  /\ IF p \notin Callable THEN LoopGoes(r, "raised")
     ELSE IF ~Recorded(r)
          THEN Set(r, [loop[r] EXCEPT !.pc = "backend", !.perm = p, !.tries = 0, !.fixed = FALSE])
     ELSE IF journal[r][loop[r].at + 1].perm = p THEN Set(r, Then(r, loop[r]))
     ELSE LoopGoes(r, "raised")
  /\ UNCHANGED <<journal, money>> /\ Quiet

ToolReturns(r) ==
  /\ loop[r].pc = "backend"
  /\ Record(r, ToolStep(loop[r].perm))
  /\ Set(r, Then(r, loop[r]))
  /\ UNCHANGED <<money, faults>> /\ Quiet

\* _invoke_with_recovery: a transient failure is retried up to the declared number of
\* attempts; a recoverable one is repaired, once, and costs no attempt.
ToolFails(r, transient) ==
  LET l == loop[r] IN
  /\ l.pc = "backend"
  /\ IF transient /\ l.tries < Tries - 1 THEN Set(r, [l EXCEPT !.tries = @ + 1])
     ELSE IF ~transient /\ ~l.fixed THEN Set(r, [l EXCEPT !.fixed = TRUE])
     ELSE LoopGoes(r, "raised")
  /\ UNCHANGED <<journal, money, faults>> /\ Quiet

\* The worker dies and another takes the run over. A direct call goes with it; the
\* provider may have answered it all the same.
Die(r) ==
  /\ loop[r].pc \notin Ended \cup {"start"} /\ deaths[r] < MaxDeaths
  /\ deaths' = [deaths EXCEPT ![r] = @ + 1]
  /\ Set(r, Fresh)
  /\ IF conf.mediated THEN UNCHANGED <<flying, paid>>
     ELSE /\ flying' = [flying EXCEPT ![r] = 0]
          /\ \E n \in 0..flying[r] : paid' = [paid EXCEPT ![r] = @ + n]
  /\ UNCHANGED <<conf, governance, journal, rows, lost, faults>>

LoopWork(r) ==
  \/ \E b \in BOOLEAN : Begin(r, b) \/ CallTool(r, b) \/ ToolFails(r, b)
  \/ RecallModel(r) \/ AskModel(r) \/ RefuseModel(r) \/ RefuseRoute(r) \/ AskFallback(r) \/ StepsOut(r)
  \/ \E c \in Answers : Answer(r, c)
  \/ CallFails(r) \/ GivesUp(r) \/ CommitModel(r) \/ Meter(r) \/ ToolReturns(r)

LoopNext ==
  \/ \E a \in Api : \/ WriteSwitches(a)
                    \/ \E t \in Tool, p \in {"unset", "disabled", "allowed"} : ReadSwitches(a, t, p)
  \/ \E r \in Run : LoopWork(r) \/ Die(r)

LoopSpec == LoopInit /\ [][LoopNext]_loopVars
-----------------------------------------------------------------------------
LoopTyped ==
  /\ conf.mediated \in BOOLEAN /\ conf.legacy \in Switches
  /\ policy.is \in BOOLEAN /\ policy.map \in Switches
  /\ \A a \in Api : req[a].pc \in {"idle", "write"} /\ req[a].map \in Switches
  /\ \A r \in Run :
       /\ loop[r].pc \in Ended \cup {"start", "model", "wait", "fallback", "commit", "meter",
                                     "tools", "backend"}
       /\ loop[r].offered \subseteq Tool /\ loop[r].todo \in Seq(Tool)
       /\ loop[r].tries \in 0..Tries /\ flying[r] \in 0..(MaxDeaths + 1)
  /\ acked \in Switches /\ raced \in BOOLEAN

ModelSteps(r) == Cardinality({i \in DOMAIN journal[r] : IsModelStep(journal[r][i])})

\* Under mediation a workspace overspends its limit by at most one call for each run
\* that was in flight when it was reached (and for each caller that died, whose call
\* goes on), and by what the meter did not record, however the calls are interleaved
\* (broker/server.py _check_quota: "With a pooled key the money is ours").
OverspendIsBounded ==
  conf.mediated => LET sent == Total(paid) + Total(flying) IN
    IF Limit = 0 THEN sent = 0
    ELSE sent < Limit + Cardinality(Run) + Total(deaths) + Total(lost)

\* A model call the provider was paid for becomes a step of the run, which no replay
\* pays for again, but for the calls of a caller that died or gave up over them
\* (context.py _step).
PaidForOnce ==
  \A r \in Run : paid[r] + flying[r] <=
    ModelSteps(r) + deaths[r] + (IF loop[r].pc \in {"wait", "commit", "raised", "nokey"} THEN 1 ELSE 0)

\* The meter and the journal agree: no call is billed twice, and none is left out but
\* by a failed append or, unmediated, by a death between the two (context.py _commit,
\* broker/client.py: "the broker writes the row instead").
LedgerAgrees ==
  \A r \in Run : LET billed == rows[r] + lost[r] IN
    IF conf.mediated THEN billed = paid[r]
    ELSE /\ billed <= paid[r]
         /\ ModelSteps(r) <= billed + deaths[r] + (IF loop[r].pc = "meter" THEN 1 ELSE 0)

\* What the provider was paid for is bounded, is journaled once and is metered once.
SpendingIsRight == OverspendIsBounded /\ PaidForOnce /\ LedgerAgrees

\* The override an operator was told to be in force is in force, the ones from the old
\* scope included, unless two operators wrote at once (context.py read_killswitches).
SwitchesSurvive == ~raced => ReadKillswitches = acked

\* What starts is a call that no operator has disabled.
StartsAreGranted ==
  \A r \in Run : loop[r].pc = "tools" /\ loop'[r].pc = "backend"
      => raced \/ acked[Head(loop[r].todo)] # "disabled"

\* No tool starts that an operator has disabled, even if the loop it runs in was offered
\* it before (context.py _effective_tool_permission: "disable a misbehaving tool NOW").
\* A call that has begun may retry.
KilledToolsStayKilled == [][StartsAreGranted]_loopVars

\* The two ends of a loop, of which the first leads to the second.
Began(r) == loop[r].pc # "start"
HasEnded(r) == loop[r].pc \in Ended

\* The tools a model is offered may be called as it is asked (context.py _LLM.run: "a tool
\* an operator just disabled disappears from the loop immediately").
\* It does not hold: see "Disagreements" in README.md.
OfferedIsCallable ==
  \A r \in Run : loop[r].pc = "model" /\ loop'[r].pc = "wait"
      => \A t \in loop[r].offered : EffectivePermission(t) \in Callable

\* A respond whose model fails gets to its fallback, mediated or not (broker/client.py:
\* "the mediated path has to be behaviourally identical to the direct one").
\* It does not hold: see "Disagreements" in README.md.
FallbackIsTried == \A r \in Run : loop[r].pc # "nokey"
=============================================================================
