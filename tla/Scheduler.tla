----------------------------- MODULE Scheduler -----------------------------
(***************************************************************************)
(* WorkloadScheduler.execute (core/orchestrator/scheduler.ts) together     *)
(* with what it drives: executeSubTask and the attempt loop of invoke      *)
(* (executor.ts), the decisions of recovery.ts, the groups of dag.ts.      *)
(*                                                                         *)
(* The scheduler is one async function.  The nodes of a batch run          *)
(* concurrently under Promise.allSettled, everything else is sequential,   *)
(* and the clock moves between any two steps.  Routing, provider answers,  *)
(* confidence and the availability of a fallback model are choices of the  *)
(* environment.  A rejected promise of the database or of the key store is *)
(* an infrastructure fault; MaxFaults bounds how many of them strike.      *)
(***************************************************************************)
EXTENDS TaskGraph

CONSTANTS
  Nodes,        \* subtask ids
  Plans,        \* the plans (planner.ts) a task may be executed with
  MaxAttempts,  \* config.execution.maxAttemptsPerSubtask
  MaxFaults     \* bound on infrastructure faults

(***************************************************************************)
(* An ExecutionPlan, as far as scheduling depends on it.  `width' is the   *)
(* planner's maxGroupSize for the plan's strategy, `ensemble' the nodes    *)
(* with requiresEnsemble, `synth' those with role SYNTHESIZER.             *)
(***************************************************************************)
PlanType ==
  [nodes : SUBSET Nodes, deps : [Nodes -> SUBSET Nodes],
   optional : SUBSET Nodes, ensemble : SUBSET Nodes, synth : SUBSET Nodes,
   width : Nat \ {0}]

ASSUME NodesAssumption == IsFiniteSet(Nodes)
ASSUME BoundsAssumption == MaxAttempts \in Nat \ {0} /\ MaxFaults \in Nat
\* pipeline.ts validates every decomposition before it is planned.
ASSUME PlansAssumption ==
  /\ Plans \subseteq PlanType
  /\ \A p \in Plans : ValidGraph(p.nodes, p.deps, {})

\* `replans < 2' in execute.
MaxReplans == 2

VARIABLES
  plan,        \* the plan execute was called with
  active,      \* ids of activePlan.nodes
  deps,        \* dependencies in activePlan
  batched,     \* ids in the groups before groupIndex
  group,       \* ids of the current group still to be examined
  runnable,    \* the batch being formed or run
  exec,        \* per node, where its executeSubTask stands
  results, failed, skipped,
  justFailed,  \* failed nodes of the batch still owed a second chance
  replans, deadlineHit,
  pc,          \* where execute stands
  clock,       \* "early", "near" (80% of the timeout gone), "past"
  row,         \* the persisted subtask rows
  bought,      \* per node, the runs that got an answer, which costs tokens
  faults       \* infrastructure faults so far

plans == <<plan, active, deps, replans>>
loop == <<batched, group, runnable, justFailed, pc>>
outcome == <<results, failed, skipped, deadlineHit>>
record == <<row, bought, faults>>
vars == <<plans, loop, exec, outcome, clock, record>>

Decided == results \cup failed \cup skipped
PastDeadline == clock = "past"
NearDeadline == clock \in {"near", "past"}

-----------------------------------------------------------------------------
Reasons == {"none", "dependency_unavailable", "deadline_exceeded",
            "optional_dropped_near_deadline", "optional_subtask_dropped"}
Turns == {"none", "first", "second"}
Running == {"begin", "call", "lost", "fallback"}

ExecType == [stage : {"idle", "ok", "err"} \cup Running,
             attempt : 0..MaxAttempts,   \* attempts of this run of invoke
             turn : Turns,               \* which run of executeSubTask
             kept : Turns]               \* the run whose answer is kept

RowType == [status : {"pending", "running", "completed", "failed", "skipped"},
            answer : Turns,              \* the run whose output is stored
            errorCode : Reasons]         \* of a skip; a failure's is not told

TypeOK ==
  /\ plan \in Plans
  /\ active \in SUBSET Nodes
  /\ deps \in [Nodes -> SUBSET Nodes]
  /\ batched \in SUBSET Nodes
  /\ group \in SUBSET Nodes
  /\ runnable \in SUBSET Nodes
  /\ exec \in [Nodes -> ExecType]
  /\ results \in SUBSET Nodes
  /\ failed \in SUBSET Nodes
  /\ skipped \in SUBSET Nodes
  /\ justFailed \in SUBSET Nodes
  /\ replans \in 0..MaxReplans
  /\ deadlineHit \in BOOLEAN
  /\ pc \in {"next", "examine", "run", "recover", "retry", "replan",
             "done", "aborted"}
  /\ clock \in {"early", "near", "past"}
  /\ row \in [Nodes -> RowType]
  /\ bought \in [Nodes -> SUBSET Turns]
  /\ faults \in 0..MaxFaults

\* Where a run of a node stands.
Stand(stage, attempt, turn, kept) ==
  [stage |-> stage, attempt |-> attempt, turn |-> turn, kept |-> kept]

Init ==
  /\ plan \in Plans
  /\ active = plan.nodes
  /\ deps = plan.deps
  /\ batched = {} /\ group = {} /\ runnable = {}
  /\ exec = [n \in Nodes |-> Stand("idle", 0, "none", "none")]
  /\ results = {} /\ failed = {} /\ skipped = {} /\ justFailed = {}
  /\ replans = 0
  /\ deadlineHit = FALSE
  /\ pc = "next"
  /\ clock = "early"
  /\ row = [n \in Nodes |->
              [status |-> "pending", answer |-> "none", errorCode |-> "none"]]
  /\ bought = [n \in Nodes |-> {}]
  /\ faults = 0

Fault == faults < MaxFaults /\ faults' = faults + 1

\* db.updateSubTask(...).catch(() => undefined): a failed write is dropped.
WriteRow(n, fields) ==
  \/ row' = [row EXCEPT ![n] = fields] /\ UNCHANGED faults
  \/ Fault /\ UNCHANGED row

-----------------------------------------------------------------------------
(* The loop over groups.                                                   *)

Queue == KahnQueue(active, deps, batched)

NextGroup ==
  /\ pc = "next"
  /\ \E g \in SUBSET Queue :
       /\ IsGroup(g, Queue, plan.width)
       /\ group' = g
       /\ batched' = batched \cup g
  /\ pc' = "examine"
  /\ UNCHANGED <<plans, runnable, justFailed, exec, outcome, clock, record>>

Finish ==
  /\ pc = "next"
  /\ Queue = {}
  /\ pc' = "done"
  /\ UNCHANGED <<plans, batched, group, runnable, justFailed, exec, outcome,
                 clock, record>>

Unmet(n) == deps[n] \ results

\* Every unmet dependency is settled and at least one succeeded.
CanDegrade(n) ==
  /\ Unmet(n) \subseteq failed \cup skipped
  /\ deps[n] \cap results # {}

\* Slip: no degraded run at all.
DependenciesAllowOnlyComplete(n) == Unmet(n) = {}

DependenciesAllow(n) == Unmet(n) = {} \/ CanDegrade(n)

\* A node of an earlier plan that is back in the groups: `continue'.
PassOver(n) ==
  /\ pc = "examine" /\ n \in group
  /\ n \in Decided
  /\ group' = group \ {n}
  /\ UNCHANGED <<plans, batched, runnable, justFailed, pc, exec, outcome,
                 clock, record>>

MarkSkipped(n, reason) ==
  /\ skipped' = skipped \cup {n}
  /\ WriteRow(n, [row[n] EXCEPT !.status = "skipped", !.errorCode = reason])

SkipUnavailable(n) ==
  /\ pc = "examine" /\ n \in group \ Decided
  /\ ~DependenciesAllow(n)
  /\ MarkSkipped(n, "dependency_unavailable")
  /\ group' = group \ {n}
  /\ UNCHANGED <<plans, batched, runnable, justFailed, pc, exec, results,
                 failed, deadlineHit, clock, bought>>

SkipPastDeadline(n) ==
  /\ pc = "examine" /\ n \in group \ Decided
  /\ DependenciesAllow(n)
  /\ PastDeadline
  /\ deadlineHit' = TRUE
  /\ MarkSkipped(n, "deadline_exceeded")
  /\ group' = group \ {n}
  /\ UNCHANGED <<plans, batched, runnable, justFailed, pc, exec, results,
                 failed, clock, bought>>

SkipOptional(n) ==
  /\ pc = "examine" /\ n \in group \ Decided
  /\ DependenciesAllow(n)
  /\ n \in plan.optional /\ NearDeadline /\ ~PastDeadline
  /\ MarkSkipped(n, "optional_dropped_near_deadline")
  /\ group' = group \ {n}
  /\ UNCHANGED <<plans, batched, runnable, justFailed, pc, exec, results,
                 failed, deadlineHit, clock, bought>>

MakeRunnable(n) ==
  /\ pc = "examine" /\ n \in group \ Decided
  /\ DependenciesAllow(n)
  /\ ~PastDeadline
  /\ ~(n \in plan.optional /\ NearDeadline)
  /\ runnable' = runnable \cup {n}
  /\ group' = group \ {n}
  /\ UNCHANGED <<plans, batched, justFailed, pc, exec, outcome, clock,
                 record>>

Launched(n, turn) == Stand("begin", 0, turn, exec[n].kept)

\* Promise.allSettled over the batch; an empty batch goes round the loop.
LaunchBatch ==
  /\ pc = "examine" /\ group = {}
  /\ pc' = IF runnable = {} THEN "next" ELSE "run"
  /\ exec' = [n \in Nodes |-> IF n \in runnable THEN Launched(n, "first") ELSE exec[n]]
  /\ UNCHANGED <<plans, batched, group, runnable, justFailed, outcome, clock,
                 record>>

-----------------------------------------------------------------------------
(* executeSubTask and, inside it, the attempt loop of invoke.  A run of a  *)
(* node belongs to the batch (pc = "run", where an ensemble node runs      *)
(* twice) or to the second chance (pc = "retry").                          *)

\* executeEnsemble is waiting on its second model: a throw keeps the first.
SecondOpinion(n) == pc = "run" /\ exec[n].turn = "second"

\* executeSubTask throws.
Throw(n) ==
  exec' = [exec EXCEPT ![n] =
             Stand(IF SecondOpinion(n) THEN "ok" ELSE "err", 0, @.turn, @.kept)]

\* executeSubTask returns; the winner of an ensemble is the more confident.
Return(n) ==
  \E kept \in IF SecondOpinion(n) THEN {"first", "second"} ELSE {exec[n].turn} :
    exec' = [exec EXCEPT ![n] =
               Stand(IF pc = "run" /\ n \in plan.ensemble /\ ~SecondOpinion(n)
                     THEN "fallback" ELSE "ok", 0, @.turn, kept)]

untouchedByExec == <<plans, loop, outcome, clock, bought>>

InFlight(n, stage) == pc \in {"run", "retry"} /\ exec[n].stage = stage

\* The row is marked running before the deadline is looked at, and the
\* deadline error is thrown outside the try that would mark it failed.
BeginSubTask(n) ==
  /\ InFlight(n, "begin")
  /\ WriteRow(n, [row[n] EXCEPT !.status = "running"])
  /\ IF PastDeadline
     THEN Throw(n)
     ELSE exec' = [exec EXCEPT ![n] = Stand("call", 1, @.turn, @.kept)]
  /\ UNCHANGED untouchedByExec

\* A provider answers in time.  A cached answer takes the same step: it was
\* paid for when it was cached, and is not told apart here.
Answer(n) ==
  /\ InFlight(n, "call")
  /\ WriteRow(n, [row[n] EXCEPT !.status = "completed", !.answer = exec[n].turn])
  /\ Return(n)
  /\ bought' = [bought EXCEPT ![n] = @ \cup {exec[n].turn}]
  /\ UNCHANGED <<plans, loop, outcome, clock>>

\* `retrying': the rotator never gives up, the attempts run out.
AttemptsLeft(n) == exec[n].attempt < MaxAttempts

\* A provider answered, but recordSuccess or cache.set rejects: both are
\* inside the try, so the paid answer counts as a failed attempt.
LoseResponse(n) ==
  /\ InFlight(n, "call")
  /\ Fault
  /\ bought' = [bought EXCEPT ![n] = @ \cup {exec[n].turn}]
  /\ exec' = [exec EXCEPT ![n] = Stand("lost", @.attempt, @.turn, @.kept)]
  /\ UNCHANGED <<plans, loop, outcome, clock, row>>

Attempted(n) == InFlight(n, "call") \/ InFlight(n, "lost")

\* An attempt fails; after the backoff another route is found and its call
\* starts.  Nothing here looks at the deadline.
RetryCall(n) ==
  /\ Attempted(n)
  /\ AttemptsLeft(n)
  /\ exec' = [exec EXCEPT ![n] = Stand("call", @.attempt + 1, @.turn, @.kept)]
  /\ UNCHANGED <<row, faults, untouchedByExec>>

\* Slip: the failure is thrown but never written.
GiveUpSilently(n) ==
  /\ Attempted(n)
  /\ Throw(n)
  /\ UNCHANGED <<row, faults, untouchedByExec>>

\* The last attempt failed, or no route was left to try.
GiveUp(n) ==
  /\ Attempted(n)
  /\ WriteRow(n, [row[n] EXCEPT !.status = "failed"])
  /\ Throw(n)
  /\ UNCHANGED untouchedByExec

\* findFallbackModel inside executeEnsemble: another model, none, or a
\* rejected promise, which nothing catches.
AskSecondModel(n) ==
  /\ InFlight(n, "fallback")
  /\ exec' = [exec EXCEPT ![n] = Launched(n, "second")]
  /\ UNCHANGED <<row, faults, untouchedByExec>>

KeepOnlyAnswer(n) ==
  /\ InFlight(n, "fallback")
  /\ exec' = [exec EXCEPT ![n] = Stand("ok", 0, @.turn, @.kept)]
  /\ UNCHANGED <<row, faults, untouchedByExec>>

LoseAnswer(n) ==
  /\ InFlight(n, "fallback")
  /\ Fault
  /\ exec' = [exec EXCEPT ![n] = Stand("err", 0, @.turn, @.kept)]
  /\ UNCHANGED <<row, untouchedByExec>>

\* Slip: wait for the successes only.
BatchFulfilled == \A n \in runnable : exec[n].stage = "ok"

BatchSettled == \A n \in runnable : exec[n].stage \in {"ok", "err"}

\* Slip: the second chance goes to every failure so far.
SettleBatchRetryingAll ==
  /\ pc = "run"
  /\ BatchSettled
  /\ LET fulfilled == { n \in runnable : exec[n].stage = "ok" }
         rejected  == runnable \ fulfilled
     IN  /\ results' = results \cup fulfilled
         /\ failed' = failed \cup rejected
         /\ justFailed' = failed \cup rejected
         /\ pc' = IF rejected = {} THEN "next" ELSE "recover"
  /\ runnable' = {}
  /\ UNCHANGED <<plans, batched, group, exec, skipped, deadlineHit, clock,
                 record>>

SettleBatch ==
  /\ pc = "run"
  /\ BatchSettled
  /\ LET fulfilled == { n \in runnable : exec[n].stage = "ok" }
         rejected  == runnable \ fulfilled
     IN  /\ results' = results \cup fulfilled
         /\ failed' = failed \cup rejected
         /\ justFailed' = rejected
         /\ pc' = IF rejected = {} THEN "next" ELSE "recover"
  /\ runnable' = {}
  /\ UNCHANGED <<plans, batched, group, exec, skipped, deadlineHit, clock,
                 record>>

-----------------------------------------------------------------------------
(* The second chance.  execute passes a plain Error, so                    *)
(* handleSubTaskFailure sees kind UNKNOWN: a fallback model if there is    *)
(* one, else SKIP for an optional node, else FAIL.                         *)

RecoverSwap(n) ==
  /\ pc = "recover" /\ n \in justFailed /\ ~PastDeadline
  /\ justFailed' = justFailed \ {n}
  /\ runnable' = {n}
  /\ exec' = [exec EXCEPT ![n] = Launched(n, "second")]
  /\ pc' = "retry"
  /\ UNCHANGED <<plans, batched, group, outcome, clock, record>>

\* Slip: failed.delete is forgotten.
RecoverSkipStillFailed(n) ==
  /\ pc = "recover" /\ n \in justFailed /\ ~PastDeadline
  /\ n \in plan.optional
  /\ justFailed' = justFailed \ {n}
  /\ MarkSkipped(n, "optional_subtask_dropped")
  /\ UNCHANGED <<plans, batched, group, runnable, pc, exec, results, failed,
                 deadlineHit, clock, bought>>

RecoverSkip(n) ==
  /\ pc = "recover" /\ n \in justFailed /\ ~PastDeadline
  /\ n \in plan.optional
  /\ justFailed' = justFailed \ {n}
  /\ failed' = failed \ {n}
  /\ MarkSkipped(n, "optional_subtask_dropped")
  /\ UNCHANGED <<plans, batched, group, runnable, pc, exec, results,
                 deadlineHit, clock, bought>>

RecoverFail(n) ==
  /\ pc = "recover" /\ n \in justFailed /\ ~PastDeadline
  /\ n \notin plan.optional
  /\ justFailed' = justFailed \ {n}
  /\ UNCHANGED <<plans, batched, group, runnable, pc, exec, outcome, clock,
                 record>>

\* Slip: a failed second chance is queued for another one.
RetrySettledAgain(n) ==
  /\ pc = "retry" /\ n \in runnable /\ exec[n].stage \in {"ok", "err"}
  /\ IF exec[n].stage = "ok"
     THEN results' = results \cup {n} /\ failed' = failed \ {n} /\ UNCHANGED justFailed
     ELSE justFailed' = justFailed \cup {n} /\ UNCHANGED <<results, failed>>
  /\ runnable' = {}
  /\ pc' = "recover"
  /\ UNCHANGED <<plans, batched, group, exec, skipped, deadlineHit, clock,
                 record>>

RetrySettled(n) ==
  /\ pc = "retry" /\ n \in runnable /\ exec[n].stage \in {"ok", "err"}
  /\ IF exec[n].stage = "ok"
     THEN results' = results \cup {n} /\ failed' = failed \ {n}
     ELSE UNCHANGED <<results, failed>>
  /\ runnable' = {}
  /\ pc' = "recover"
  /\ UNCHANGED <<plans, batched, group, justFailed, exec, skipped,
                 deadlineHit, clock, record>>

\* recovery.isCriticalFailure.
IsCriticalFailure ==
  /\ failed # {}
  /\ \/ \E n \in (failed \cap active) \ plan.optional :
          Descendants(active, deps, n) \ results # {}
     \/ results \ plan.synth = {}

WantsReplan ==
  /\ failed # {}
  /\ replans < MaxReplans
  /\ ~PastDeadline
  /\ IsCriticalFailure

\* The loop over justFailed ran out, or broke off at the deadline.
SecondChancesOver ==
  /\ pc = "recover"
  /\ justFailed = {} \/ PastDeadline
  /\ justFailed' = {}
  /\ pc' = IF WantsReplan THEN "replan" ELSE "next"
  /\ UNCHANGED <<plans, batched, group, runnable, exec, outcome, clock,
                 record>>

\* Slip: the re-plan drops what a failure stranded.
RemainingUnstranded ==
  { n \in active \ (results \cup failed) : deps[n] \cap failed = {} }

\* recovery.replan: what neither succeeded nor failed, without its
\* dependencies on failed nodes.
Remaining == active \ (results \cup failed)
\* Slip: only dependencies on completed nodes are kept.
RemainingDepsCompleted ==
  [n \in Nodes |-> IF n \in Remaining THEN deps[n] \cap results ELSE deps[n]]

RemainingDeps == [n \in Nodes |-> IF n \in Remaining THEN deps[n] \ failed ELSE deps[n]]

Replan ==
  /\ pc = "replan"
  /\ IF ValidGraph(Remaining, RemainingDeps, results)
     THEN /\ replans' = replans + 1
          /\ active' = Remaining
          /\ deps' = RemainingDeps
          /\ batched' = {}
     ELSE UNCHANGED <<active, deps, replans, batched>>
  /\ pc' = "next"
  /\ UNCHANGED <<plan, group, runnable, justFailed, exec, outcome, clock,
                 record>>

\* getAvailableProviders rejects inside handleSubTaskFailure or inside
\* generatePlans: nothing in execute catches it.
Abort ==
  /\ pc \in {"recover", "replan"}
  /\ pc = "recover" => justFailed # {} /\ ~PastDeadline
  /\ Fault
  /\ pc' = "aborted"
  /\ UNCHANGED <<plans, batched, group, runnable, justFailed, exec, outcome,
                 clock, row, bought>>

-----------------------------------------------------------------------------
Over == pc \in {"done", "aborted"}

Tick ==
  /\ ~Over
  /\ \/ clock = "early" /\ clock' = "near"
     \/ clock = "near"  /\ clock' = "past"
  /\ UNCHANGED <<plans, loop, exec, outcome, record>>

Examine(n) ==
  \/ PassOver(n) \/ SkipUnavailable(n) \/ SkipPastDeadline(n)
  \/ SkipOptional(n) \/ MakeRunnable(n)

Execute(n) ==
  \/ BeginSubTask(n) \/ Answer(n) \/ LoseResponse(n) \/ RetryCall(n) \/ GiveUp(n)
  \/ AskSecondModel(n) \/ KeepOnlyAnswer(n) \/ LoseAnswer(n)

Recover(n) ==
  \/ RecoverSwap(n) \/ RecoverSkip(n) \/ RecoverFail(n) \/ RetrySettled(n)

Progress ==
  \/ NextGroup \/ Finish \/ LaunchBatch \/ SettleBatch
  \/ SecondChancesOver \/ Replan \/ Abort
  \/ \E n \in Nodes : Examine(n) \/ Execute(n) \/ Recover(n)

Next == Progress \/ Tick \/ (Over /\ UNCHANGED vars)

(***************************************************************************)
(* Every await in execute ends: provider calls run under withTimeout,      *)
(* database and store promises settle, and a settled promise is resumed by *)
(* the event loop.  So some step of the schedule is always taken.  Nothing *)
(* is assumed of the clock.                                                *)
(***************************************************************************)
Spec == Init /\ [][Next]_vars /\ WF_vars(Progress)
-----------------------------------------------------------------------------
(* Properties.                                                             *)

\* A node has at most one verdict (the three sets of ScheduleOutcome).
VerdictsExclusive ==
  /\ results \cap failed = {}
  /\ results \cap skipped = {}
  /\ failed \cap skipped = {}

\* When execute returns, every node of the original plan is accounted for,
\* through any number of re-plans: pipeline.ts computes `partial' from
\* failed and skipped alone.
EveryNodeAccountedFor == pc = "done" => plan.nodes \subseteq Decided

\* A node that is running, or was decided, was reached only after each
\* dependency of the ORIGINAL plan had a verdict, dropped ones included: not that
\* they have *succeeded*, as scheduler.ts:14 says (of several, 63-75 ask for one).
DependenciesDecidedFirst ==
  \A n \in Decided \cup runnable : plan.deps[n] \subseteq Decided

\* "one node's failure never cancels an unrelated branch" (scheduler.ts
\* header): a node is cancelled for its dependencies only if it has some and
\* none of them succeeded, then or through a later second chance.
CancelledOnlyByUpstream ==
  \A n \in Nodes :
    row[n].errorCode = "dependency_unavailable" =>
      plan.deps[n] # {} /\ plan.deps[n] \cap results = {}

\* A task pays for at most two runs of a node, its batch and then one second
\* chance or one second opinion: no re-plan runs a failed node again.
TwoRunsAtMost ==
  [][ \A n \in Nodes :
        exec[n].stage # "begin" /\ exec'[n].stage = "begin" =>
          \/ exec[n].turn = "none"
          \/ exec[n].turn = "first" /\ exec'[n].turn = "second" ]_vars

\* What the app reads back agrees with the outcome, when no write was lost.
\* Two cases are excluded because the code gets them wrong: a node rejected
\* at the deadline stays `running', and an ensemble row holds whatever its
\* second run wrote.
RowsTellVerdict ==
  (pc = "done" /\ faults = 0) =>
    \A n \in plan.nodes :
      /\ n \in skipped => row[n].status = "skipped"
      /\ n \in results \ plan.ensemble =>
           row[n].status = "completed" /\ row[n].answer = exec[n].kept
      /\ n \in failed =>
           \/ row[n].status = "failed"
           \/ row[n].status = "running" /\ PastDeadline

\* The schedule implements the ledger of verdicts.
Verdict(n) ==
  CASE n \in results -> "succeeded"
    [] n \in failed  -> "failed"
    [] n \in skipped -> "skipped"
    [] OTHER         -> "pending"

Ledger == INSTANCE SubtaskLedger WITH
            verdict <- [n \in Nodes |-> Verdict(n)],
            phase   <- CASE pc = "done"    -> "closed"
                         [] pc = "aborted" -> "aborted"
                         [] OTHER          -> "open"

LedgerSpec == Ledger!Spec

\* Every schedule ends, whatever fails: no wait on a batch is forever and
\* the re-plans run out.
Terminates == <>Over

(* What the repository says of the code and the code does not do.          *)

\* executor.ts:72, "Absolute epoch ms after which no new provider call
\* should start."
NoCallPastDeadline ==
  [][ \A n \in Nodes : exec'[n].attempt > exec[n].attempt => ~PastDeadline ]_vars

\* recovery.ts:90, "Every analysis died - there is nothing to synthesize."
SynthesisHasInput ==
  \A n \in plan.synth :
    exec[n].stage \in Running /\ plan.deps[n] # {} =>
      plan.deps[n] \cap results # {}

\* README.md:39, "reports what it actually spent": telemetry adds up the
\* results of the outcome, so an answer outside them is never reported.
SpendIsReported ==
  pc = "done" =>
    \A n \in plan.nodes :
      bought[n] \subseteq IF n \in results THEN {exec[n].kept} ELSE {}
=============================================================================
