-------------------------- MODULE SchedulerProofs --------------------------
(***************************************************************************)
(* Proofs about Scheduler, for every set of nodes, every set of valid      *)
(* plans and every bound.                                                  *)
(*                                                                         *)
(* The safety properties of a schedule are not inductive: they rest on how *)
(* the groups, the batch in flight and the re-planned graph relate to the  *)
(* verdicts given so far.  Parts says so, and is inductive.                *)
(***************************************************************************)
EXTENDS Scheduler, TLAPS

\* A re-plan under way is within the budget of re-plans.
ReplanDue == pc = "replan" => replans < MaxReplans

\* Failed nodes whose verdict the second chance may still change.
Revisable == justFailed \cup (IF pc = "retry" THEN runnable ELSE {})

\* Whatever left the active plan was decided; whatever was batched is
\* decided or still in the hands of the current batch.
Coverage ==
  /\ active \subseteq plan.nodes
  /\ plan.nodes \ active \subseteq Decided
  /\ batched \subseteq active
  /\ batched \subseteq Decided \cup group \cup runnable
  /\ group \subseteq plan.nodes
  /\ runnable \subseteq plan.nodes
  /\ Decided \subseteq plan.nodes

\* What each stage of the loop leaves empty, and who the batch consists of.
Stages ==
  /\ pc # "examine" => group = {}
  /\ pc \notin {"examine", "run", "retry"} => runnable = {}
  /\ pc \notin {"recover", "retry", "aborted"} => justFailed = {}
  /\ pc \in {"examine", "run"} => runnable \cap Decided = {}
  /\ group \cap runnable = {}
  /\ justFailed \cap runnable = {}
  /\ Revisable \subseteq failed

\* A node is reached only once its planned dependencies are decided ...
Reached ==
  \A n \in Decided \cup group \cup runnable : plan.deps[n] \subseteq Decided

\* ... and nothing downstream of a revisable failure has been reached.
Unrelied ==
  \A f \in Revisable : \A m \in Nodes :
    f \in plan.deps[m] => m \notin Decided

\* A re-plan forgets only dependencies on failures that are final.
Forgotten ==
  \A n \in Nodes :
    /\ deps[n] \subseteq plan.deps[n]
    /\ plan.deps[n] \ deps[n] \subseteq failed \ Revisable

Cancelled ==
  \A n \in Nodes :
    row[n].errorCode = "dependency_unavailable" =>
      /\ n \in skipped
      /\ plan.deps[n] # {}
      /\ plan.deps[n] \cap results = {}

\* What the safety properties rest on, beyond types.
Parts ==
  /\ Coverage
  /\ Stages
  /\ VerdictsExclusive
  /\ Reached
  /\ Unrelied
  /\ Forgotten
  /\ Cancelled
  /\ EveryNodeAccountedFor

\* How the runs of a node are numbered.
Turning ==
  \A n \in Nodes :
    /\ exec[n].turn # "none" => n \in Decided \/ (pc = "run" /\ n \in runnable)
    /\ exec[n].stage \in Running => pc \in {"run", "retry"} /\ n \in runnable
    /\ exec[n].stage = "fallback" => exec[n].turn = "first" /\ pc = "run"
    /\ pc = "run" /\ n \in runnable =>
         /\ exec[n].turn # "none"
         /\ exec[n].turn = "second" => exec[n].stage # "err"
    /\ n \in justFailed => exec[n].turn = "first"
    /\ pc = "retry" /\ n \in runnable => runnable = {n} /\ exec[n].turn = "second"
-----------------------------------------------------------------------------
(* Type correctness.                                                       *)

LEMMA PlanTyped ==
  ASSUME plan \in Plans
  PROVE  /\ plan.nodes \subseteq Nodes
         /\ plan.deps \in [Nodes -> SUBSET Nodes]
         /\ Acyclic(plan.nodes, plan.deps)
         /\ \A n \in plan.nodes : plan.deps[n] \subseteq plan.nodes
BY PlansAssumption DEF PlanType, ValidGraph

\* A row write keeps the rows well-formed and, whatever fields it sets,
\* touches no other row.
LEMMA WriteRowTyped ==
  ASSUME NEW n \in Nodes, NEW fields \in RowType,
         row \in [Nodes -> RowType], faults \in 0..MaxFaults,
         WriteRow(n, fields)
  PROVE  /\ row' \in [Nodes -> RowType]
         /\ faults' \in 0..MaxFaults
         /\ row'[n] \in {row[n], fields}
         /\ \A m \in Nodes \ {n} : row'[m] = row[m]
BY BoundsAssumption DEF WriteRow, Fault

LEMMA LaunchedTyped ==
  ASSUME NEW n \in Nodes, exec \in [Nodes -> ExecType], NEW turn \in Turns
  PROVE  Launched(n, turn) \in ExecType
BY BoundsAssumption DEF Launched, Stand, ExecType, Running

LEMMA StandTyped ==
  ASSUME NEW n \in Nodes, exec \in [Nodes -> ExecType],
         NEW e \in ExecType, exec' = [exec EXCEPT ![n] = e]
  PROVE  /\ exec' \in [Nodes -> ExecType]
         /\ exec'[n] = e
         /\ \A m \in Nodes \ {n} : exec'[m] = exec[m]
OBVIOUS

LEMMA ExecRange ==
  ASSUME NEW n \in Nodes, exec \in [Nodes -> ExecType]
  PROVE  /\ exec[n].stage \in {"idle", "ok", "err", "begin", "call", "lost", "fallback"}
         /\ exec[n].attempt \in 0..MaxAttempts
         /\ exec[n].turn \in {"none", "first", "second"}
         /\ exec[n].kept \in {"none", "first", "second"}
BY DEF ExecType, Turns, Running

LEMMA InitTyped == Init => TypeOK
<1>. SUFFICES ASSUME Init PROVE TypeOK
  OBVIOUS
<1>1. plan \in Plans /\ active \in SUBSET Nodes /\ deps \in [Nodes -> SUBSET Nodes]
  BY PlanTyped DEF Init
<1>2. exec \in [Nodes -> ExecType]
  BY BoundsAssumption DEF Init, Stand, ExecType, Turns
<1>3. row \in [Nodes -> RowType]
  BY DEF Init, RowType, Turns, Reasons
<1>4. bought \in [Nodes -> SUBSET Turns]
  BY DEF Init
<1>5. 0 \in 0..MaxFaults /\ 0 \in 0..MaxReplans
  BY BoundsAssumption DEF MaxReplans
<1>. QED
  BY <1>1, <1>2, <1>3, <1>4, <1>5 DEF Init, TypeOK

LEMMA ExamineTyped ==
  ASSUME TypeOK, NEW n \in Nodes, Examine(n)
  PROVE  TypeOK'
<1>1. CASE PassOver(n)
  BY <1>1 DEF PassOver, TypeOK, plans, outcome, record
<1>2. ASSUME NEW reason \in Reasons, MarkSkipped(n, reason)
      PROVE  /\ skipped' \in SUBSET Nodes
             /\ row' \in [Nodes -> RowType]
             /\ faults' \in 0..MaxFaults
  <2>1. [row[n] EXCEPT !.status = "skipped", !.errorCode = reason] \in RowType
    BY DEF TypeOK, RowType
  <2>. QED
    BY <1>2, <2>1, WriteRowTyped DEF MarkSkipped, TypeOK
<1>3. CASE SkipUnavailable(n)
  BY <1>2, <1>3 DEF SkipUnavailable, TypeOK, plans, outcome, record, Reasons
<1>4. CASE SkipPastDeadline(n)
  BY <1>2, <1>4 DEF SkipPastDeadline, TypeOK, plans, outcome, record, Reasons
<1>5. CASE SkipOptional(n)
  BY <1>2, <1>5 DEF SkipOptional, TypeOK, plans, outcome, record, Reasons
<1>6. CASE MakeRunnable(n)
  BY <1>6 DEF MakeRunnable, TypeOK, plans, outcome, record
<1>. QED
  BY <1>1, <1>3, <1>4, <1>5, <1>6 DEF Examine

LEMMA ExecuteTyped ==
  ASSUME TypeOK, NEW n \in Nodes, Execute(n)
  PROVE  TypeOK'
<1>. DEFINE Now == exec[n]
<1>1. /\ exec \in [Nodes -> ExecType]
      /\ row \in [Nodes -> RowType]
      /\ faults \in 0..MaxFaults
      /\ bought \in [Nodes -> SUBSET Turns]
  BY DEF TypeOK
<1>2. /\ Now.attempt \in 0..MaxAttempts
      /\ Now.turn \in Turns
      /\ Now.kept \in Turns
  BY <1>1, ExecRange DEF Turns
<1>3. ASSUME NEW stage \in {"ok", "err", "begin", "call", "lost", "fallback"},
             NEW attempt \in 0..MaxAttempts, NEW turn \in Turns, NEW kept \in Turns
      PROVE  Stand(stage, attempt, turn, kept) \in ExecType
  BY DEF Stand, ExecType, Running
<1>4. /\ 0 \in 0..MaxAttempts
      /\ 1 \in 0..MaxAttempts
      /\ {"first", "second"} \subseteq Turns
  BY BoundsAssumption DEF Turns
<1>5. Throw(n) => exec' \in [Nodes -> ExecType]
  BY <1>1, <1>2, <1>3, <1>4 DEF Throw
<1>6. Return(n) => exec' \in [Nodes -> ExecType]
  BY <1>1, <1>2, <1>3, <1>4 DEF Return
<1>7. ASSUME NEW status \in {"running", "completed", "failed"}, NEW answer \in Turns,
             NEW fields,
             fields = [row[n] EXCEPT !.status = status, !.answer = answer],
             WriteRow(n, fields)
      PROVE  row' \in [Nodes -> RowType] /\ faults' \in 0..MaxFaults
  <2>1. fields \in RowType
    BY <1>1, <1>7 DEF RowType
  <2>. QED
    BY <1>1, <1>7, <2>1, WriteRowTyped
<1>8. row[n].answer \in Turns /\ row[n] \in RowType
  BY <1>1 DEF RowType
<1>9. ASSUME NEW status \in {"running", "failed"},
             WriteRow(n, [row[n] EXCEPT !.status = status])
      PROVE  row' \in [Nodes -> RowType] /\ faults' \in 0..MaxFaults
  <2>1. [row[n] EXCEPT !.status = status] \in RowType
    BY <1>8 DEF RowType
  <2>. QED
    BY <1>1, <1>9, <2>1, WriteRowTyped
<1>10. ASSUME exec' \in [Nodes -> ExecType], row' \in [Nodes -> RowType],
              faults' \in 0..MaxFaults,
              bought' \in [Nodes -> SUBSET Turns],
              UNCHANGED <<plans, loop, outcome, clock>>
       PROVE  TypeOK'
  BY <1>10 DEF TypeOK, plans, loop, outcome
<1>11. CASE BeginSubTask(n)
  <2>1. exec' \in [Nodes -> ExecType]
    BY <1>1, <1>2, <1>3, <1>4, <1>5, <1>11 DEF BeginSubTask
  <2>2. row' \in [Nodes -> RowType] /\ faults' \in 0..MaxFaults
    BY <1>9, <1>11 DEF BeginSubTask
  <2>. QED
    BY <1>1, <1>10, <1>11, <2>1, <2>2 DEF BeginSubTask, untouchedByExec
<1>12. CASE Answer(n)
  <2>2. row' \in [Nodes -> RowType] /\ faults' \in 0..MaxFaults
    BY <1>2, <1>7, <1>12 DEF Answer
  <2>3. bought' \in [Nodes -> SUBSET Turns]
    BY <1>1, <1>2, <1>12 DEF Answer
  <2>. QED
    BY <1>6, <1>10, <1>12, <2>2, <2>3 DEF Answer
<1>18. CASE LoseResponse(n)
  <2>1. exec' \in [Nodes -> ExecType]
    BY <1>1, <1>2, <1>3, <1>18 DEF LoseResponse
  <2>2. bought' \in [Nodes -> SUBSET Turns]
    BY <1>1, <1>2, <1>18 DEF LoseResponse
  <2>3. faults' \in 0..MaxFaults
    BY <1>1, <1>18, BoundsAssumption DEF LoseResponse, Fault
  <2>. QED
    BY <1>1, <1>10, <1>18, <2>1, <2>2, <2>3 DEF LoseResponse
<1>13. CASE RetryCall(n)
  <2>1. Now.attempt + 1 \in 0..MaxAttempts
    BY <1>2, <1>13, BoundsAssumption DEF RetryCall, AttemptsLeft
  <2>2. exec' \in [Nodes -> ExecType]
    BY <1>1, <1>2, <1>3, <1>13, <2>1 DEF RetryCall
  <2>. QED
    BY <1>1, <1>10, <1>13, <2>2 DEF RetryCall, untouchedByExec
<1>14. CASE GiveUp(n)
  BY <1>1, <1>5, <1>9, <1>10, <1>14 DEF GiveUp, untouchedByExec
<1>15. CASE AskSecondModel(n)
  <2>1. exec' \in [Nodes -> ExecType]
    BY <1>1, <1>2, <1>3, <1>4, <1>15 DEF AskSecondModel, Launched
  <2>. QED
    BY <1>1, <1>10, <1>15, <2>1 DEF AskSecondModel, untouchedByExec
<1>16. CASE KeepOnlyAnswer(n)
  <2>1. exec' \in [Nodes -> ExecType]
    BY <1>1, <1>2, <1>3, <1>4, <1>16 DEF KeepOnlyAnswer
  <2>. QED
    BY <1>1, <1>10, <1>16, <2>1 DEF KeepOnlyAnswer, untouchedByExec
<1>17. CASE LoseAnswer(n)
  <2>1. exec' \in [Nodes -> ExecType]
    BY <1>1, <1>2, <1>3, <1>4, <1>17 DEF LoseAnswer
  <2>2. faults' \in 0..MaxFaults
    BY <1>1, <1>17, BoundsAssumption DEF LoseAnswer, Fault
  <2>. QED
    BY <1>1, <1>10, <1>17, <2>1, <2>2 DEF LoseAnswer, untouchedByExec
<1>. QED
  BY <1>11, <1>12, <1>13, <1>14, <1>15, <1>16, <1>17, <1>18 DEF Execute

LEMMA LoopTyped ==
  ASSUME TypeOK, ReplanDue,
         \/ NextGroup \/ Finish \/ LaunchBatch \/ SettleBatch
         \/ SecondChancesOver \/ Replan \/ Abort
  PROVE  TypeOK'
<1>1. CASE NextGroup
  BY <1>1 DEF NextGroup, TypeOK, plans, outcome, record, Queue, KahnQueue, IsGroup
<1>2. CASE Finish
  BY <1>2 DEF Finish, TypeOK, plans, outcome, record
<1>3. CASE LaunchBatch
  <2>1. \A n \in Nodes : Launched(n, "first") \in ExecType
    BY LaunchedTyped DEF TypeOK, Turns
  <2>2. exec' \in [Nodes -> ExecType]
    BY <1>3, <2>1 DEF LaunchBatch, TypeOK
  <2>. QED
    BY <1>3, <2>2 DEF LaunchBatch, TypeOK, plans, outcome, record
<1>4. CASE SettleBatch
  BY <1>4 DEF SettleBatch, TypeOK, plans, record
<1>5. CASE SecondChancesOver
  BY <1>5 DEF SecondChancesOver, TypeOK, plans, outcome, record
<1>6. CASE Replan
  <2>1. Remaining \in SUBSET Nodes /\ RemainingDeps \in [Nodes -> SUBSET Nodes]
    BY DEF TypeOK, Remaining, RemainingDeps
  <2>2. replans' \in 0..MaxReplans
    BY <1>6 DEF Replan, TypeOK, ReplanDue, MaxReplans
  <2>. QED
    BY <1>6, <2>1, <2>2 DEF Replan, TypeOK, outcome, record
<1>7. CASE Abort
  BY <1>7, BoundsAssumption DEF Abort, Fault, TypeOK, plans, outcome
<1>. QED
  BY <1>1, <1>2, <1>3, <1>4, <1>5, <1>6, <1>7

LEMMA RecoverTyped ==
  ASSUME TypeOK, NEW n \in Nodes, Recover(n)
  PROVE  TypeOK'
<1>1. CASE RecoverSwap(n)
  <2>1. Launched(n, "second") \in ExecType
    BY LaunchedTyped DEF TypeOK, Turns
  <2>2. exec' \in [Nodes -> ExecType]
    BY <1>1, <2>1 DEF RecoverSwap, TypeOK
  <2>. QED
    BY <1>1, <2>2 DEF RecoverSwap, TypeOK, plans, outcome, record
<1>2. CASE RecoverSkip(n)
  <2>1. [row[n] EXCEPT !.status = "skipped", !.errorCode = "optional_subtask_dropped"]
          \in RowType
    BY DEF TypeOK, RowType, Reasons
  <2>2. /\ row' \in [Nodes -> RowType]
        /\ faults' \in 0..MaxFaults
    BY <1>2, <2>1, WriteRowTyped DEF RecoverSkip, MarkSkipped, TypeOK
  <2>. QED
    BY <1>2, <2>2 DEF RecoverSkip, MarkSkipped, TypeOK, plans
<1>3. CASE RecoverFail(n)
  BY <1>3 DEF RecoverFail, TypeOK, plans, outcome, record
<1>4. CASE RetrySettled(n)
  BY <1>4 DEF RetrySettled, TypeOK, plans, record
<1>. QED
  BY <1>1, <1>2, <1>3, <1>4 DEF Recover

LEMMA ReplanDueKept ==
  ASSUME TypeOK, ReplanDue, [Next]_vars
  PROVE  ReplanDue'
<1>1. CASE \E n \in Nodes : Examine(n)
  BY <1>1 DEF ReplanDue, Examine, PassOver, SkipUnavailable, SkipPastDeadline,
     SkipOptional, MakeRunnable, plans
<1>2. CASE \E n \in Nodes : Execute(n)
  BY <1>2 DEF ReplanDue, Execute, BeginSubTask, Answer, LoseResponse, RetryCall, GiveUp,
     AskSecondModel, KeepOnlyAnswer, LoseAnswer, untouchedByExec, plans, loop
<1>3. CASE \E n \in Nodes : Recover(n)
  BY <1>3 DEF ReplanDue, Recover, RecoverSwap, RecoverSkip, RecoverFail,
     RetrySettled, plans
<1>4. CASE \/ NextGroup \/ Finish \/ LaunchBatch \/ SettleBatch
           \/ SecondChancesOver \/ Replan \/ Abort
  BY <1>4 DEF ReplanDue, NextGroup, Finish, LaunchBatch, SettleBatch, plans,
     SecondChancesOver, WantsReplan, Replan, Abort
<1>5. CASE Tick
  BY <1>5 DEF ReplanDue, Tick, plans, loop
<1>6. CASE UNCHANGED vars
  BY <1>6 DEF ReplanDue, vars, plans, loop
<1>. QED
  BY <1>1, <1>2, <1>3, <1>4, <1>5, <1>6 DEF Next, Progress

\* The state stays well-typed, which includes that an attempt never exceeds
\* maxAttemptsPerSubtask and the re-plans never exceed two.
THEOREM TypeCorrect == Spec => []TypeOK
<1>1. Init => TypeOK /\ ReplanDue
  BY InitTyped DEF Init, ReplanDue
<1>2. TypeOK /\ ReplanDue /\ [Next]_vars => TypeOK' /\ ReplanDue'
  <2>. SUFFICES ASSUME TypeOK, ReplanDue, [Next]_vars
                PROVE  TypeOK'
    BY ReplanDueKept
  <2>1. CASE Tick
    BY <2>1 DEF Tick, TypeOK, plans, loop, outcome, record
  <2>2. CASE UNCHANGED vars
    BY <2>2 DEF vars, TypeOK, plans, loop, outcome, record
  <2>. QED
    BY <2>1, <2>2, ExamineTyped, ExecuteTyped, RecoverTyped, LoopTyped
       DEF Next, Progress
<1>. QED
  BY <1>1, <1>2, PTL DEF Spec
-----------------------------------------------------------------------------
(* Parts is inductive, given the types.                                    *)

LEMMA InitParts == Init => Parts
<1>. SUFFICES ASSUME Init PROVE Parts
  OBVIOUS
<1>1. plan.deps \in [Nodes -> SUBSET Nodes]
  BY PlanTyped DEF Init
<1>2. Coverage /\ Stages /\ VerdictsExclusive /\ EveryNodeAccountedFor
  BY DEF Init, Coverage, Stages, VerdictsExclusive, EveryNodeAccountedFor,
     Decided, Revisable
<1>3. Reached /\ Unrelied /\ Forgotten
  BY <1>1 DEF Init, Reached, Unrelied, Forgotten, Decided, Revisable
<1>4. Cancelled
  BY DEF Init, Cancelled
<1>. QED
  BY <1>2, <1>3, <1>4 DEF Parts

\* What runs of a node leave alone: everything but exec, the row's status
\* and answer, and what was bought.
LEMMA ExecuteFrame ==
  ASSUME TypeOK, NEW n \in Nodes, Execute(n)
  PROVE  /\ UNCHANGED <<plans, loop, outcome, clock>>
         /\ \A m \in Nodes : row'[m].errorCode = row[m].errorCode
<1>1. UNCHANGED <<plans, loop, outcome, clock>>
  BY DEF Execute, BeginSubTask, Answer, LoseResponse, RetryCall, GiveUp, AskSecondModel,
     KeepOnlyAnswer, LoseAnswer, untouchedByExec
<1>2. /\ row[n] \in RowType
      /\ \A s \in {"running", "failed"} :
           [row[n] EXCEPT !.status = s].errorCode = row[n].errorCode
      /\ \A a : [row[n] EXCEPT !.status = "completed", !.answer = a].errorCode
                = row[n].errorCode
  BY DEF TypeOK, RowType
<1>3. ASSUME NEW fields, fields.errorCode = row[n].errorCode, WriteRow(n, fields)
      PROVE  \A m \in Nodes : row'[m].errorCode = row[m].errorCode
  BY <1>3 DEF WriteRow, TypeOK
<1>4. \A m \in Nodes : row'[m].errorCode = row[m].errorCode
  <2>1. CASE BeginSubTask(n)
    BY <1>2, <1>3, <2>1 DEF BeginSubTask
  <2>2. CASE Answer(n)
    BY <1>2, <1>3, <2>2 DEF Answer
  <2>3. CASE GiveUp(n)
    BY <1>2, <1>3, <2>3 DEF GiveUp
  <2>4. CASE \/ LoseResponse(n) \/ RetryCall(n) \/ AskSecondModel(n)
             \/ KeepOnlyAnswer(n) \/ LoseAnswer(n)
    BY <2>4 DEF LoseResponse, RetryCall, AskSecondModel, KeepOnlyAnswer, LoseAnswer
  <2>. QED
    BY <2>1, <2>2, <2>3, <2>4 DEF Execute
<1>. QED
  BY <1>1, <1>4

\* A step that leaves the plan, the loop and the verdicts alone.
LEMMA FrameKeepsParts ==
  ASSUME Parts, UNCHANGED <<plans, loop, outcome>>,
         \A m \in Nodes : row'[m].errorCode = row[m].errorCode
  PROVE  Parts'
<1>1. /\ UNCHANGED <<plan, active, deps, replans, batched, group, runnable, justFailed, pc>>
      /\ UNCHANGED <<results, failed, skipped>>
      /\ Decided' = Decided
      /\ Revisable' = Revisable
  BY DEF plans, loop, outcome, Decided, Revisable
<1>2. Coverage' /\ Stages' /\ VerdictsExclusive' /\ EveryNodeAccountedFor'
  BY <1>1 DEF Parts, Coverage, Stages, VerdictsExclusive, EveryNodeAccountedFor
<1>3. Reached' /\ Unrelied' /\ Forgotten'
  BY <1>1 DEF Parts, Reached, Unrelied, Forgotten
<1>4. Cancelled'
  BY <1>1 DEF Parts, Cancelled
<1>. QED
  BY <1>2, <1>3, <1>4 DEF Parts

\* The nodes of the next group have decided dependencies: those inside the
\* active plan were batched, those outside it left it decided, and those a
\* re-plan forgot had failed.
LEMMA QueueReached ==
  ASSUME TypeOK, Parts, pc = "next", NEW n \in Queue
  PROVE  plan.deps[n] \subseteq Decided
<1>1. /\ n \in active
      /\ deps[n] \cap active \subseteq batched
      /\ n \in plan.nodes
      /\ n \in Nodes
  BY PlanTyped DEF Queue, KahnQueue, Parts, Coverage, TypeOK
<1>2. batched \subseteq Decided
  BY DEF Parts, Coverage, Stages
<1>3. plan.deps[n] \subseteq plan.nodes
  BY <1>1, PlanTyped DEF TypeOK
<1>4. ASSUME NEW d \in plan.deps[n]
      PROVE  d \in Decided
  <2>1. CASE d \notin deps[n]
    BY <1>1, <2>1 DEF Parts, Forgotten, Decided
  <2>2. CASE d \in deps[n] /\ d \in active
    BY <1>1, <1>2, <2>2
  <2>3. CASE d \in deps[n] /\ d \notin active
    BY <1>3, <2>3 DEF Parts, Coverage, Decided
  <2>. QED
    BY <2>1, <2>2, <2>3
<1>. QED
  BY <1>4

LEMMA NextGroupKeepsParts ==
  ASSUME TypeOK, Parts, NextGroup
  PROVE  Parts'
<1>1. /\ UNCHANGED <<plan, active, deps, runnable, justFailed, results, failed, skipped, row>>
      /\ pc = "next" /\ pc' = "examine"
      /\ group' \subseteq Queue
      /\ batched' = batched \cup group'
      /\ runnable = {}
      /\ Decided' = Decided
      /\ Revisable = {} /\ Revisable' = {}
  BY DEF NextGroup, IsGroup, plans, outcome, record, Decided, Revisable, Parts, Stages
<1>2. group' \subseteq active /\ group' \subseteq plan.nodes
  BY <1>1 DEF Queue, KahnQueue, Parts, Coverage
<1>3. Coverage' /\ Stages'
  BY <1>1, <1>2 DEF Parts, Coverage, Stages
<1>4. Reached'
  BY <1>1, QueueReached DEF Parts, Reached
<1>5. Unrelied' /\ Forgotten' /\ Cancelled' /\ VerdictsExclusive' /\ EveryNodeAccountedFor'
  BY <1>1 DEF Parts, Unrelied, Forgotten, Cancelled, VerdictsExclusive,
     EveryNodeAccountedFor
<1>. QED
  BY <1>3, <1>4, <1>5 DEF Parts

\* An empty queue means nothing of the active plan is left: otherwise the
\* rest would be a part of the plan in which every node waits on another.
LEMMA FinishKeepsParts ==
  ASSUME TypeOK, Parts, Finish
  PROVE  Parts'
<1>1. /\ UNCHANGED <<plan, active, deps, batched, group, runnable, justFailed,
                    results, failed, skipped, row>>
      /\ pc = "next" /\ pc' = "done" /\ Queue = {}
      /\ group = {} /\ runnable = {}
      /\ Decided' = Decided
      /\ Revisable = {} /\ Revisable' = {}
  BY DEF Finish, plans, outcome, record, Decided, Revisable, Parts, Stages
<1>2. active \subseteq batched
  <2>. DEFINE rest == active \ batched
  <2>1. SUFFICES ASSUME rest # {} PROVE FALSE
    OBVIOUS
  <2>2. rest \in SUBSET plan.nodes
    BY DEF Parts, Coverage
  <2>3. PICK n \in rest : plan.deps[n] \cap rest = {}
    BY <2>1, <2>2, PlanTyped DEF TypeOK, Acyclic
  <2>4. n \in Nodes
    BY <2>2, PlanTyped DEF TypeOK
  <2>5. deps[n] \cap active \subseteq batched
    BY <2>3, <2>4 DEF Parts, Forgotten
  <2>. QED
    BY <1>1, <2>5 DEF Queue, KahnQueue
<1>3. EveryNodeAccountedFor'
  BY <1>1, <1>2 DEF Parts, Coverage, EveryNodeAccountedFor
<1>4. Coverage' /\ Stages' /\ VerdictsExclusive'
  BY <1>1 DEF Parts, Coverage, Stages, VerdictsExclusive
<1>5. Reached' /\ Unrelied' /\ Forgotten' /\ Cancelled'
  BY <1>1 DEF Parts, Reached, Unrelied, Forgotten, Cancelled
<1>. QED
  BY <1>3, <1>4, <1>5 DEF Parts

LEMMA LaunchBatchKeepsParts ==
  ASSUME Parts, LaunchBatch
  PROVE  Parts'
<1>1. /\ UNCHANGED <<plan, active, deps, batched, group, runnable, justFailed,
                    results, failed, skipped, row>>
      /\ pc = "examine" /\ pc' = IF runnable = {} THEN "next" ELSE "run"
      /\ group = {}
      /\ Decided' = Decided
      /\ Revisable = {} /\ Revisable' = {}
  BY DEF LaunchBatch, plans, outcome, record, Decided, Revisable, Parts, Stages
<1>2. Coverage' /\ Stages' /\ VerdictsExclusive' /\ EveryNodeAccountedFor'
  BY <1>1 DEF Parts, Coverage, Stages, VerdictsExclusive, EveryNodeAccountedFor
<1>3. Reached' /\ Unrelied' /\ Forgotten' /\ Cancelled'
  BY <1>1 DEF Parts, Reached, Unrelied, Forgotten, Cancelled
<1>. QED
  BY <1>2, <1>3 DEF Parts

\* A batch is undecided until it settles, so nothing decided relies on the
\* failures it brings, and none of them had been forgotten.
LEMMA SettleBatchKeepsParts ==
  ASSUME Parts, SettleBatch
  PROVE  Parts'
<1>. DEFINE fulfilled == { n \in runnable : exec[n].stage = "ok" }
            rejected  == runnable \ fulfilled
<1>1. /\ UNCHANGED <<plan, active, deps, batched, group, skipped, row>>
      /\ pc = "run"
      /\ pc' = IF rejected = {} THEN "next" ELSE "recover"
      /\ results' = results \cup fulfilled
      /\ failed' = failed \cup rejected
      /\ justFailed' = rejected
      /\ runnable' = {} /\ group = {}
      /\ Revisable = {} /\ Revisable' = rejected
  BY DEF SettleBatch, plans, record, Revisable, Parts, Stages
<1>2. /\ fulfilled \cup rejected = runnable
      /\ fulfilled \cap rejected = {}
      /\ Decided' = Decided \cup runnable
      /\ runnable \cap Decided = {}
  BY <1>1 DEF Decided, Parts, Stages
<1>. HIDE DEF fulfilled, rejected
<1>3. Coverage' /\ Stages' /\ EveryNodeAccountedFor'
  BY <1>1, <1>2 DEF Parts, Coverage, Stages, EveryNodeAccountedFor
<1>4. VerdictsExclusive'
  BY <1>1, <1>2 DEF Parts, VerdictsExclusive, Decided
<1>5. Reached'
  BY <1>1, <1>2 DEF Parts, Reached
<1>6. Unrelied'
  BY <1>1, <1>2 DEF Parts, Reached, Unrelied
<1>7. Forgotten'
  BY <1>1, <1>2 DEF Parts, Forgotten, Decided
<1>8. Cancelled'
  <2>. SUFFICES ASSUME NEW n \in Nodes, row[n].errorCode = "dependency_unavailable"
                PROVE  n \in skipped /\ plan.deps[n] # {} /\ plan.deps[n] \cap results' = {}
    BY <1>1 DEF Cancelled
  <2>1. n \in skipped /\ plan.deps[n] # {} /\ plan.deps[n] \cap results = {}
    BY DEF Parts, Cancelled
  <2>2. plan.deps[n] \subseteq Decided
    BY <2>1 DEF Parts, Reached, Decided
  <2>. QED
    BY <1>1, <1>2, <2>1, <2>2
<1>. QED
  BY <1>3, <1>4, <1>5, <1>6, <1>7, <1>8 DEF Parts

\* A node is skipped, or joins the batch, while the batch is formed.
LEMMA SkipKeepsParts ==
  ASSUME TypeOK, Parts, NEW n \in group \ Decided, NEW reason \in Reasons,
         pc = "examine", MarkSkipped(n, reason), group' = group \ {n},
         UNCHANGED <<plan, active, deps, batched, runnable, justFailed, pc,
                     results, failed>>,
         reason = "dependency_unavailable" => ~DependenciesAllow(n)
  PROVE  Parts'
<1>1. /\ n \in Nodes
      /\ skipped' = skipped \cup {n}
      /\ Decided' = Decided \cup {n}
      /\ Revisable = {} /\ Revisable' = {}
      /\ n \notin runnable /\ n \in plan.nodes
      /\ plan.deps[n] \subseteq Decided
  BY PlanTyped DEF MarkSkipped, Decided, Revisable, Parts, Stages, Coverage,
     Reached, TypeOK
<1>2. Coverage' /\ EveryNodeAccountedFor'
  BY <1>1 DEF Parts, Coverage, EveryNodeAccountedFor
<1>3. Stages' /\ VerdictsExclusive'
  BY <1>1 DEF Parts, Stages, VerdictsExclusive, Decided
<1>4. Reached' /\ Unrelied' /\ Forgotten'
  BY <1>1 DEF Parts, Reached, Unrelied, Forgotten
<1>5. Cancelled'
  <2>1. \A m \in Nodes \ {n} : row'[m] = row[m]
    BY DEF MarkSkipped, WriteRow, TypeOK
  <2>2. row'[n].errorCode \in {reason, row[n].errorCode}
    <3>1. row[n] \in RowType
      BY <1>1 DEF TypeOK
    <3>2. [row[n] EXCEPT !.status = "skipped", !.errorCode = reason].errorCode = reason
      BY <3>1 DEF RowType
    <3>. QED
      BY <1>1, <3>2 DEF MarkSkipped, WriteRow, TypeOK
  <2>3. row[n].errorCode # "dependency_unavailable"
    BY <1>1 DEF Parts, Cancelled, Decided
  <2>4. reason = "dependency_unavailable" =>
          plan.deps[n] # {} /\ plan.deps[n] \cap results = {}
    <3>. SUFFICES ASSUME ~DependenciesAllow(n)
                  PROVE  plan.deps[n] # {} /\ plan.deps[n] \cap results = {}
      OBVIOUS
    <3>1. deps[n] \subseteq plan.deps[n] /\ plan.deps[n] \ deps[n] \subseteq failed
      BY <1>1 DEF Parts, Forgotten
    <3>2. Unmet(n) \subseteq failed \cup skipped
      BY <1>1, <3>1 DEF Unmet, Decided
    <3>3. deps[n] # {} /\ deps[n] \cap results = {}
      BY <3>2 DEF DependenciesAllow, CanDegrade, Unmet
    <3>. QED
      BY <3>1, <3>3 DEF Parts, VerdictsExclusive
  <2>. QED
    BY <1>1, <2>1, <2>2, <2>3, <2>4 DEF Parts, Cancelled
<1>. QED
  BY <1>2, <1>3, <1>4, <1>5 DEF Parts

LEMMA ExamineKeepsParts ==
  ASSUME TypeOK, Parts, NEW n \in Nodes, Examine(n)
  PROVE  Parts'
<1>1. CASE PassOver(n) \/ MakeRunnable(n)
  <2>1. /\ UNCHANGED <<plan, active, deps, batched, justFailed, pc, results,
                       failed, skipped, row>>
        /\ pc = "examine" /\ n \in group /\ group' = group \ {n}
        /\ \/ n \in Decided /\ runnable' = runnable
           \/ n \notin Decided /\ runnable' = runnable \cup {n}
        /\ Decided' = Decided
        /\ Revisable = {} /\ Revisable' = {} /\ justFailed = {}
    BY <1>1 DEF PassOver, MakeRunnable, plans, outcome, record, Decided,
       Revisable, Parts, Stages
  <2>2. Coverage' /\ Stages' /\ VerdictsExclusive' /\ EveryNodeAccountedFor'
    BY <2>1 DEF Parts, Coverage, Stages, VerdictsExclusive, EveryNodeAccountedFor
  <2>3. Reached' /\ Unrelied' /\ Forgotten' /\ Cancelled'
    BY <2>1 DEF Parts, Reached, Unrelied, Forgotten, Cancelled
  <2>. QED
    BY <2>2, <2>3 DEF Parts
<1>2. CASE SkipUnavailable(n)
  BY <1>2, SkipKeepsParts DEF SkipUnavailable, plans, Reasons
<1>3. CASE SkipPastDeadline(n)
  BY <1>3, SkipKeepsParts DEF SkipPastDeadline, plans, Reasons
<1>4. CASE SkipOptional(n)
  BY <1>4, SkipKeepsParts DEF SkipOptional, plans, Reasons
<1>. QED
  BY <1>1, <1>2, <1>3, <1>4 DEF Examine

\* The second chance moves only revisable failures, on which nothing decided
\* relies and which no re-plan forgot.
LEMMA RecoverKeepsParts ==
  ASSUME TypeOK, Parts, NEW n \in Nodes, Recover(n)
  PROVE  Parts'
<1>1. CASE RecoverSwap(n) \/ RecoverFail(n)
  <2>1. /\ UNCHANGED <<plan, active, deps, batched, group, results, failed,
                       skipped, row>>
        /\ pc = "recover" /\ n \in justFailed /\ justFailed' = justFailed \ {n}
        /\ \/ runnable' = {n} /\ pc' = "retry"
           \/ runnable' = {} /\ pc' = "recover"
        /\ group = {} /\ runnable = {}
        /\ Decided' = Decided
        /\ Revisable = justFailed /\ justFailed \subseteq failed
        /\ Revisable' \subseteq Revisable
        /\ n \in Decided
    BY <1>1 DEF RecoverSwap, RecoverFail, plans, outcome, record, Decided,
       Revisable, Parts, Stages
  <2>2. n \in plan.nodes
    BY <2>1 DEF Parts, Coverage
  <2>3. Coverage' /\ Stages' /\ VerdictsExclusive' /\ EveryNodeAccountedFor'
    BY <2>1, <2>2 DEF Parts, Coverage, Stages, VerdictsExclusive,
       EveryNodeAccountedFor
  <2>4. Reached' /\ Unrelied' /\ Forgotten' /\ Cancelled'
    BY <2>1 DEF Parts, Reached, Unrelied, Forgotten, Cancelled
  <2>. QED
    BY <2>3, <2>4 DEF Parts
<1>2. CASE RecoverSkip(n)
  <2>1. /\ UNCHANGED <<plan, active, deps, batched, group, runnable, pc, results>>
        /\ pc = "recover" /\ n \in justFailed /\ justFailed' = justFailed \ {n}
        /\ failed' = failed \ {n} /\ skipped' = skipped \cup {n}
        /\ group = {} /\ runnable = {}
        /\ n \in failed
        /\ Revisable = justFailed /\ Revisable' = Revisable \ {n}
        /\ Revisable \subseteq failed
    BY <1>2 DEF RecoverSkip, MarkSkipped, plans, Revisable, Parts, Stages
  <2>2. Decided' = Decided
    BY <2>1 DEF Decided
  <2>3. Coverage' /\ Stages' /\ VerdictsExclusive' /\ EveryNodeAccountedFor'
    BY <2>1, <2>2 DEF Parts, Coverage, Stages, VerdictsExclusive,
       EveryNodeAccountedFor
  <2>4. Reached' /\ Unrelied' /\ Forgotten'
    BY <2>1, <2>2 DEF Parts, Reached, Unrelied, Forgotten
  <2>5. Cancelled'
    <3>1. \A m \in Nodes \ {n} : row'[m] = row[m]
      BY <1>2 DEF RecoverSkip, MarkSkipped, WriteRow, TypeOK
    <3>2. row'[n].errorCode \in {"optional_subtask_dropped", row[n].errorCode}
      <4>1. row[n] \in RowType
        BY DEF TypeOK
      <4>2. [row[n] EXCEPT !.status = "skipped",
                           !.errorCode = "optional_subtask_dropped"].errorCode
              = "optional_subtask_dropped"
        BY <4>1 DEF RowType
      <4>. QED
        BY <1>2, <4>2 DEF RecoverSkip, MarkSkipped, WriteRow, TypeOK
    <3>. QED
      BY <2>1, <3>1, <3>2 DEF Parts, Cancelled
  <2>. QED
    BY <2>3, <2>4, <2>5 DEF Parts
<1>3. CASE RetrySettled(n)
  <2>1. /\ UNCHANGED <<plan, active, deps, batched, group, justFailed, skipped, row>>
        /\ pc = "retry" /\ pc' = "recover" /\ n \in runnable /\ runnable' = {}
        /\ \/ results' = results \cup {n} /\ failed' = failed \ {n}
           \/ results' = results /\ failed' = failed
        /\ group = {} /\ n \notin justFailed
        /\ Revisable = justFailed \cup runnable /\ Revisable \subseteq failed
        /\ Revisable' = justFailed
        /\ n \in failed
    BY <1>3 DEF RetrySettled, plans, record, Revisable, Parts, Stages
  <2>2. Decided' = Decided /\ runnable \subseteq Decided
    BY <2>1 DEF Decided
  <2>3. Coverage' /\ Stages' /\ VerdictsExclusive' /\ EveryNodeAccountedFor'
    BY <2>1, <2>2 DEF Parts, Coverage, Stages, VerdictsExclusive,
       EveryNodeAccountedFor
  <2>4. Reached' /\ Unrelied' /\ Forgotten'
    BY <2>1, <2>2 DEF Parts, Reached, Unrelied, Forgotten
  <2>5. Cancelled'
    BY <2>1 DEF Parts, Cancelled, Unrelied, Decided
  <2>. QED
    BY <2>3, <2>4, <2>5 DEF Parts
<1>. QED
  BY <1>1, <1>2, <1>3 DEF Recover

\* A re-plan drops only dependencies on failures, all of them final by then.
LEMMA ReplanKeepsParts ==
  ASSUME TypeOK, Parts, SecondChancesOver \/ Replan \/ Abort
  PROVE  Parts'
<1>1. /\ UNCHANGED <<plan, group, runnable, results, failed, skipped, row>>
      /\ pc \in {"recover", "replan"}
      /\ pc' \in {"replan", "next", "aborted"}
      /\ group = {} /\ runnable = {}
      /\ Decided' = Decided
      /\ Revisable = justFailed /\ Revisable' = justFailed'
      /\ \/ justFailed' = {}
         \/ justFailed' = justFailed /\ pc' = "aborted"
  BY DEF SecondChancesOver, Replan, Abort, plans, outcome, record, Decided,
     Revisable, Parts, Stages
<1>2. \/ UNCHANGED <<active, deps, batched>>
      \/ /\ active' = active \ (results \cup failed) /\ batched' = {}
         /\ \A m \in Nodes : deps'[m] \subseteq deps[m] /\ deps[m] \ deps'[m] \subseteq failed
         /\ justFailed' = {}
  BY DEF SecondChancesOver, Replan, Abort, plans, Remaining, RemainingDeps,
     Parts, Stages
<1>3. Coverage'
  BY <1>1, <1>2 DEF Parts, Coverage, Decided
<1>4. Stages' /\ VerdictsExclusive' /\ EveryNodeAccountedFor'
  BY <1>1 DEF Parts, Stages, VerdictsExclusive, EveryNodeAccountedFor
<1>5. Reached' /\ Unrelied' /\ Cancelled'
  BY <1>1 DEF Parts, Reached, Unrelied, Cancelled
<1>6. Forgotten'
  BY <1>1, <1>2 DEF Parts, Forgotten
<1>. QED
  BY <1>3, <1>4, <1>5, <1>6 DEF Parts

LEMMA StepKeepsParts ==
  ASSUME TypeOK, Parts, [Next]_vars
  PROVE  Parts'
<1>1. CASE \E n \in Nodes : Execute(n)
  BY <1>1, ExecuteFrame, FrameKeepsParts
<1>2. CASE Tick
  BY <1>2, FrameKeepsParts DEF Tick, record
<1>3. CASE UNCHANGED vars
  BY <1>3, FrameKeepsParts DEF vars, record
<1>. QED
  BY <1>1, <1>2, <1>3, NextGroupKeepsParts, FinishKeepsParts,
     LaunchBatchKeepsParts, SettleBatchKeepsParts, ExamineKeepsParts,
     RecoverKeepsParts, ReplanKeepsParts DEF Next, Progress

LEMMA Inductive == Spec => []Parts
<1>1. TypeOK /\ Parts /\ [Next]_vars => Parts'
  BY StepKeepsParts
<1>. QED
  BY <1>1, InitParts, TypeCorrect, PTL DEF Spec
-----------------------------------------------------------------------------
(* The safety properties, for every plan.                                  *)

\* A node never has two verdicts, so `partial' and the telemetry count each
\* node once.
THEOREM VerdictsStayExclusive == Spec => []VerdictsExclusive
<1>1. Parts => VerdictsExclusive
  BY DEF Parts
<1>. QED
  BY <1>1, Inductive, PTL

\* A schedule that returns has a verdict for every node of the plan it was
\* given, however many re-plans cut the graph down in between.
THEOREM NodesAccountedFor == Spec => []EveryNodeAccountedFor
<1>1. Parts => EveryNodeAccountedFor
  BY DEF Parts
<1>. QED
  BY <1>1, Inductive, PTL

\* No node is started, or decided, before everything it was planned to
\* depend on was decided.
THEOREM OrderRespected == Spec => []DependenciesDecidedFirst
<1>1. Parts => DependenciesDecidedFirst
  BY DEF Parts, Reached, DependenciesDecidedFirst
<1>. QED
  BY <1>1, Inductive, PTL

\* A failure cancels nothing but what depended on it and had no other input.
THEOREM CancellationsJustified == Spec => []CancelledOnlyByUpstream
<1>1. Parts => CancelledOnlyByUpstream
  BY DEF Parts, Cancelled, CancelledOnlyByUpstream
<1>. QED
  BY <1>1, Inductive, PTL
-----------------------------------------------------------------------------
(* The schedule implements the ledger of verdicts.                         *)

LEMMA VerdictSays ==
  ASSUME VerdictsExclusive, NEW n
  PROVE  /\ Verdict(n) \in {"pending", "succeeded", "failed", "skipped"}
         /\ Verdict(n) = "succeeded" <=> n \in results
         /\ Verdict(n) = "failed"    <=> n \in failed
         /\ Verdict(n) = "skipped"   <=> n \in skipped
         /\ Verdict(n) = "pending"   <=> n \notin Decided
BY DEF Verdict, VerdictsExclusive, Decided

\* What one step may do to the verdict of a node.
Kept(n) ==
  /\ n \in results' <=> n \in results
  /\ n \in failed'  <=> n \in failed
  /\ n \in skipped' <=> n \in skipped
Given(n) == n \notin Decided /\ plan.deps[n] \subseteq Decided
Revised(n) ==
  /\ n \in failed /\ n \notin failed' /\ n \in results' \cup skipped'
  /\ \A m \in plan.nodes : n \in plan.deps[m] => m \notin Decided

LEMMA DecideStep ==
  ASSUME TypeOK, VerdictsExclusive, VerdictsExclusive',
         plan' = plan, pc \notin {"done", "aborted"}, pc' \notin {"done", "aborted"},
         \A n \in Nodes : Kept(n) \/ Given(n) \/ Revised(n)
  PROVE  Ledger!Decide
<1>1. /\ plan.nodes \subseteq Nodes
      /\ \A n \in Nodes : plan.deps[n] \subseteq Nodes
  BY PlanTyped DEF TypeOK
<1>2. \A n \in Nodes : Ledger!Decided(n) <=> n \in Decided
  BY VerdictSays DEF Ledger!Decided
<1>3. \A n \in Nodes : Verdict(n)' \in Ledger!Verdicts
  BY DEF Verdict, Ledger!Verdicts
<1>4. ASSUME NEW n \in Nodes
      PROVE  Ledger!MayBecome(n, Verdict(n)')
  <2>1. CASE Kept(n)
    <3>1. Verdict(n)' = Verdict(n)
      BY <2>1 DEF Kept, Verdict
    <3>. QED
      BY <3>1 DEF Ledger!MayBecome
  <2>2. CASE Given(n)
    <3>1. Verdict(n) = "pending"
      BY <2>2, VerdictSays DEF Given
    <3>2. \A d \in plan.deps[n] : Ledger!Decided(d)
      BY <1>1, <1>2, <2>2 DEF Given
    <3>. QED
      BY <1>3, <3>1, <3>2 DEF Ledger!MayBecome
  <2>3. CASE Revised(n)
    <3>1. Verdict(n) = "failed"
      BY <2>3, VerdictSays DEF Revised
    <3>2. Verdict(n)' \in {"succeeded", "skipped"}
      BY <2>3 DEF Revised, Verdict
    <3>3. Ledger!NobodyReliesOn(n)
      BY <1>1, <1>2, <2>3 DEF Revised, Ledger!NobodyReliesOn
    <3>. QED
      BY <3>1, <3>2, <3>3 DEF Ledger!MayBecome
  <2>. QED
    BY <2>1, <2>2, <2>3
<1>. QED
  BY <1>3, <1>4 DEF Ledger!Decide

LEMMA InitRefines == Init => Ledger!Init
BY DEF Init, Verdict, Ledger!Init

LEMMA StepRefines ==
  ASSUME TypeOK, Parts, Parts', [Next]_vars
  PROVE  [Ledger!Next]_<<plan, [n \in Nodes |-> Verdict(n)],
                         CASE pc = "done"    -> "closed"
                           [] pc = "aborted" -> "aborted"
                           [] OTHER          -> "open">>
<1>. DEFINE Phase == CASE pc = "done"    -> "closed"
                       [] pc = "aborted" -> "aborted"
                       [] OTHER          -> "open"
            Verdicts == [n \in Nodes |-> Verdict(n)]
            Open  == pc \notin {"done", "aborted"}
<1>1. VerdictsExclusive /\ VerdictsExclusive'
  BY DEF Parts
<1>2. ASSUME UNCHANGED <<plan, results, failed, skipped>>
      PROVE  UNCHANGED <<plan, Verdicts>>
  BY <1>2 DEF Verdict
<1>3. ASSUME UNCHANGED <<plan, results, failed, skipped>>, Open, Open'
      PROVE  UNCHANGED <<plan, Verdicts, Phase>>
  BY <1>2, <1>3
<1>4. CASE \E n \in Nodes : Execute(n)
  BY <1>3, <1>4, ExecuteFrame DEF plans, loop, outcome, Execute, BeginSubTask,
     Answer, LoseResponse, RetryCall, GiveUp, AskSecondModel, KeepOnlyAnswer,
     LoseAnswer, InFlight, Attempted
<1>5. CASE \E n \in Nodes : PassOver(n) \/ MakeRunnable(n) \/ RecoverSwap(n) \/ RecoverFail(n)
  BY <1>3, <1>5 DEF PassOver, MakeRunnable, RecoverSwap, RecoverFail, plans, outcome
<1>6. CASE NextGroup \/ LaunchBatch \/ SecondChancesOver \/ Replan
  BY <1>3, <1>6 DEF NextGroup, LaunchBatch, SecondChancesOver, Replan, plans, outcome
<1>7. CASE Tick \/ UNCHANGED vars
  <2>1. UNCHANGED <<plan, results, failed, skipped, pc>>
    BY <1>7 DEF Tick, vars, plans, loop, outcome
  <2>. QED
    BY <1>2, <2>1
<1>8. CASE Finish
  <2>1. UNCHANGED <<plan, results, failed, skipped>> /\ pc = "next" /\ pc' = "done"
    BY <1>8 DEF Finish, plans, outcome
  <2>2. plan.nodes \subseteq Decided
    BY <2>1 DEF Parts, EveryNodeAccountedFor, Decided
  <2>3. \A n \in plan.nodes : Ledger!Decided(n)
    BY <1>1, <2>2, VerdictSays, PlanTyped DEF Ledger!Decided, TypeOK
  <2>4. Ledger!Close
    BY <1>2, <2>1, <2>3 DEF Ledger!Close
  <2>. QED
    BY <2>4 DEF Ledger!Next
<1>9. CASE Abort
  <2>1. /\ UNCHANGED <<plan, results, failed, skipped>>
        /\ pc \in {"recover", "replan"} /\ pc' = "aborted"
    BY <1>9 DEF Abort, plans, outcome
  <2>2. Ledger!Abort
    BY <1>2, <2>1 DEF Ledger!Abort
  <2>. QED
    BY <2>2 DEF Ledger!Next
<1>10. CASE SettleBatch
  <2>. DEFINE fulfilled == { n \in runnable : exec[n].stage = "ok" }
  <2>1. /\ plan' = plan /\ skipped' = skipped /\ Open /\ Open'
        /\ results' = results \cup fulfilled
        /\ failed' = failed \cup (runnable \ fulfilled)
        /\ fulfilled \subseteq runnable
        /\ pc = "run"
    BY <1>10 DEF SettleBatch, plans
  <2>. HIDE DEF fulfilled
  <2>2. \A n \in runnable : Given(n)
    BY <2>1 DEF Parts, Stages, Reached, Given
  <2>3. \A n \in Nodes \ runnable : Kept(n)
    BY <2>1 DEF Kept
  <2>4. Ledger!Decide
    BY <1>1, <2>1, <2>2, <2>3, DecideStep
  <2>. QED
    BY <2>4 DEF Ledger!Next
<1>11. CASE \E n \in Nodes : SkipUnavailable(n) \/ SkipPastDeadline(n) \/ SkipOptional(n)
  <2>1. PICK n \in Nodes : SkipUnavailable(n) \/ SkipPastDeadline(n) \/ SkipOptional(n)
    BY <1>11
  <2>2. /\ UNCHANGED <<plan, results, failed, pc>>
        /\ skipped' = skipped \cup {n}
        /\ pc = "examine" /\ n \in group \ Decided
    BY <2>1 DEF SkipUnavailable, SkipPastDeadline, SkipOptional, MarkSkipped, plans
  <2>3. Given(n)
    BY <2>2 DEF Parts, Reached, Given
  <2>4. \A m \in Nodes \ {n} : Kept(m)
    BY <2>2 DEF Kept
  <2>5. Ledger!Decide
    BY <1>1, <2>2, <2>3, <2>4, DecideStep
  <2>. QED
    BY <2>5 DEF Ledger!Next
<1>12. CASE \E n \in Nodes : RecoverSkip(n) \/ RetrySettled(n)
  <2>1. PICK n \in Nodes : RecoverSkip(n) \/ RetrySettled(n)
    BY <1>12
  <2>2. /\ plan' = plan /\ Open /\ Open'
        /\ n \in Revisable
        /\ \/ UNCHANGED <<results, failed, skipped>>
           \/ failed' = failed \ {n} /\ skipped' = skipped \cup {n} /\ results' = results
           \/ failed' = failed \ {n} /\ results' = results \cup {n} /\ skipped' = skipped
    BY <2>1 DEF RecoverSkip, RetrySettled, MarkSkipped, plans, Revisable
  <2>3. Revised(n) \/ Kept(n)
    BY <2>2, PlanTyped DEF Revised, Kept, Parts, Unrelied, Stages, TypeOK
  <2>4. \A m \in Nodes \ {n} : Kept(m)
    BY <2>2 DEF Kept
  <2>5. Ledger!Decide
    BY <1>1, <2>2, <2>3, <2>4, DecideStep
  <2>. QED
    BY <2>5 DEF Ledger!Next
<1>. QED
  BY <1>4, <1>5, <1>6, <1>7, <1>8, <1>9, <1>10, <1>11, <1>12
     DEF Next, Progress, Examine, Recover

\* Whatever models, keys and clocks do, a schedule is a run of the ledger:
\* verdicts come in dependency order, a failure is revised only while
\* nothing relies on it, and the ledger closes complete.
THEOREM ImplementsLedger == Spec => LedgerSpec
<1>1. TypeOK /\ Parts /\ Parts' /\ [Next]_vars =>
        [Ledger!Next]_<<plan, [n \in Nodes |-> Verdict(n)],
                        CASE pc = "done"    -> "closed"
                          [] pc = "aborted" -> "aborted"
                          [] OTHER          -> "open">>
  BY StepRefines
<1>. QED
  BY <1>1, InitRefines, Inductive, TypeCorrect, PTL DEF Spec, LedgerSpec, Ledger!Spec
-----------------------------------------------------------------------------
(* A node is started at most twice.                                        *)

\* A step of the loop that starts nothing.
LEMMA LoopKeepsTurning ==
  ASSUME Turning, exec' = exec, Decided \subseteq Decided',
         pc \notin {"run", "retry"}, pc' \notin {"run", "retry"},
         justFailed' \subseteq justFailed
  PROVE  Turning'
BY DEF Turning, Running

\* A step of one run of a node in the batch.
LEMMA ExecuteKeepsTurning ==
  ASSUME TypeOK, Parts, Turning, NEW n \in Nodes, Execute(n)
  PROVE  /\ Turning'
         /\ \A m \in Nodes : exec[m].stage # "begin" /\ exec'[m].stage = "begin" =>
              exec[m].turn = "first" /\ exec'[m].turn = "second"
<1>1. /\ UNCHANGED <<plan, runnable, justFailed, pc>>
      /\ Decided' = Decided
      /\ exec \in [Nodes -> ExecType]
      /\ pc \in {"run", "retry"}
  BY ExecuteFrame DEF plans, loop, outcome, Decided, TypeOK, Execute, InFlight, Attempted,
     BeginSubTask, Answer, LoseResponse, RetryCall, GiveUp, AskSecondModel, KeepOnlyAnswer, LoseAnswer
<1>2. exec[n].stage \in Running /\ n \in runnable
  BY DEF Execute, InFlight, Attempted, Running, Turning, BeginSubTask,
     Answer, LoseResponse, RetryCall,
     GiveUp, AskSecondModel, KeepOnlyAnswer, LoseAnswer
<1>3. exec[n].turn # "none" /\ (pc = "retry" => exec[n].turn = "second")
  BY <1>1, <1>2 DEF Turning
<1>4. exec[n].turn \in {"first", "second"}
  BY <1>1, <1>3, ExecRange
<1>5. \E stage \in {"ok", "err", "begin", "call", "lost", "fallback"}, attempt \in 0..MaxAttempts,
         turn \in Turns, kept \in Turns :
        /\ exec' = [exec EXCEPT ![n] = Stand(stage, attempt, turn, kept)]
        /\ \/ turn = exec[n].turn /\ stage # "begin"
           \/ turn = "second" /\ stage = "begin" /\ pc = "run" /\ exec[n].turn = "first"
        /\ stage = "fallback" => pc = "run" /\ exec[n].turn = "first"
        /\ stage = "err" => ~SecondOpinion(n)
  <2>0. /\ exec[n].attempt \in 0..MaxAttempts /\ exec[n].turn \in Turns
        /\ exec[n].kept \in Turns
        /\ {"first", "second"} \subseteq Turns
        /\ 0 \in 0..MaxAttempts /\ 1 \in 0..MaxAttempts
    BY <1>1, ExecRange, BoundsAssumption DEF Turns
  <2>1. CASE Throw(n)
    BY <2>0, <2>1 DEF Throw
  <2>2. CASE Return(n)
    BY <1>4, <2>0, <2>2 DEF Return, SecondOpinion
  <2>3. CASE BeginSubTask(n)
    BY <2>0, <2>1, <2>3 DEF BeginSubTask
  <2>4. CASE Answer(n)
    BY <2>2, <2>4 DEF Answer
  <2>5. CASE RetryCall(n)
    <3>1. exec[n].attempt + 1 \in 0..MaxAttempts
      BY <2>0, <2>5, BoundsAssumption DEF RetryCall, AttemptsLeft
    <3>. QED
      BY <2>0, <2>5, <3>1 DEF RetryCall
  <2>6. CASE GiveUp(n)
    BY <2>1, <2>6 DEF GiveUp
  <2>8. CASE LoseResponse(n)
    BY <2>0, <2>8 DEF LoseResponse
  <2>7. CASE AskSecondModel(n) \/ KeepOnlyAnswer(n) \/ LoseAnswer(n)
    <3>1. exec[n].stage = "fallback" /\ exec[n].turn = "first" /\ pc = "run"
      BY <2>7 DEF AskSecondModel, KeepOnlyAnswer, LoseAnswer, InFlight, Attempted, Turning
    <3>. QED
      BY <2>0, <2>7, <3>1 DEF AskSecondModel, KeepOnlyAnswer, LoseAnswer,
         Launched, SecondOpinion
  <2>. QED
    BY <2>3, <2>4, <2>5, <2>6, <2>7, <2>8 DEF Execute
<1>6. PICK stage \in {"ok", "err", "begin", "call", "lost", "fallback"}, turn \in Turns :
        /\ exec'[n].stage = stage /\ exec'[n].turn = turn
        /\ \A m \in Nodes \ {n} : exec'[m] = exec[m]
        /\ \/ turn = exec[n].turn /\ stage # "begin"
           \/ turn = "second" /\ stage = "begin" /\ pc = "run" /\ exec[n].turn = "first"
        /\ stage = "fallback" => pc = "run" /\ exec[n].turn = "first"
        /\ stage = "err" => ~SecondOpinion(n)
  BY <1>1, <1>5 DEF Stand
<1>7. n \notin justFailed \/ turn = exec[n].turn
  BY <1>1, <1>6 DEF Parts, Stages
<1>8. Turning'
  BY <1>1, <1>2, <1>3, <1>6, <1>7 DEF Turning, Running, SecondOpinion
<1>. QED
  BY <1>6, <1>8

\* Each step either starts nothing, or starts what TwoRunsAtMost allows.
Starts(n) ==
  exec[n].stage # "begin" /\ exec'[n].stage = "begin" =>
    \/ exec[n].turn = "none"
    \/ exec[n].turn = "first" /\ exec'[n].turn = "second"

LEMMA StepKeepsTurning ==
  ASSUME TypeOK, Parts, Turning, [Next]_vars
  PROVE  Turning' /\ \A n \in Nodes : Starts(n)
<1>. USE DEF Starts
<1>1. CASE \E n \in Nodes : Execute(n)
  BY <1>1, ExecuteKeepsTurning
<1>2. CASE \E n \in Nodes : Examine(n)
  BY <1>2, LoopKeepsTurning DEF Examine, PassOver, SkipUnavailable,
     SkipPastDeadline, SkipOptional, MakeRunnable, MarkSkipped, outcome, Decided
<1>3. CASE NextGroup \/ Finish \/ SecondChancesOver \/ Replan \/ Abort
  BY <1>3, LoopKeepsTurning DEF NextGroup, Finish, SecondChancesOver, Replan,
     Abort, outcome, Decided
<1>4. CASE Tick \/ UNCHANGED vars
  <2>1. UNCHANGED <<exec, pc, runnable, justFailed>> /\ Decided' = Decided
    BY <1>4 DEF Tick, vars, loop, outcome, Decided
  <2>. QED
    BY <2>1 DEF Turning
<1>5. CASE LaunchBatch
  <2>1. /\ UNCHANGED <<runnable, justFailed>> /\ Decided' = Decided
        /\ pc = "examine" /\ pc' = IF runnable = {} THEN "next" ELSE "run"
        /\ justFailed = {} /\ runnable \cap Decided = {}
        /\ exec' = [n \in Nodes |-> IF n \in runnable THEN Launched(n, "first") ELSE exec[n]]
    BY <1>5 DEF LaunchBatch, outcome, Decided, Parts, Stages
  <2>2. \A n \in Nodes : n \in runnable => exec'[n].stage = "begin" /\ exec'[n].turn = "first"
    BY <2>1 DEF Launched, Stand
  <2>3. \A n \in Nodes : n \in runnable => exec[n].turn = "none"
    BY <2>1 DEF Turning
  <2>4. \A n \in Nodes : n \notin runnable => exec'[n] = exec[n]
    BY <2>1
  <2>5. \A n \in Nodes : exec[n].stage \notin Running
    BY <2>1 DEF Turning
  <2>6. Turning'
    BY <2>1, <2>2, <2>4, <2>5 DEF Turning, Running
  <2>. QED
    BY <2>2, <2>3, <2>4, <2>6
<1>6. CASE SettleBatch
  <2>1. /\ UNCHANGED exec /\ pc = "run" /\ pc' \in {"next", "recover"}
        /\ Decided' = Decided \cup runnable /\ runnable' = {}
        /\ justFailed' = { n \in runnable : exec[n].stage # "ok" }
        /\ \A n \in runnable : exec[n].stage \in {"ok", "err"}
        /\ exec \in [Nodes -> ExecType]
    BY <1>6 DEF SettleBatch, BatchSettled, Decided, TypeOK
  <2>2. \A n \in Nodes : exec[n].stage \notin Running
    BY <2>1 DEF Turning, Running
  <2>3. \A n \in Nodes : n \in justFailed' => exec[n].turn = "first"
    <3>. SUFFICES ASSUME NEW n \in Nodes, n \in justFailed' PROVE exec[n].turn = "first"
      OBVIOUS
    <3>1. n \in runnable /\ exec[n].stage = "err"
      BY <2>1
    <3>2. exec[n].turn # "none" /\ exec[n].turn # "second"
      BY <2>1, <3>1 DEF Turning
    <3>. QED
      BY <2>1, <3>2, ExecRange
  <2>. QED
    BY <2>1, <2>2, <2>3 DEF Turning, Running
<1>7. CASE \E n \in Nodes : RecoverSwap(n)
  <2>1. PICK n \in Nodes : RecoverSwap(n)
    BY <1>7
  <2>2. /\ n \in justFailed /\ justFailed' = justFailed \ {n}
        /\ runnable' = {n} /\ pc = "recover" /\ pc' = "retry"
        /\ exec' = [exec EXCEPT ![n] = Launched(n, "second")]
        /\ Decided' = Decided /\ n \in Decided
        /\ exec \in [Nodes -> ExecType]
    BY <2>1 DEF RecoverSwap, outcome, Decided, Parts, Stages, Revisable, TypeOK
  <2>3. exec'[n].stage = "begin" /\ exec'[n].turn = "second" /\ exec[n].turn = "first"
    BY <2>2 DEF Launched, Stand, Turning
  <2>4. \A m \in Nodes \ {n} : exec'[m] = exec[m] /\ exec[m].stage \notin Running
    BY <2>2 DEF Turning
  <2>5. Turning'
    BY <2>2, <2>3, <2>4 DEF Turning, Running
  <2>. QED
    BY <2>3, <2>4, <2>5
<1>8. CASE \E n \in Nodes : RecoverSkip(n) \/ RecoverFail(n)
  BY <1>8, LoopKeepsTurning DEF RecoverSkip, RecoverFail, MarkSkipped, outcome, Decided
<1>9. CASE \E n \in Nodes : RetrySettled(n)
  <2>1. PICK n \in Nodes : RetrySettled(n)
    BY <1>9
  <2>2. /\ UNCHANGED <<exec, justFailed>> /\ pc = "retry" /\ pc' = "recover"
        /\ runnable = {n} /\ runnable' = {} /\ exec[n].stage \in {"ok", "err"}
        /\ Decided \subseteq Decided'
    BY <2>1 DEF RetrySettled, Turning, Decided
  <2>. QED
    BY <2>2 DEF Turning, Running
<1>. QED
  BY <1>1, <1>2, <1>3, <1>4, <1>5, <1>6, <1>7, <1>8, <1>9
     DEF Next, Progress, Recover

\* No node is started a third time: a second chance or second opinion is the
\* last, and a re-planned node is one that never started.
THEOREM NeverAThirdRun == Spec => TwoRunsAtMost
<1>1. Init => Turning
  BY DEF Init, Stand, Turning, Running
<1>2. TypeOK /\ Parts /\ Turning /\ [Next]_vars =>
        Turning' /\ [\A n \in Nodes : Starts(n)]_vars
  BY StepKeepsTurning
<1>. QED
  BY <1>1, <1>2, TypeCorrect, Inductive, PTL DEF Spec, TwoRunsAtMost, Starts
-----------------------------------------------------------------------------
(* What the rows say when no write was lost.                               *)

Answered(n) == row[n].status = "completed" /\ row[n].answer = exec[n].kept

\* The row of a node rejected at the deadline still says `running'.
Unanswered(n) ==
  \/ row[n].status = "failed"
  \/ row[n].status = "running" /\ PastDeadline

InHand(n) == pc \in {"run", "retry"} /\ n \in runnable

\* Decided nodes, and settled ones whose verdict is still to be given.
RowTells(n) ==
  /\ n \in skipped => row[n].status = "skipped"
  /\ n \in results \ plan.ensemble => Answered(n)
  /\ n \in failed /\ ~InHand(n) => Unanswered(n)
  /\ InHand(n) /\ exec[n].stage = "ok" /\ n \notin plan.ensemble => Answered(n)
  /\ InHand(n) /\ exec[n].stage = "err" => Unanswered(n)

RowsTell == faults = 0 => \A n \in Nodes : RowTells(n)

\* Outside an ensemble the run in the batch is the first: its answer is the
\* one kept.
OneRun ==
  \A n \in Nodes :
    pc = "run" /\ n \in runnable \ plan.ensemble =>
      exec[n].turn = "first" /\ exec[n].stage # "fallback"

\* Faults are never taken back, and a write without one arrives.
LEMMA Written ==
  ASSUME TypeOK, faults' = 0, NEW n \in Nodes, NEW fields, WriteRow(n, fields)
  PROVE  /\ faults = 0
         /\ row'[n] = fields
         /\ \A m \in Nodes \ {n} : row'[m] = row[m]
<1>1. faults \in Nat /\ row \in [Nodes -> RowType]
  BY BoundsAssumption DEF TypeOK
<1>2. ~Fault
  BY <1>1 DEF Fault
<1>. QED
  BY <1>1, <1>2 DEF WriteRow

\* A step of the loop that decides nothing, outside the batch.
LEMMA LoopKeepsRows ==
  ASSUME RowsTell, UNCHANGED <<plan, exec, row, results, failed, skipped, clock>>,
         faults' = 0 => faults = 0,
         pc \notin {"run", "retry"}, pc' \notin {"run", "retry"}
  PROVE  RowsTell' /\ OneRun'
BY DEF RowsTell, RowTells, Answered, Unanswered, InHand, OneRun, PastDeadline

LEMMA SkipKeepsRows ==
  ASSUME TypeOK, RowsTell, NEW n \in Nodes, NEW reason, MarkSkipped(n, reason),
         UNCHANGED <<plan, exec, results, clock>>,
         failed' = failed \ {n}, n \notin results,
         pc \notin {"run", "retry"}, pc' \notin {"run", "retry"}
  PROVE  RowsTell' /\ OneRun'
<1>1. OneRun'
  BY DEF OneRun
<1>2. SUFFICES ASSUME faults' = 0, NEW m \in Nodes
               PROVE  RowTells(m)'
  BY <1>1 DEF RowsTell
<1>3. /\ faults = 0
      /\ row'[n] = [row[n] EXCEPT !.status = "skipped", !.errorCode = reason]
      /\ \A k \in Nodes \ {n} : row'[k] = row[k]
  BY <1>2, Written DEF MarkSkipped
<1>4. row'[n].status = "skipped"
  BY <1>3 DEF TypeOK, RowType
<1>5. skipped' = skipped \cup {n}
  BY DEF MarkSkipped
<1>6. RowTells(m)
  BY <1>2, <1>3 DEF RowsTell
<1>7. CASE m = n
  BY <1>4, <1>5, <1>7 DEF RowTells, InHand
<1>8. CASE m # n
  BY <1>3, <1>5, <1>6, <1>8 DEF RowTells, InHand, Answered, Unanswered, PastDeadline
<1>. QED
  BY <1>7, <1>8

\* What one step of a run leaves in the row of its node.
LEMMA RunTells ==
  ASSUME TypeOK, Turning, OneRun, NEW n \in Nodes, Execute(n), faults' = 0
  PROVE  /\ faults = 0
         /\ \A m \in Nodes \ {n} : exec'[m] = exec[m] /\ row'[m] = row[m]
         /\ exec'[n].stage = "ok" /\ n \notin plan.ensemble => Answered(n)'
         /\ exec'[n].stage = "err" => Unanswered(n)'
<1>1. /\ exec \in [Nodes -> ExecType] /\ row \in [Nodes -> RowType]
      /\ faults \in Nat
  BY BoundsAssumption DEF TypeOK
<1>2. ~Fault
  BY <1>1 DEF Fault
<1>3. pc = "run" \/ pc = "retry"
  BY DEF Execute, InFlight, Attempted, BeginSubTask, Answer, LoseResponse, RetryCall,
     GiveUp, AskSecondModel, KeepOnlyAnswer, LoseAnswer
<1>4. exec[n].stage \in Running /\ n \in runnable
  BY DEF Execute, InFlight, Attempted, Running, Turning, BeginSubTask, Answer,
     LoseResponse, RetryCall, GiveUp, AskSecondModel, KeepOnlyAnswer, LoseAnswer
<1>5. pc = "run" /\ n \notin plan.ensemble =>
        exec[n].turn = "first" /\ exec[n].stage # "fallback"
  BY <1>4 DEF OneRun
<1>6. n \notin plan.ensemble => ~SecondOpinion(n)
  BY <1>5 DEF SecondOpinion
<1>7. clock' = clock
  BY ExecuteFrame
<1>8. Throw(n) =>
        /\ \A m \in Nodes \ {n} : exec'[m] = exec[m]
        /\ exec'[n].turn = exec[n].turn
        /\ exec'[n].stage \in {"ok", "err"}
        /\ n \notin plan.ensemble => exec'[n].stage = "err"
  BY <1>1, <1>6 DEF Throw, Stand
<1>9. Return(n) =>
        /\ \A m \in Nodes \ {n} : exec'[m] = exec[m]
        /\ exec'[n].turn = exec[n].turn
        /\ exec'[n].stage \in {"ok", "fallback"}
        /\ n \notin plan.ensemble =>
             exec'[n].stage = "ok" /\ exec'[n].kept = exec[n].turn
  BY <1>1, <1>6 DEF Return, Stand
<1>10. ASSUME NEW status, WriteRow(n, [row[n] EXCEPT !.status = status])
       PROVE  /\ faults = 0
              /\ row'[n].status = status
              /\ \A m \in Nodes \ {n} : row'[m] = row[m]
  BY <1>1, <1>10, Written DEF RowType
<1>11. CASE BeginSubTask(n)
  <2>1. /\ faults = 0
        /\ row'[n].status = "running"
        /\ \A m \in Nodes \ {n} : row'[m] = row[m]
    BY <1>10, <1>11 DEF BeginSubTask
  <2>2. CASE PastDeadline
    BY <1>5, <1>7, <1>8, <1>11, <2>1, <2>2 DEF BeginSubTask, Unanswered, PastDeadline
  <2>3. CASE ~PastDeadline
    BY <1>1, <1>5, <1>11, <2>1, <2>3 DEF BeginSubTask, Stand
  <2>. QED
    BY <2>2, <2>3
<1>12. CASE Answer(n)
  <2>1. /\ faults = 0
        /\ row'[n] = [row[n] EXCEPT !.status = "completed", !.answer = exec[n].turn]
        /\ \A m \in Nodes \ {n} : row'[m] = row[m]
    BY <1>12, Written DEF Answer
  <2>2. row'[n].status = "completed" /\ row'[n].answer = exec[n].turn
    BY <1>1, <2>1 DEF RowType
  <2>. QED
    BY <1>5, <1>9, <1>12, <2>1, <2>2 DEF Answer, Answered
<1>13. CASE RetryCall(n)
  BY <1>1, <1>5, <1>13 DEF RetryCall, Stand, untouchedByExec
<1>14. CASE GiveUp(n)
  <2>1. /\ faults = 0
        /\ row'[n].status = "failed"
        /\ \A m \in Nodes \ {n} : row'[m] = row[m]
    BY <1>10, <1>14 DEF GiveUp
  <2>. QED
    BY <1>5, <1>8, <1>14, <2>1 DEF GiveUp, Unanswered
<1>15. CASE AskSecondModel(n) \/ KeepOnlyAnswer(n)
  <2>1. exec[n].stage = "fallback"
    BY <1>15 DEF AskSecondModel, KeepOnlyAnswer, InFlight
  <2>2. pc = "run" /\ n \in plan.ensemble
    BY <1>4, <1>5, <2>1 DEF Turning
  <2>3. UNCHANGED <<row, faults>>
    BY <1>15 DEF AskSecondModel, KeepOnlyAnswer
  <2>4. /\ \A m \in Nodes \ {n} : exec'[m] = exec[m]
        /\ exec'[n].stage \in {"begin", "ok"}
    BY <1>1, <1>15 DEF AskSecondModel, KeepOnlyAnswer, Launched, Stand
  <2>. QED
    BY <2>2, <2>3, <2>4
<1>16. CASE LoseResponse(n) \/ LoseAnswer(n)
  BY <1>2, <1>16 DEF LoseResponse, LoseAnswer
<1>. QED
  BY <1>11, <1>12, <1>13, <1>14, <1>15, <1>16 DEF Execute

\* A run outside an ensemble is never followed by another in the batch.
LEMMA OnlyRun ==
  ASSUME TypeOK, OneRun, NEW n \in Nodes, Execute(n), n \in runnable, pc = "run",
         n \notin plan.ensemble
  PROVE  exec'[n].turn = "first" /\ exec'[n].stage # "fallback"
<1>1. exec \in [Nodes -> ExecType]
  BY DEF TypeOK
<1>2. exec[n].turn = "first" /\ exec[n].stage # "fallback"
  BY DEF OneRun
<1>3. ~AskSecondModel(n) /\ ~KeepOnlyAnswer(n) /\ ~LoseAnswer(n)
  BY <1>2 DEF AskSecondModel, KeepOnlyAnswer, LoseAnswer, InFlight
<1>. QED
  BY <1>1, <1>2, <1>3 DEF Execute, BeginSubTask, Answer, LoseResponse, RetryCall,
     GiveUp, Throw, Return, SecondOpinion, Stand

LEMMA ExecuteKeepsRows ==
  ASSUME TypeOK, Parts, Turning, OneRun, RowsTell, NEW n \in Nodes, Execute(n)
  PROVE  RowsTell' /\ OneRun'
<1>1. UNCHANGED <<plan, runnable, results, failed, skipped, pc, clock>>
  BY ExecuteFrame DEF plans, loop, outcome
<1>2. pc \in {"run", "retry"} /\ n \in runnable
  BY DEF Execute, InFlight, Attempted, Running, Turning, BeginSubTask, Answer,
     LoseResponse, RetryCall, GiveUp, AskSecondModel, KeepOnlyAnswer, LoseAnswer
<1>3. n \notin results \cup skipped
  BY <1>2 DEF Parts, Stages, Revisable, VerdictsExclusive, Decided
<1>4. faults \in Nat
  BY BoundsAssumption DEF TypeOK
<1>5. OneRun'
  <2>1. CASE pc = "retry"
    BY <1>1, <2>1 DEF OneRun
  <2>2. CASE pc = "run"
    <3>1. exec \in [Nodes -> ExecType]
      BY DEF TypeOK
    <3>2. \A m \in Nodes \ {n} : exec'[m] = exec[m]
      BY <3>1 DEF Execute, BeginSubTask, Answer, LoseResponse, RetryCall, GiveUp,
         AskSecondModel, KeepOnlyAnswer, LoseAnswer, Throw, Return
    <3>3. n \notin plan.ensemble => exec'[n].turn = "first" /\ exec'[n].stage # "fallback"
      BY <1>2, <2>2, OnlyRun
    <3>. QED
      BY <1>1, <2>2, <3>2, <3>3 DEF OneRun
  <2>. QED
    BY <1>2, <2>1, <2>2
<1>6. SUFFICES ASSUME faults' = 0, NEW m \in Nodes
               PROVE  RowTells(m)'
  BY <1>5 DEF RowsTell
<1>7. /\ faults = 0
      /\ \A k \in Nodes \ {n} : exec'[k] = exec[k] /\ row'[k] = row[k]
      /\ exec'[n].stage = "ok" /\ n \notin plan.ensemble => Answered(n)'
      /\ exec'[n].stage = "err" => Unanswered(n)'
  BY <1>6, RunTells
<1>8. CASE m = n
  BY <1>1, <1>2, <1>3, <1>7, <1>8 DEF RowTells, InHand
<1>9. CASE m # n
  <2>1. RowTells(m)
    BY <1>7 DEF RowsTell
  <2>. QED
    BY <1>1, <1>7, <1>9, <2>1 DEF RowTells, InHand, Answered, Unanswered, PastDeadline
<1>. QED
  BY <1>8, <1>9

LEMMA StepKeepsRows ==
  ASSUME TypeOK, Parts, Turning, OneRun, RowsTell, [Next]_vars
  PROVE  RowsTell' /\ OneRun'
<1>0. Fault => faults' # 0
  BY BoundsAssumption DEF Fault, TypeOK
<1>1. CASE \E n \in Nodes : Execute(n)
  BY <1>1, ExecuteKeepsRows
<1>2. CASE \E n \in Nodes : PassOver(n) \/ MakeRunnable(n)
  <2>1. /\ pc = "examine" /\ pc' = "examine"
        /\ UNCHANGED <<plan, exec, row, results, failed, skipped, clock, faults>>
    BY <1>2 DEF PassOver, MakeRunnable, plans, outcome, record
  <2>. QED
    BY <2>1, LoopKeepsRows
<1>3. CASE \E n \in Nodes : SkipUnavailable(n) \/ SkipPastDeadline(n) \/ SkipOptional(n)
  <2>1. PICK n \in Nodes : SkipUnavailable(n) \/ SkipPastDeadline(n) \/ SkipOptional(n)
    BY <1>3
  <2>2. /\ pc = "examine" /\ pc' = "examine" /\ n \notin Decided
        /\ UNCHANGED <<plan, exec, results, failed, clock>>
        /\ \E reason \in Reasons : MarkSkipped(n, reason)
    BY <2>1 DEF SkipUnavailable, SkipPastDeadline, SkipOptional, plans, Reasons
  <2>3. n \notin results /\ failed' = failed \ {n}
    BY <2>2 DEF Decided
  <2>. QED
    BY <2>2, <2>3, SkipKeepsRows
<1>4. CASE NextGroup \/ Finish \/ SecondChancesOver \/ Replan \/ Abort
  <2>1. /\ pc \notin {"run", "retry"} /\ pc' \notin {"run", "retry"}
        /\ UNCHANGED <<plan, exec, row, results, failed, skipped, clock>>
        /\ faults' = faults \/ Fault
    BY <1>4 DEF NextGroup, Finish, SecondChancesOver, Replan, Abort, plans, outcome, record
  <2>. QED
    BY <1>0, <2>1, LoopKeepsRows
<1>5. CASE Tick \/ UNCHANGED vars
  <2>1. /\ UNCHANGED <<plan, pc, runnable, exec, row, results, failed, skipped, faults>>
        /\ PastDeadline => PastDeadline'
    BY <1>5 DEF Tick, vars, plans, loop, outcome, record, PastDeadline
  <2>. QED
    BY <2>1 DEF RowsTell, RowTells, InHand, Answered, Unanswered, OneRun
<1>6. CASE LaunchBatch
  <2>1. /\ UNCHANGED <<plan, runnable, row, results, failed, skipped, clock, faults>>
        /\ pc = "examine" /\ pc' = IF runnable = {} THEN "next" ELSE "run"
        /\ runnable \cap Decided = {}
        /\ exec' = [n \in Nodes |-> IF n \in runnable THEN Launched(n, "first") ELSE exec[n]]
    BY <1>6 DEF LaunchBatch, plans, outcome, record, Parts, Stages
  <2>2. \A n \in Nodes :
          IF n \in runnable THEN exec'[n].stage = "begin" /\ exec'[n].turn = "first"
          ELSE exec'[n] = exec[n]
    BY <2>1 DEF Launched, Stand
  <2>3. OneRun'
    BY <2>1, <2>2 DEF OneRun
  <2>4. ASSUME faults = 0, NEW n \in Nodes PROVE RowTells(n)'
    <3>1. RowTells(n)
      BY <2>4 DEF RowsTell
    <3>. QED
      BY <2>1, <2>2, <3>1 DEF RowTells, InHand, Answered, Unanswered, PastDeadline, Decided
  <2>. QED
    BY <2>1, <2>3, <2>4 DEF RowsTell
<1>7. CASE SettleBatch
  <2>1. /\ UNCHANGED <<plan, exec, row, skipped, clock, faults>>
        /\ pc = "run" /\ pc' \in {"next", "recover"} /\ runnable' = {}
        /\ \A n \in runnable : exec[n].stage \in {"ok", "err"}
        /\ results' = results \cup { n \in runnable : exec[n].stage = "ok" }
        /\ failed' = failed \cup (runnable \ { n \in runnable : exec[n].stage = "ok" })
    BY <1>7 DEF SettleBatch, BatchSettled, plans, record
  <2>2. OneRun'
    BY <2>1 DEF OneRun
  <2>3. ASSUME faults = 0, NEW n \in Nodes PROVE RowTells(n)'
    <3>1. RowTells(n)
      BY <2>3 DEF RowsTell
    <3>2. CASE n \in runnable
      <4>1. n \notin Decided /\ InHand(n) /\ ~InHand(n)'
        BY <2>1, <3>2 DEF InHand, Parts, Stages
      <4>2. CASE exec[n].stage = "ok"
        BY <2>1, <3>1, <3>2, <4>1, <4>2 DEF RowTells, Answered, Decided
      <4>3. CASE exec[n].stage = "err"
        BY <2>1, <3>1, <3>2, <4>1, <4>3 DEF RowTells, Unanswered, PastDeadline, Decided
      <4>. QED
        BY <2>1, <3>2, <4>2, <4>3
    <3>3. CASE n \notin runnable
      BY <2>1, <3>1, <3>3 DEF RowTells, InHand, Answered, Unanswered, PastDeadline
    <3>. QED
      BY <3>2, <3>3
  <2>. QED
    BY <2>1, <2>2, <2>3 DEF RowsTell
<1>8. CASE \E n \in Nodes : RecoverSwap(n)
  <2>1. PICK n \in Nodes : RecoverSwap(n)
    BY <1>8
  <2>2. /\ n \in failed /\ n \notin results \cup skipped
        /\ pc = "recover" /\ pc' = "retry" /\ runnable' = {n}
        /\ UNCHANGED <<plan, row, results, failed, skipped, clock, faults>>
        /\ exec' = [exec EXCEPT ![n] = Launched(n, "second")]
        /\ exec \in [Nodes -> ExecType]
    BY <2>1 DEF RecoverSwap, plans, outcome, record, Parts, Stages, Revisable,
       VerdictsExclusive, TypeOK
  <2>3. exec'[n].stage = "begin" /\ \A m \in Nodes \ {n} : exec'[m] = exec[m]
    BY <2>2 DEF Launched, Stand
  <2>4. OneRun'
    BY <2>2 DEF OneRun
  <2>5. ASSUME faults = 0, NEW m \in Nodes PROVE RowTells(m)'
    <3>1. RowTells(m)
      BY <2>5 DEF RowsTell
    <3>. QED
      BY <2>2, <2>3, <3>1 DEF RowTells, InHand, Answered, Unanswered, PastDeadline
  <2>. QED
    BY <2>2, <2>4, <2>5 DEF RowsTell
<1>9. CASE \E n \in Nodes : RecoverSkip(n)
  <2>1. PICK n \in Nodes : RecoverSkip(n)
    BY <1>9
  <2>2. /\ pc = "recover" /\ pc' = "recover" /\ failed' = failed \ {n}
        /\ UNCHANGED <<plan, exec, results, clock>>
        /\ MarkSkipped(n, "optional_subtask_dropped")
    BY <2>1 DEF RecoverSkip, plans
  <2>3. n \notin results
    BY <2>1 DEF RecoverSkip, Parts, Stages, Revisable, VerdictsExclusive
  <2>. QED
    BY <2>2, <2>3, SkipKeepsRows
<1>10. CASE \E n \in Nodes : RecoverFail(n)
  <2>1. /\ pc = "recover" /\ pc' = "recover"
        /\ UNCHANGED <<plan, exec, row, results, failed, skipped, clock, faults>>
    BY <1>10 DEF RecoverFail, plans, outcome, record
  <2>. QED
    BY <2>1, LoopKeepsRows
<1>11. CASE \E n \in Nodes : RetrySettled(n)
  <2>1. PICK n \in Nodes : RetrySettled(n)
    BY <1>11
  <2>2. /\ pc = "retry" /\ pc' = "recover" /\ runnable = {n} /\ runnable' = {}
        /\ UNCHANGED <<plan, exec, row, skipped, clock, faults>>
        /\ \/ /\ exec[n].stage = "ok"
              /\ results' = results \cup {n} /\ failed' = failed \ {n}
           \/ /\ exec[n].stage = "err"
              /\ UNCHANGED <<results, failed>>
    BY <2>1 DEF RetrySettled, plans, record, Turning
  <2>3. OneRun'
    BY <2>2 DEF OneRun
  <2>4. ASSUME faults = 0, NEW m \in Nodes PROVE RowTells(m)'
    <3>1. RowTells(m)
      BY <2>4 DEF RowsTell
    <3>. QED
      BY <2>2, <3>1 DEF RowTells, InHand, Answered, Unanswered, PastDeadline
  <2>. QED
    BY <2>2, <2>3, <2>4 DEF RowsTell
<1>. QED
  BY <1>1, <1>2, <1>3, <1>4, <1>5, <1>6, <1>7, <1>8, <1>9, <1>10, <1>11
     DEF Next, Progress, Examine, Recover

\* What the app reads back is what happened: when no write was lost, the
\* row of a skipped node says so, the row of a node that succeeded holds the
\* answer that was kept, and the row of a failed one never says completed.
THEOREM RowsAlwaysTellVerdict == Spec => []RowsTellVerdict
<1>1. Init => Turning /\ OneRun /\ RowsTell
  BY DEF Init, Stand, Turning, Running, OneRun, RowsTell, RowTells, InHand
<1>2. TypeOK /\ Parts /\ Turning /\ OneRun /\ RowsTell /\ [Next]_vars =>
        Turning' /\ OneRun' /\ RowsTell'
  BY StepKeepsTurning, StepKeepsRows
<1>3. TypeOK /\ RowsTell => RowsTellVerdict
  <2>. SUFFICES ASSUME TypeOK, RowsTell, pc = "done", faults = 0, NEW n \in plan.nodes
                PROVE  /\ n \in skipped => row[n].status = "skipped"
                       /\ n \in results \ plan.ensemble => Answered(n)
                       /\ n \in failed => Unanswered(n)
    BY DEF RowsTellVerdict, Answered, Unanswered
  <2>1. n \in Nodes
    BY PlanTyped DEF TypeOK
  <2>. QED
    BY <2>1 DEF RowsTell, RowTells, InHand
<1>. QED
  BY <1>1, <1>2, <1>3, TypeCorrect, Inductive, PTL DEF Spec
=============================================================================
