--------------------------- MODULE PipelineProofs ---------------------------
(***************************************************************************)
(* Proofs about Pipeline, for any set of tasks, slots and bounds:          *)
(* its types, that only a stall begins a task again, and that the pipeline *)
(* implements TaskLife.                                                    *)
(***************************************************************************)
EXTENDS Pipeline, TLAPS, SequenceTheorems

USE PipelineAssumption

-----------------------------------------------------------------------------
(* The inductive invariant.                                                *)

\* What the queue knows of a job bounds what was begun: a job to be taken was
\* taken back once for every run begun, and one that stalled too often is failed.
JobsCounted ==
  \A t \in Tasks :
    /\ begun[t] <= 1 + stalls[t]
    /\ job[t] = "waiting" => begun[t] <= stalls[t]
    /\ job[t] \in {"waiting", "active"} => stalls[t] <= MaxStalls
    /\ request[t] \in {"none", "created"} =>
         job[t] = "none" /\ begun[t] = 0 /\ stalls[t] = 0

\* A task has no row before it is posted, and one before anything is queued or run.
RowsPrecedeWork ==
  \A t \in Tasks :
    /\ request[t] = "none" => row[t].status = "absent"
    /\ request[t] = "created" \/ job[t] # "none" \/ begun[t] > 0
         => row[t].status # "absent"
    /\ begun[t] = 0 => row[t].status \in {"absent", "received"}

\* Every run was begun, and two runs of a task were begun separately.
RunsBegun ==
  /\ \A s \in Slots : run[s].task # NoTask => begun[run[s].task] > 0
  /\ \A s, z \in Slots :
       s # z /\ run[s].task = run[z].task /\ run[s].task # NoTask =>
         begun[run[s].task] > 1

\* The stages that come after the answer or the error.
Closing == {"remembering", "telling", "failing", "settling"}

\* The only run of a task finds its row not yet ended while it works.
RowFollowsRun ==
  \A s \in Slots :
    run[s].task # NoTask /\ begun[run[s].task] = 1 /\ run[s].at \notin Closing =>
      /\ row[run[s].task].status \notin {"completed", "failed"}
      /\ run[s].at = "received" => row[run[s].task].status = "received"

IInv == TypeOK /\ JobsCounted /\ RowsPrecedeWork /\ RunsBegun /\ RowFollowsRun

-----------------------------------------------------------------------------
(* What the stages of a run have in common.                                *)

\* Where a stage takes the status of its task: nowhere, to failed by the catch
\* block, or along, and to an end only when the run closes.
StatusMoves(s) ==
  LET before == row[run[s].task].status
      after == row'[run[s].task].status IN
  \/ after = before
  \/ run[s].at = "failing" /\ after = "failed"
  \/ /\ run[s].at \notin Closing
     /\ after \in Statuses
     /\ run[s].at = "received" <=> after = "received"
     /\ after \in {"completed", "failed"} => run'[s].at \in Closing

\* A stage of slot s touches only its own run, the row of its task and, when the
\* run is over, the job it holds.
Effect(s) ==
  LET t == run[s].task IN
  /\ t \in Tasks
  /\ \A z \in Slots \ {s} : run'[z] = run[z]
  /\ run'[s] = Idle \/ (run'[s].task = t /\ run'[s].at # "received")
  /\ \A u \in Tasks \ {t} : row'[u] = row[u] /\ job'[u] = job[u]
  /\ job'[t] = job[t] \/ job'[t] \in {"completed", "failed"}
  /\ UNCHANGED <<request, stalls, begun>>
  /\ StatusMoves(s)

LEMMA CachedType ==
  ASSUME NEW t \in Tasks, cache \in Seq(Tasks), Len(cache) <= ResultCacheLimit
  PROVE  Cached(t) \in Seq(Tasks) /\ Len(Cached(t)) <= ResultCacheLimit
<1> DEFINE kept == IF \E i \in DOMAIN cache : cache[i] = t THEN cache ELSE Append(cache, t)
<1>1. kept \in Seq(Tasks) /\ Len(kept) <= ResultCacheLimit + 1
  OBVIOUS
<1>2. CASE Len(kept) > ResultCacheLimit
  <2>1. kept # <<>>
    BY <1>1, <1>2
  <2>2. Tail(kept) \in Seq(Tasks) /\ Len(Tail(kept)) = Len(kept) - 1
    BY <1>1, <2>1
  <2> QED
    BY <1>1, <1>2, <2>2 DEF Cached
<1>3. CASE ~(Len(kept) > ResultCacheLimit)
  BY <1>1, <1>3 DEF Cached
<1> QED
  BY <1>2, <1>3

LEMMA GoEffect ==
  ASSUME RunTypes, NEW s \in Slots, NEW stage \in Stages, Go(s, stage)
  PROVE  /\ run' \in [Slots -> Run]
         /\ run'[s].task = run[s].task /\ run'[s].at = stage
         /\ \A z \in Slots \ {s} : run'[z] = run[z]
  BY DEF RunTypes, Go, Run

LEMMA Rejected ==
  ASSUME RunTypes, NEW s \in Slots,
         run' = [run EXCEPT ![s].at = "settling", ![s].rejected = TRUE]
  PROVE  /\ run' \in [Slots -> Run]
         /\ run'[s].task = run[s].task /\ run'[s].at = "settling"
         /\ \A z \in Slots \ {s} : run'[z] = run[z]
  BY DEF RunTypes, Run, Stages

LEMMA StatusWritten ==
  ASSUME NEW t \in Tasks, row \in [Tasks -> Row], NEW status \in Statuses
  PROVE  LET written == [row EXCEPT ![t].status = status] IN
         /\ written \in [Tasks -> Row]
         /\ written[t].status = status
         /\ \A u \in Tasks \ {t} : written[u] = row[u]
  BY DEF Row

LEMMA Faulty == ASSUME CountTypes, Fault PROVE faults' \in 0..MaxFaults
  BY DEF CountTypes, Fault

\* The two outcomes of an awaited update that writes the row of the run's task.
LEMMA AwaitEffect ==
  ASSUME TypeOK, NEW s \in Slots, NEW t \in Tasks, t = run[s].task,
         NEW written \in [Tasks -> Row], written[t].status \in Statuses,
         \A u \in Tasks \ {t} : written[u] = row[u],
         NEW next \in Stages, Await(s, written, next)
  PROVE  /\ row' \in [Tasks -> Row] /\ run' \in [Slots -> Run] /\ faults' \in 0..MaxFaults
         /\ \A u \in Tasks \ {t} : row'[u] = row[u]
         /\ row'[t] \in {row[t], written[t]}
         /\ run'[s].task = t
         /\ \/ run'[s].at = next /\ row'[t] = written[t]
            \/ run'[s].at = "failing"
         /\ \A z \in Slots \ {s} : run'[z] = run[z]
<1>1. CASE row' = written /\ Go(s, next) /\ UNCHANGED faults
  BY <1>1, GoEffect DEF TypeOK, CountTypes
<1>2. CASE Fault /\ row' \in {row, written} /\ Go(s, "failing")
  <2>1. "failing" \in Stages
    BY DEF Stages
  <2> QED
    BY <1>2, <2>1, GoEffect, Faulty DEF TypeOK, RowTypes
<1> QED
  BY <1>1, <1>2 DEF Await

LEMMA Working ==
  ASSUME TypeOK, NEW s \in Slots, run[s].task \in Tasks,
         UNCHANGED <<queueVars, begun, cache, cut, troubles>>,
         row' \in [Tasks -> Row], run' \in [Slots -> Run],
         subtasks' \in [Tasks -> SubtaskRows],
         told' \in [Tasks -> SUBSET {"completed", "failed"}],
         unwritten' \in SUBSET Tasks, faults' \in 0..MaxFaults,
         \A u \in Tasks \ {run[s].task} : row'[u] = row[u],
         \A z \in Slots \ {s} : run'[z] = run[z],
         run'[s].task = run[s].task, run'[s].at # "received",
         StatusMoves(s)
  PROVE  TypeOK' /\ Effect(s)
<1>1. QueueTypes' /\ RowTypes' /\ RunTypes' /\ CountTypes'
  BY DEF TypeOK, QueueTypes, RowTypes, RunTypes, CountTypes, queueVars
<1>2. UNCHANGED <<request, stalls, begun, job>>
  BY DEF queueVars
<1> QED
  BY <1>1, <1>2 DEF TypeOK, Effect

LEMMA StageEffect ==
  ASSUME TypeOK, NEW s \in Slots, Stage(s)
  PROVE  TypeOK' /\ Effect(s)
<1> DEFINE t == run[s].task
<1>0. t \in Tasks
  BY DEF TypeOK, RunTypes, Run, Stage, At, Receive, Report, Decompose, Assign,
         StartSubtask, Execute, Aggregate, Complete, Remember, Tell, Fail, Settle
<1>t. /\ row \in [Tasks -> Row]
      /\ subtasks \in [Tasks -> SubtaskRows]
      /\ told \in [Tasks -> SUBSET {"completed", "failed"}]
      /\ unwritten \in SUBSET Tasks /\ faults \in 0..MaxFaults
      /\ RunTypes /\ CountTypes /\ run \in [Slots -> Run]
  BY DEF TypeOK, RowTypes, RunTypes, CountTypes
<1> HIDE DEF t
<1>1. CASE Receive(s)
  <2> DEFINE received == [row EXCEPT ![t].status = "received"]
  <2>1. received \in [Tasks -> Row] /\ received[t].status = "received"
        /\ \A u \in Tasks \ {t} : received[u] = row[u]
    <3>1. "received" \in Statuses
      BY DEF Statuses
    <3> QED
      BY <1>0, <1>t, <3>1, StatusWritten
  <2> HIDE DEF received
  <2>2. /\ row' \in {row, received}
        /\ unwritten' \in SUBSET Tasks /\ faults' \in 0..MaxFaults
    BY <1>0, <1>1, <1>t, Faulty DEF Receive, received, t
  <2>3. /\ run' \in [Slots -> Run] /\ run'[s].task = t /\ run'[s].at # "received"
        /\ \A z \in Slots \ {s} : run'[z] = run[z]
    <3>1. "classifying" \in Stages
      BY DEF Stages
    <3> QED
      BY <1>1, <1>t, <3>1, GoEffect, Rejected DEF Receive, t
  <2>4. StatusMoves(s)
    BY <1>1, <2>1, <2>2 DEF StatusMoves, t, Receive, At, Statuses, Closing
  <2>5. UNCHANGED <<queueVars, begun, cache, cut, troubles, subtasks, told>>
    BY <1>1 DEF Receive
  <2> QED
    BY <1>0, <1>t, <2>1, <2>2, <2>3, <2>4, <2>5, Working DEF t
<1>2. CASE Report(s)
  <2> DEFINE stage == run[s].at
  <2>1. /\ stage \in DOMAIN After /\ stage \notin Closing /\ stage # "received"
        /\ After[stage] \in Stages /\ After[stage] # "received"
        /\ StatusAt[stage] \in Statuses \ {"received", "completed", "failed"}
    BY <1>2 DEF Report, After, StatusAt, Stages, Statuses, Closing
  <2> DEFINE written == [row EXCEPT ![t].status = StatusAt[stage],
                                    ![t].plan = @ \/ stage = "planned"]
  <2>2. /\ written \in [Tasks -> Row] /\ written[t].status = StatusAt[stage]
        /\ \A u \in Tasks \ {t} : written[u] = row[u]
    <3>1. row[t] \in Row /\ (row[t].plan \/ stage = "planned") \in BOOLEAN
      BY <1>0, <1>t DEF Row
    <3> QED
      BY <1>0, <1>t, <2>1, <3>1 DEF Row
  <2>3. Await(s, written, After[stage])
    BY <1>2 DEF Report, t
  <2> HIDE DEF written, stage
  <2>4. /\ row' \in [Tasks -> Row] /\ run' \in [Slots -> Run] /\ faults' \in 0..MaxFaults
        /\ \A u \in Tasks \ {t} : row'[u] = row[u]
        /\ row'[t] \in {row[t], written[t]}
        /\ run'[s].task = t /\ run'[s].at \in {After[stage], "failing"}
        /\ \A z \in Slots \ {s} : run'[z] = run[z]
    BY <1>0, <2>1, <2>2, <2>3, AwaitEffect DEF t
  <2>5. StatusMoves(s)
    BY <2>1, <2>2, <2>4 DEF StatusMoves, t, stage
  <2>6. UNCHANGED <<queueVars, begun, subtasks, told, cache, ghosts, troubles>>
    BY <1>2 DEF Report
  <2> QED
    BY <1>0, <1>t, <2>1, <2>4, <2>5, <2>6, Working DEF t, ghosts
<1>g. ASSUME NEW stage \in Stages \ {"received"}, Go(s, stage),
             UNCHANGED <<queueVars, begun, row, cache, ghosts, troubles>>,
             subtasks' \in [Tasks -> SubtaskRows],
             told' \in [Tasks -> SUBSET {"completed", "failed"}],
             faults' \in 0..MaxFaults
      PROVE  TypeOK' /\ Effect(s)
  <2>1. /\ run' \in [Slots -> Run] /\ run'[s].task = t /\ run'[s].at # "received"
        /\ \A z \in Slots \ {s} : run'[z] = run[z]
    BY <1>g, <1>t, GoEffect DEF t
  <2>2. StatusMoves(s)
    BY <1>g DEF StatusMoves
  <2> QED
    BY <1>0, <1>t, <1>g, <2>1, <2>2, Working DEF t, ghosts
<1>p. Created(t) \subseteq [Tasks -> SubtaskRows]
  BY <1>0, <1>t DEF Created, SubtaskRows
<1>3. CASE Decompose(s)
  <2>1. PICK stage \in {"failing", "planning"} : Go(s, stage)
    BY <1>3 DEF Decompose
  <2>2. /\ subtasks' \in [Tasks -> SubtaskRows] /\ faults' \in 0..MaxFaults
    BY <1>3, <1>t, <1>p, Faulty DEF Decompose, t
  <2> QED
    BY <1>3, <1>t, <1>g, <2>1, <2>2 DEF Decompose, Stages
<1>4. CASE Assign(s)
  <2>1. PICK stage \in {"failing", "executing"} : Go(s, stage)
    BY <1>4 DEF Assign
  <2>2. /\ subtasks' \in [Tasks -> SubtaskRows] /\ faults' \in 0..MaxFaults
    BY <1>4, <1>t, <1>p, Faulty DEF Assign, t
  <2> QED
    BY <1>4, <1>t, <1>g, <2>1, <2>2 DEF Assign, Stages
<1>5. CASE Execute(s)
  <2>1. PICK stage \in {"failing", "aggregating"} : Go(s, stage)
    BY <1>5 DEF Execute
  <2>2. /\ subtasks' \in [Tasks -> SubtaskRows] /\ faults' \in 0..MaxFaults
    BY <1>5, <1>t, Faulty DEF Execute, SubtaskRows, t
  <2> QED
    BY <1>5, <1>t, <1>g, <2>1, <2>2 DEF Execute, Stages
<1>5a. CASE StartSubtask(s)
  <2>1. Go(s, "executed")
    BY <1>5a DEF StartSubtask
  <2>2. /\ subtasks' \in [Tasks -> SubtaskRows] /\ faults' \in 0..MaxFaults
    BY <1>5a, <1>t DEF StartSubtask, SubtaskRows, t
  <2> QED
    BY <1>5a, <1>t, <1>g, <2>1, <2>2 DEF StartSubtask, Stages
<1>6. CASE Aggregate(s)
  <2> DEFINE written == [row EXCEPT ![t].status = "aggregating"]
  <2>1. /\ written \in [Tasks -> Row] /\ written[t].status = "aggregating"
        /\ \A u \in Tasks \ {t} : written[u] = row[u]
    <3>1. "aggregating" \in Statuses
      BY DEF Statuses
    <3> QED
      BY <1>0, <1>t, <3>1, StatusWritten
  <2>2. PICK next \in {"verifying", "completing"} : Await(s, written, next)
    BY <1>6 DEF Aggregate, t
  <2> HIDE DEF written
  <2>3. next \in Stages /\ "aggregating" \in Statuses
    BY DEF Stages, Statuses
  <2>4. /\ row' \in [Tasks -> Row] /\ run' \in [Slots -> Run] /\ faults' \in 0..MaxFaults
        /\ \A u \in Tasks \ {t} : row'[u] = row[u]
        /\ row'[t] \in {row[t], written[t]}
        /\ run'[s].task = t /\ run'[s].at \in {next, "failing"}
        /\ \A z \in Slots \ {s} : run'[z] = run[z]
    BY <1>0, <2>1, <2>2, <2>3, AwaitEffect DEF t
  <2>5. StatusMoves(s)
    BY <1>6, <2>1, <2>3, <2>4 DEF StatusMoves, t, Aggregate, At, Closing
  <2>6. UNCHANGED <<queueVars, begun, subtasks, told, cache, ghosts, troubles>>
    BY <1>6 DEF Aggregate
  <2> QED
    BY <1>0, <1>t, <2>4, <2>5, <2>6, Working DEF t, ghosts
<1>7. CASE Complete(s)
  <2> DEFINE next == AfterAnswer(s)
  <2>1. /\ Answered(s) \in [Tasks -> Row] /\ Answered(s)[t].status = "completed"
        /\ \A u \in Tasks \ {t} : Answered(s)[u] = row[u]
    <3>1. row[t] \in Row /\ "completed" \in Statuses
      BY <1>0, <1>t DEF Statuses
    <3> QED
      BY <1>0, <1>t, <3>1 DEF Answered, Row, t
  <2>2. next \in {"remembering", "telling"} /\ next \in Stages /\ "completed" \in Statuses
    BY DEF AfterAnswer, Stages, Statuses
  <2> HIDE DEF next
  <2>3. Await(s, Answered(s), next)
    BY <1>7 DEF Complete, next
  <2>4. /\ row' \in [Tasks -> Row] /\ run' \in [Slots -> Run] /\ faults' \in 0..MaxFaults
        /\ \A u \in Tasks \ {t} : row'[u] = row[u]
        /\ row'[t] \in {row[t], Answered(s)[t]}
        /\ run'[s].task = t /\ run'[s].at \in {next, "failing"}
        /\ \A z \in Slots \ {s} : run'[z] = run[z]
    BY <1>0, <2>1, <2>2, <2>3, AwaitEffect DEF t
  <2>5. StatusMoves(s)
    BY <1>7, <2>1, <2>2, <2>4 DEF StatusMoves, t, Complete, At, Closing
  <2>6. UNCHANGED <<queueVars, begun, subtasks, told, cache, ghosts, troubles>>
    BY <1>7 DEF Complete
  <2> QED
    BY <1>0, <1>t, <2>2, <2>4, <2>5, <2>6, Working DEF t, ghosts
<1>8. CASE Remember(s)
  <2>1. PICK stage \in {"failing", "telling"} : Go(s, stage)
    BY <1>8 DEF Remember
  <2>2. faults' \in 0..MaxFaults
    BY <1>8, <1>t, Faulty DEF Remember
  <2> QED
    BY <1>8, <1>t, <1>g, <2>1, <2>2 DEF Remember, rowVars, Stages
<1>9. CASE Tell(s)
  <2>1. told' \in [Tasks -> SUBSET {"completed", "failed"}] /\ faults' \in 0..MaxFaults
    BY <1>0, <1>9, <1>t, Faulty DEF Tell, Emit, t
  <2> QED
    BY <1>9, <1>t, <1>g, <2>1 DEF Tell, Stages
<1>10. CASE Fail(s)
  <2> DEFINE failed == [row EXCEPT ![t].status = "failed"]
  <2>1. /\ failed \in [Tasks -> Row] /\ failed[t].status = "failed"
        /\ \A u \in Tasks \ {t} : failed[u] = row[u]
    <3>1. "failed" \in Statuses
      BY DEF Statuses
    <3> QED
      BY <1>0, <1>t, <3>1, StatusWritten
  <2> HIDE DEF failed
  <2>2. /\ row' \in {row, failed}
        /\ unwritten' \in SUBSET Tasks /\ faults' \in 0..MaxFaults
        /\ told' \in [Tasks -> SUBSET {"completed", "failed"}]
    BY <1>0, <1>10, <1>t, Faulty DEF Fail, Emit, failed, t
  <2>3. /\ run' \in [Slots -> Run] /\ run'[s].task = t /\ run'[s].at # "received"
        /\ \A z \in Slots \ {s} : run'[z] = run[z]
    BY <1>10, <1>t, Rejected DEF Fail, t
  <2>4. StatusMoves(s)
    BY <1>10, <2>1, <2>2 DEF StatusMoves, t, Fail, At
  <2>5. UNCHANGED <<queueVars, begun, cache, cut, troubles, subtasks>>
    BY <1>10 DEF Fail
  <2> QED
    BY <1>0, <1>t, <2>1, <2>2, <2>3, <2>4, <2>5, Working DEF t
<1>11. CASE Settle(s)
  <2>1. /\ run' \in [Slots -> Run] /\ run'[s] = Idle
        /\ \A z \in Slots \ {s} : run'[z] = run[z]
    <3>1. Idle \in Run
      BY DEF Idle, Starting, Run, Stages
    <3> QED
      BY <1>11, <1>t, <3>1 DEF Settle
  <2>2. cache' \in Seq(Tasks) /\ Len(cache') <= ResultCacheLimit
    BY <1>0, <1>11, <1>t, CachedType DEF Settle, t, RunTypes
  <2>3. /\ job' \in [Tasks -> {"none", "waiting", "active", "completed", "failed"}]
        /\ holder' \in [Tasks -> Slots \cup {NoSlot}]
        /\ \A u \in Tasks \ {t} : job'[u] = job[u]
        /\ job'[t] = job[t] \/ job'[t] \in {"completed", "failed"}
        /\ faults' \in 0..MaxFaults
    BY <1>0, <1>11, <1>t, Faulty DEF Settle, JobAfter, t, TypeOK, QueueTypes
  <2>4. UNCHANGED <<mode, proc, request, stalls, begun, rowVars, ghosts, troubles>>
    BY <1>11 DEF Settle
  <2>5. QueueTypes' /\ RowTypes' /\ RunTypes' /\ CountTypes'
    BY <1>t, <2>1, <2>2, <2>3, <2>4
    DEF TypeOK, QueueTypes, RowTypes, RunTypes, CountTypes, rowVars, ghosts
  <2>6. StatusMoves(s) /\ \A u \in Tasks : row'[u] = row[u]
    BY <2>4 DEF StatusMoves, rowVars
  <2> QED
    BY <1>0, <2>1, <2>3, <2>4, <2>5, <2>6 DEF Effect, TypeOK, t
<1> QED
  BY <1>1, <1>2, <1>3, <1>4, <1>5, <1>5a, <1>6, <1>7, <1>8, <1>9, <1>10, <1>11 DEF Stage

-----------------------------------------------------------------------------
(* The invariant is inductive.                                             *)

LEMMA Initially == Init => IInv
<1> SUFFICES ASSUME Init PROVE IInv
  OBVIOUS
<1>1. QueueTypes /\ CountTypes
  BY DEF Init, QueueTypes, CountTypes, Processes
<1>2. RowTypes
  BY DEF Init, RowTypes, Row, SubtaskRows
<1>3. RunTypes
  BY DEF Init, RunTypes, Run, Idle, Starting, Stages
<1>4. JobsCounted /\ RowsPrecedeWork /\ RunsBegun /\ RowFollowsRun
  BY DEF Init, JobsCounted, RowsPrecedeWork, RunsBegun, RowFollowsRun, Idle, Starting
<1> QED
  BY <1>1, <1>2, <1>3, <1>4 DEF IInv, TypeOK

\* A run that closes does not go back to work.
LEMMA StageCloses ==
  ASSUME RunTypes, NEW s \in Slots, Stage(s), run[s].at \in Closing
  PROVE  run'[s].at \in Closing \/ run'[s] = Idle
<1>1. ~Receive(s) /\ ~Report(s) /\ ~Decompose(s) /\ ~Assign(s) /\ ~StartSubtask(s) /\ ~Execute(s)
      /\ ~Aggregate(s) /\ ~Complete(s)
  BY DEF Receive, Report, Decompose, Assign, StartSubtask, Execute, Aggregate, Complete, At,
         Closing, After
<1>2. CASE Remember(s) \/ Tell(s)
  <2>1. PICK stage \in {"telling", "failing", "settling"} : Go(s, stage)
    BY <1>2 DEF Remember, Tell
  <2> QED
    BY <2>1, GoEffect DEF Closing, Stages
<1>3. CASE Fail(s)
  BY <1>3, Rejected DEF Fail, Closing
<1>4. CASE Settle(s)
  BY <1>4 DEF Settle, RunTypes
<1> QED
  BY <1>1, <1>2, <1>3, <1>4 DEF Stage

LEMMA StageKeeps ==
  ASSUME IInv, NEW s \in Slots, Stage(s)
  PROVE  IInv'
<1> DEFINE t == run[s].task
<1>1. TypeOK' /\ Effect(s)
  BY StageEffect DEF IInv
<1>2. t \in Tasks /\ t # NoTask /\ UNCHANGED <<request, stalls, begun>>
  BY <1>1 DEF Effect
<1>3. begun \in [Tasks -> Nat] /\ stalls \in [Tasks -> Nat]
  BY DEF IInv, TypeOK, QueueTypes, RunTypes
<1>4. begun[t] > 0
  BY <1>2 DEF IInv, RunsBegun
<1>5. JobsCounted'
  BY <1>1, <1>2, <1>3, <1>4 DEF IInv, JobsCounted, Effect
<1>6. \A u \in Tasks : row'[u].status = row[u].status
                      \/ (u = t /\ row'[u].status \in Statuses)
  BY <1>1 DEF Effect, StatusMoves, Statuses
<1>7. RowsPrecedeWork'
  <2>1. request[t] # "none"
    BY <1>2, <1>4 DEF IInv, JobsCounted
  <2>2. \A u \in Tasks : job'[u] # "none" => job[u] # "none" \/ u = t
    BY <1>1 DEF Effect
  <2>3. row[t].status # "absent" /\ "absent" \notin Statuses
    BY <1>2, <1>4 DEF IInv, RowsPrecedeWork, Statuses
  <2> QED
    BY <1>2, <1>4, <1>6, <2>1, <2>2, <2>3 DEF IInv, RowsPrecedeWork
<1>8. RunsBegun'
  <2>1. \A z \in Slots : run'[z].task = run[z].task \/ run'[z].task = NoTask
    BY <1>1 DEF Effect, Idle, Starting
  <2> QED
    BY <1>2, <2>1 DEF IInv, RunsBegun
<1>9. RowFollowsRun'
  <2> SUFFICES ASSUME NEW z \in Slots, run'[z].task # NoTask, begun[run'[z].task] = 1,
                      run'[z].at \notin Closing
               PROVE  /\ row'[run'[z].task].status \notin {"completed", "failed"}
                      /\ run'[z].at = "received" => row'[run'[z].task].status = "received"
    BY <1>2 DEF RowFollowsRun
  <2>1. CASE z = s
    <3>1. run'[s].task = t /\ run'[s].at # "received"
      BY <1>1, <2>1 DEF Effect, Idle, Starting
    <3>2. run[s].at \notin Closing =>
            row[t].status \notin {"completed", "failed"}
      BY <1>2, <2>1, <3>1 DEF IInv, RowFollowsRun
    <3>3. run[s].at \notin Closing
      BY <2>1, <3>1, StageCloses DEF IInv, TypeOK, Idle, Starting
    <3> QED
      BY <1>1, <2>1, <3>1, <3>2, <3>3 DEF Effect, StatusMoves, Closing
  <2>2. CASE z # s
    <3>1. run'[z] = run[z]
      BY <1>1, <2>2 DEF Effect
    <3>2. run[z].task # t
      BY <1>2, <2>2, <3>1 DEF IInv, RunsBegun
    <3>3. run[z].task \in Tasks
      BY <3>1 DEF IInv, TypeOK, RunTypes, Run
    <3>4. row'[run[z].task] = row[run[z].task]
      BY <1>1, <3>2, <3>3 DEF Effect
    <3> QED
      BY <3>1, <3>4 DEF IInv, RowFollowsRun
  <2> QED
    BY <2>1, <2>2
<1> QED
  BY <1>1, <1>5, <1>7, <1>8, <1>9 DEF IInv

-----------------------------------------------------------------------------
(* The route, the queue and the processes keep the invariant.              *)

LEMMA CreateKeeps ==
  ASSUME IInv, NEW t \in Tasks, CreateTask(t)
  PROVE  IInv'
<1> DEFINE listed == [row EXCEPT ![t].status = "received"]
<1>1. listed \in [Tasks -> Row] /\ listed[t].status = "received"
      /\ \A u \in Tasks \ {t} : listed[u] = row[u]
  <2>1. "received" \in Statuses
    BY DEF Statuses
  <2> QED
    BY <2>1, StatusWritten DEF IInv, TypeOK, RowTypes
<1> HIDE DEF listed
<1>2. /\ row' \in {row, listed} /\ faults' \in 0..MaxFaults
      /\ \/ request' = [request EXCEPT ![t] = "created"] /\ row' = listed
         \/ request' = [request EXCEPT ![t] = "refused"]
  BY Faulty DEF CreateTask, listed, IInv, TypeOK, CountTypes
<1>3. UNCHANGED <<mode, proc, job, holder, stalls, begun, subtasks, told, run, cache,
                  ghosts, troubles>>
  BY DEF CreateTask
<1>4. request[t] = "none" /\ begun[t] = 0 /\ job[t] = "none"
  BY DEF CreateTask, IInv, JobsCounted
<1>5. TypeOK'
  <2>1. QueueTypes'
    BY <1>2, <1>3 DEF IInv, TypeOK, QueueTypes
  <2>2. RowTypes' /\ RunTypes' /\ CountTypes'
    BY <1>1, <1>2, <1>3 DEF IInv, TypeOK, RowTypes, RunTypes, CountTypes, ghosts
  <2> QED
    BY <2>1, <2>2 DEF TypeOK
<1>6. JobsCounted'
  BY <1>2, <1>3, <1>4 DEF IInv, JobsCounted, TypeOK, QueueTypes
<1>7. RowsPrecedeWork'
  BY <1>1, <1>2, <1>3, <1>4 DEF IInv, RowsPrecedeWork, TypeOK, QueueTypes, RunTypes
<1>8. RunsBegun'
  BY <1>3 DEF IInv, RunsBegun
<1>9. RowFollowsRun'
  BY <1>1, <1>2, <1>3, <1>4 DEF IInv, RowFollowsRun, TypeOK, RunTypes, Run
<1> QED
  BY <1>5, <1>6, <1>7, <1>8, <1>9 DEF IInv

\* A run begun in an idle slot, for a task that was posted and that the queue, if it
\* is there, took back as often as it was begun.
LEMMA BeginKeeps ==
  ASSUME IInv, TypeOK', NEW t \in Tasks, NEW s \in Slots,
         run[s] = Idle, run' = [run EXCEPT ![s] = Starting(t)],
         begun' = [begun EXCEPT ![t] = @ + 1],
         begun[t] <= stalls[t], row[t].status # "absent",
         request'[t] \notin {"none", "created"}, job'[t] # "waiting",
         job'[t] = "active" => stalls[t] <= MaxStalls,
         \A u \in Tasks \ {t} : request'[u] = request[u] /\ job'[u] = job[u],
         UNCHANGED <<stalls, row>>
  PROVE  IInv'
<1>1. begun[t] \in Nat /\ begun'[t] = begun[t] + 1 /\ stalls[t] \in Nat
      /\ \A u \in Tasks \ {t} : begun'[u] = begun[u]
  BY DEF IInv, TypeOK, RunTypes, QueueTypes
<1>2. run'[s] = Starting(t) /\ \A z \in Slots \ {s} : run'[z] = run[z]
  BY DEF IInv, TypeOK, RunTypes
<1>3. JobsCounted'
  <2> SUFFICES ASSUME NEW u \in Tasks
               PROVE  /\ begun'[u] <= 1 + stalls[u]
                      /\ job'[u] = "waiting" => begun'[u] <= stalls[u]
                      /\ job'[u] \in {"waiting", "active"} => stalls[u] <= MaxStalls
                      /\ request'[u] \in {"none", "created"} =>
                           job'[u] = "none" /\ begun'[u] = 0 /\ stalls[u] = 0
    BY DEF JobsCounted
  <2>1. CASE u = t
    BY <1>1, <2>1
  <2>2. CASE u # t
    BY <1>1, <2>2 DEF IInv, JobsCounted
  <2> QED
    BY <2>1, <2>2
<1>4. RowsPrecedeWork'
  <2> SUFFICES ASSUME NEW u \in Tasks
               PROVE  /\ request'[u] = "none" => row[u].status = "absent"
                      /\ request'[u] = "created" \/ job'[u] # "none" \/ begun'[u] > 0
                           => row[u].status # "absent"
                      /\ begun'[u] = 0 => row[u].status \in {"absent", "received"}
    BY DEF RowsPrecedeWork
  <2>1. CASE u = t
    BY <1>1, <2>1
  <2>2. CASE u # t
    BY <1>1, <2>2 DEF IInv, RowsPrecedeWork
  <2> QED
    BY <2>1, <2>2
<1>5. begun[t] = 0 => row[t].status = "received" /\ \A z \in Slots : run[z].task # t
  <2>1. t # NoTask
    OBVIOUS
  <2> QED
    BY <2>1 DEF IInv, RowsPrecedeWork, RunsBegun
<1>6. \A z \in Slots : run[z].task \in Tasks \cup {NoTask}
  BY DEF IInv, TypeOK, RunTypes, Run
<1>7. RunsBegun'
  <2>1. ASSUME NEW z \in Slots, run'[z].task # NoTask
        PROVE  begun'[run'[z].task] > 0
    BY <1>1, <1>2, <1>6, <2>1 DEF IInv, RunsBegun, Starting
  <2>2. ASSUME NEW z \in Slots, NEW y \in Slots, z # y,
               run'[z].task = run'[y].task, run'[z].task # NoTask
        PROVE  begun'[run'[z].task] > 1
    <3>1. CASE z # s /\ y # s
      <4>1. run'[z] = run[z] /\ run'[y] = run[y] /\ begun[run[z].task] > 1
        BY <1>2, <2>2, <3>1 DEF IInv, RunsBegun
      <4> QED
        BY <1>1, <1>6, <2>2, <4>1
    <3>2. CASE z = s \/ y = s
      <4>1. \E x \in Slots : run[x].task = t
        BY <1>2, <2>2, <3>2 DEF Starting
      <4>2. begun[t] > 0
        BY <1>1, <1>5, <4>1
      <4>3. run'[z].task = t
        BY <1>2, <2>2, <3>2 DEF Starting
      <4> QED
        BY <1>1, <4>2, <4>3
    <3> QED
      BY <3>1, <3>2
  <2> QED
    BY <2>1, <2>2 DEF RunsBegun
<1>8. RowFollowsRun'
  <2> SUFFICES ASSUME NEW z \in Slots, run'[z].task # NoTask, begun'[run'[z].task] = 1,
                      run'[z].at \notin Closing
               PROVE  /\ row[run'[z].task].status \notin {"completed", "failed"}
                      /\ run'[z].at = "received" => row[run'[z].task].status = "received"
    BY DEF RowFollowsRun
  <2>1. CASE run'[z].task = t
    BY <1>1, <1>5, <2>1
  <2>2. CASE run'[z].task # t
    <3>1. run'[z] = run[z] /\ run[z].task \in Tasks
      BY <1>2, <1>6, <2>2 DEF Starting
    <3>2. begun[run[z].task] = 1
      BY <1>1, <2>2, <3>1
    <3> QED
      BY <3>1, <3>2 DEF IInv, RowFollowsRun
  <2> QED
    BY <2>1, <2>2
<1> QED
  BY <1>3, <1>4, <1>7, <1>8 DEF IInv

LEMMA InlineKeeps ==
  ASSUME IInv, NEW t \in Tasks, RunInline(t)
  PROVE  IInv'
<1>1. PICK s \in ApiSlots : run[s] = Idle /\ run' = [run EXCEPT ![s] = Starting(t)]
  BY DEF RunInline
<1>2. s \in Slots
  BY DEF Slots
<1>3. Starting(t) \in Run
  BY DEF Starting, Run, Stages
<1>4. TypeOK'
  <2>1. QueueTypes'
    BY DEF RunInline, IInv, TypeOK, QueueTypes
  <2>2. RunTypes'
    <3>1. begun' = [begun EXCEPT ![t] = @ + 1] /\ UNCHANGED cache
      BY DEF RunInline
    <3>2. run' \in [Slots -> Run] /\ begun' \in [Tasks -> Nat]
      BY <1>1, <1>2, <1>3, <3>1 DEF IInv, TypeOK, RunTypes
    <3> QED
      BY <3>1, <3>2 DEF IInv, TypeOK, RunTypes
  <2>3. RowTypes' /\ CountTypes'
    BY DEF RunInline, IInv, TypeOK, RowTypes, CountTypes, rowVars, ghosts
  <2> QED
    BY <2>1, <2>2, <2>3 DEF TypeOK
<1>5. /\ begun[t] = 0 /\ job[t] = "none" /\ stalls[t] = 0 /\ row[t].status # "absent"
      /\ request'[t] = "accepted"
      /\ \A u \in Tasks \ {t} : request'[u] = request[u] /\ job'[u] = job[u]
      /\ job' = job /\ stalls' = stalls /\ row' = row
      /\ begun' = [begun EXCEPT ![t] = @ + 1]
  BY DEF RunInline, rowVars, IInv, JobsCounted, RowsPrecedeWork, TypeOK, QueueTypes
<1>6. /\ begun[t] <= stalls[t] /\ job'[t] # "waiting" /\ job'[t] # "active"
      /\ request'[t] \notin {"none", "created"} /\ UNCHANGED <<stalls, row>>
  BY <1>5
<1> QED
  BY <1>1, <1>2, <1>4, <1>5, <1>6, BeginKeeps

LEMMA TakeKeeps ==
  ASSUME IInv, NEW s \in Slots, NEW t \in Tasks, TakeJob(s, t)
  PROVE  IInv'
<1>1. Starting(t) \in Run
  BY DEF Starting, Run, Stages
<1>2. TypeOK'
  <2>1. QueueTypes'
    BY DEF TakeJob, IInv, TypeOK, QueueTypes
  <2>2. RunTypes'
    BY <1>1 DEF TakeJob, IInv, TypeOK, RunTypes
  <2>3. RowTypes' /\ CountTypes'
    BY DEF TakeJob, IInv, TypeOK, RowTypes, CountTypes, rowVars, ghosts
  <2> QED
    BY <2>1, <2>2, <2>3 DEF TypeOK
<1>3. /\ begun[t] <= stalls[t] /\ stalls[t] <= MaxStalls
      /\ row[t].status # "absent" /\ request[t] \notin {"none", "created"}
  BY DEF TakeJob, IInv, JobsCounted, RowsPrecedeWork
<1>4. /\ run[s] = Idle /\ run' = [run EXCEPT ![s] = Starting(t)]
      /\ begun' = [begun EXCEPT ![t] = @ + 1]
      /\ job'[t] = "active" /\ request' = request /\ stalls' = stalls /\ row' = row
      /\ \A u \in Tasks \ {t} : job'[u] = job[u]
  BY DEF TakeJob, rowVars, IInv, TypeOK, QueueTypes
<1> QED
  BY <1>2, <1>3, <1>4, BeginKeeps

LEMMA AddKeeps ==
  ASSUME IInv, NEW t \in Tasks, AddJob(t)
  PROVE  IInv'
<1>1. /\ request[t] = "created" /\ job[t] = "none" /\ begun[t] = 0 /\ stalls[t] = 0
      /\ row[t].status # "absent"
  BY DEF AddJob, IInv, JobsCounted, RowsPrecedeWork
<1>2. /\ job' \in {job, [job EXCEPT ![t] = "waiting"]}
      /\ \E answer \in {"accepted", "refused"} : request' = [request EXCEPT ![t] = answer]
      /\ faults' \in 0..MaxFaults
  BY Faulty DEF AddJob, IInv, TypeOK, CountTypes
<1>3. UNCHANGED <<mode, proc, holder, stalls, begun, rowVars, run, cache, ghosts, troubles>>
  BY DEF AddJob
<1>4. TypeOK'
  <2>1. QueueTypes'
    BY <1>2, <1>3 DEF IInv, TypeOK, QueueTypes
  <2>2. RowTypes' /\ RunTypes' /\ CountTypes'
    BY <1>2, <1>3 DEF IInv, TypeOK, RowTypes, RunTypes, CountTypes, rowVars, ghosts
  <2> QED
    BY <2>1, <2>2 DEF TypeOK
<1>5. JobsCounted'
  BY <1>1, <1>2, <1>3 DEF IInv, JobsCounted, TypeOK, QueueTypes
<1>6. RowsPrecedeWork'
  BY <1>1, <1>2, <1>3 DEF IInv, RowsPrecedeWork, TypeOK, QueueTypes, rowVars
<1>7. RunsBegun' /\ RowFollowsRun'
  BY <1>3 DEF IInv, RunsBegun, RowFollowsRun, rowVars
<1> QED
  BY <1>4, <1>5, <1>6, <1>7 DEF IInv

LEMMA StallKeeps ==
  ASSUME IInv, NEW t \in Tasks, Stall(t)
  PROVE  IInv'
<1>1. /\ job[t] = "active" /\ stalls[t] <= MaxStalls /\ begun[t] <= 1 + stalls[t]
      /\ stalls[t] \in Nat /\ begun[t] \in Nat /\ request[t] \notin {"none", "created"}
  BY DEF Stall, IInv, JobsCounted, TypeOK, QueueTypes, RunTypes
<1>2. /\ stalls' = [stalls EXCEPT ![t] = @ + 1]
      /\ job' = [job EXCEPT ![t] = IF stalls[t] < MaxStalls THEN "waiting" ELSE "failed"]
      /\ holder' = [holder EXCEPT ![t] = NoSlot] /\ troubles' \in 0..MaxTroubles
      /\ UNCHANGED <<mode, proc, request, begun, rowVars, run, cache, ghosts, faults>>
  BY DEF Stall, Trouble, IInv, TypeOK, CountTypes
<1>3. TypeOK'
  <2>1. QueueTypes'
    BY <1>1, <1>2 DEF IInv, TypeOK, QueueTypes
  <2>2. RowTypes' /\ RunTypes' /\ CountTypes'
    BY <1>2 DEF IInv, TypeOK, RowTypes, RunTypes, CountTypes, rowVars, ghosts
  <2> QED
    BY <2>1, <2>2 DEF TypeOK
<1>4. JobsCounted'
  BY <1>1, <1>2 DEF IInv, JobsCounted, TypeOK, QueueTypes
<1>5. RowsPrecedeWork'
  BY <1>1, <1>2 DEF IInv, RowsPrecedeWork, TypeOK, QueueTypes, rowVars
<1>6. RunsBegun' /\ RowFollowsRun'
  BY <1>2 DEF IInv, RunsBegun, RowFollowsRun, rowVars
<1> QED
  BY <1>3, <1>4, <1>5, <1>6 DEF IInv

\* Processes that come and go take runs with them and no more.
LEMMA LosingRunsKeeps ==
  ASSUME IInv, TypeOK',
         \A s \in Slots : run'[s] \in {run[s], Idle},
         \A t \in Tasks : request'[t] \in {request[t], "broken"},
         UNCHANGED <<job, stalls, begun, row>>
  PROVE  IInv'
<1>1. JobsCounted' /\ RowsPrecedeWork'
  BY DEF IInv, JobsCounted, RowsPrecedeWork
<1>2. RunsBegun' /\ RowFollowsRun'
  BY DEF IInv, RunsBegun, RowFollowsRun, Idle, Starting
<1> QED
  BY <1>1, <1>2 DEF IInv

LEMMA KillTypes ==
  ASSUME TypeOK, NEW p \in Processes, Kill(p)
  PROVE  /\ proc' \in [Processes -> {"up", "draining", "closed", "down"}]
         /\ run' \in [Slots -> Run] /\ \A s \in Slots : run'[s] \in {run[s], Idle}
         /\ cut' \in SUBSET Tasks
         /\ cache' \in Seq(Tasks) /\ Len(cache') <= ResultCacheLimit
<1>1. Idle \in Run
  BY DEF Idle, Starting, Run, Stages
<1>2. run' \in [Slots -> Run] /\ \A s \in Slots : run'[s] \in {run[s], Idle}
  BY <1>1 DEF Kill, TypeOK, RunTypes
<1>3. \A s \in Busy(p) : run[s].task \in Tasks
  BY DEF Busy, TypeOK, RunTypes, Run, SlotsOf, Slots, Processes
<1>4. cut' \in SUBSET Tasks
  BY <1>3 DEF Kill, TypeOK, CountTypes
<1>5. cache' \in Seq(Tasks) /\ Len(cache') <= ResultCacheLimit
  BY DEF Kill, TypeOK, RunTypes
<1> QED
  BY <1>2, <1>4, <1>5 DEF Kill, TypeOK, QueueTypes

LEMMA ProcessKeeps ==
  ASSUME IInv, NEW p \in Processes, Host(p) \/ Crash(p) \/ Drain(p)
  PROVE  IInv' /\ UNCHANGED <<row, begun>>
<1>1. CASE Crash(p)
  <2>1. Kill(p) /\ troubles' \in 0..MaxTroubles
        /\ UNCHANGED <<mode, job, holder, stalls, begun, rowVars, unwritten, faults>>
    BY <1>1 DEF Crash, Trouble, IInv, TypeOK, CountTypes
  <2>2. /\ request' \in [Tasks -> {"none", "created", "accepted", "refused", "broken"}]
        /\ \A t \in Tasks : request'[t] \in {request[t], "broken"}
    BY <1>1 DEF Crash, IInv, TypeOK, QueueTypes
  <2>3. TypeOK'
    BY <2>1, <2>2, KillTypes
    DEF IInv, TypeOK, QueueTypes, RowTypes, RunTypes, CountTypes, rowVars
  <2> QED
    BY <2>1, <2>2, <2>3, KillTypes, LosingRunsKeeps DEF IInv, rowVars
<1>2. CASE Exit(p)
  <2>1. Kill(p) /\ UNCHANGED <<mode, request, job, holder, stalls, begun, rowVars,
                               unwritten, troubles, faults>>
    BY <1>2 DEF Exit
  <2>2. TypeOK'
    BY <2>1, KillTypes
    DEF IInv, TypeOK, QueueTypes, RowTypes, RunTypes, CountTypes, rowVars
  <2> QED
    BY <2>1, <2>2, KillTypes, LosingRunsKeeps DEF IInv, rowVars
<1>3. CASE Drain(p) \/ CloseQueue(p) \/ Restart(p)
  <2>1. /\ UNCHANGED <<mode, request, job, holder, stalls, begun, rowVars, run, cache,
                       ghosts, faults>>
        /\ troubles' \in 0..MaxTroubles
        /\ proc' \in [Processes -> {"up", "draining", "closed", "down"}]
    BY <1>3 DEF Drain, CloseQueue, Restart, Trouble, IInv, TypeOK, CountTypes, QueueTypes
  <2>2. TypeOK'
    BY <2>1 DEF IInv, TypeOK, QueueTypes, RowTypes, RunTypes, CountTypes, rowVars, ghosts
  <2> QED
    BY <2>1, <2>2, LosingRunsKeeps DEF rowVars
<1> QED
  BY <1>1, <1>2, <1>3 DEF Host

LEMMA StepKeeps == IInv /\ [Next]_vars => IInv'
<1> SUFFICES ASSUME IInv, [Next]_vars PROVE IInv'
  OBVIOUS
<1>1. CASE \E t \in Tasks : CreateTask(t) \/ Enqueue(t) \/ Stall(t)
  BY <1>1, CreateKeeps, InlineKeeps, AddKeeps, StallKeeps DEF Enqueue
<1>2. CASE \E s \in Slots, t \in Tasks : TakeJob(s, t)
  BY <1>2, TakeKeeps
<1>3. CASE \E s \in Slots : Stage(s)
  BY <1>3, StageKeeps
<1>4. CASE \E p \in Processes : Host(p) \/ Crash(p) \/ Drain(p)
  BY <1>4, ProcessKeeps
<1>5. CASE UNCHANGED vars
  <2>1. UNCHANGED <<queueVars, begun, rowVars, run, cache, ghosts, troubles, faults>>
    BY <1>5 DEF vars
  <2>2. TypeOK'
    BY <2>1 DEF IInv, TypeOK, QueueTypes, RowTypes, RunTypes, CountTypes, queueVars,
                rowVars, ghosts
  <2> QED
    BY <2>1, <2>2, LosingRunsKeeps DEF queueVars, rowVars
<1> QED
  BY <1>1, <1>2, <1>3, <1>4, <1>5 DEF Next

LEMMA Invariant == Spec => []IInv
  BY Initially, StepKeeps, PTL DEF Spec

-----------------------------------------------------------------------------
(* The theorems.                                                           *)

\* The rows, jobs, runs and counters stay in their ranges: above all a job stalls at
\* most once more than BullMQ allows, and the result cache keeps its limit
\* (server.ts, jobs/queues.ts).
THEOREM TypesHold == Spec => []TypeOK
<1>1. IInv => TypeOK
  BY DEF IInv
<1> QED
  BY <1>1, Invariant, PTL

\* A task is begun again only for a stall, never for a failure, so no provider call
\* is billed twice by a retry (jobs/queues.ts:60-64).
THEOREM OnlyStallsRerun == Spec => []RerunOnlyForStall
<1>1. IInv => RerunOnlyForStall
  BY DEF IInv, JobsCounted, RerunOnlyForStall
<1> QED
  BY <1>1, Invariant, PTL

\* What a change of one row is for the abstract life.
LEMMA PhaseMoves ==
  ASSUME NEW t \in Tasks, \A u \in Tasks \ {t} : row'[u] = row[u]
  PROVE  Phase' = [Phase EXCEPT ![t] = PhaseOf(row'[t].status)]
  BY DEF Phase

LEMMA PhaseStays ==
  ASSUME \A u \in Tasks : row'[u].status = row[u].status
  PROVE  Phase' = Phase
  BY DEF Phase

LEMMA BeginIsLife ==
  ASSUME IInv, NEW t \in Tasks, begun[t] <= MaxStalls, row[t].status # "absent",
         row[t].status \in Statuses \cup {"absent"},
         begun' = [begun EXCEPT ![t] = @ + 1], UNCHANGED row
  PROVE  Life!Begin(t)
<1>1. Phase[t] # "absent" /\ UNCHANGED Phase
  BY DEF Phase, PhaseOf, Statuses
<1>2. begun[t] < MaxStalls + 1
  BY DEF IInv, TypeOK, RunTypes
<1> QED
  BY <1>1, <1>2 DEF Life!Begin

LEMMA StageIsLife ==
  ASSUME IInv, NEW s \in Slots, Stage(s)
  PROVE  (\E t \in Tasks : Life!Forward(t) \/ Life!Redo(t)) \/ UNCHANGED <<Phase, begun>>
<1> DEFINE t == run[s].task
           before == row[t].status
           after == row'[t].status
<1>1. /\ t \in Tasks /\ t # NoTask /\ UNCHANGED begun /\ StatusMoves(s)
      /\ \A u \in Tasks \ {t} : row'[u] = row[u]
  BY StageEffect DEF IInv, Effect
<1>2. Phase[t] = PhaseOf(before) /\ Phase' = [Phase EXCEPT ![t] = PhaseOf(after)]
      /\ DOMAIN Phase = Tasks
  BY <1>1, PhaseMoves DEF Phase
<1>3. begun[t] > 0 /\ begun[t] \in Nat
  BY <1>1 DEF IInv, RunsBegun, TypeOK, RunTypes
<1>4. before \in Statuses
  BY <1>1, <1>3 DEF IInv, RowsPrecedeWork, TypeOK, RowTypes, Row
<1>5. CASE after = before
  <2>1. \A u \in Tasks : row'[u].status = row[u].status
    BY <1>1, <1>5
  <2> QED
    BY <1>1, <2>1, PhaseStays
<1>6. CASE after # before /\ begun[t] > 1
  <2>1. PhaseOf(after) \in Life!Phases \ {"absent"}
    BY <1>1, <1>6 DEF StatusMoves, PhaseOf, Statuses, Life!Phases
  <2> QED
    BY <1>1, <1>2, <1>6, <2>1 DEF Life!Redo
<1>7. CASE after # before /\ begun[t] = 1 /\ run[s].at = "failing"
  <2>1. PhaseOf(after) = "ended" /\ PhaseOf(before) \in {"received", "working", "ended"}
    BY <1>1, <1>4, <1>7 DEF StatusMoves, PhaseOf, Closing, Statuses
  <2>2. CASE PhaseOf(before) = "ended"
    <3>1. Phase' = Phase
      BY <1>2, <2>1, <2>2 DEF Phase
    <3> QED
      BY <1>1, <3>1
  <2>3. CASE PhaseOf(before) # "ended"
    BY <1>1, <1>2, <1>3, <2>1, <2>3 DEF Life!Forward
  <2> QED
    BY <2>2, <2>3
<1>8. CASE after # before /\ begun[t] = 1 /\ run[s].at # "failing"
  <2>1. /\ run[s].at \notin Closing /\ after \in Statuses
        /\ run[s].at = "received" <=> after = "received"
    BY <1>1, <1>8 DEF StatusMoves
  <2>2. /\ before \notin {"completed", "failed"}
        /\ run[s].at = "received" => before = "received"
    BY <1>1, <1>8, <2>1 DEF IInv, RowFollowsRun
  <2>3. after # "received"
    BY <1>8, <2>1, <2>2
  <2>4. PhaseOf(after) \in {"working", "ended"} /\ PhaseOf(before) \in {"received", "working"}
    BY <1>4, <2>1, <2>2, <2>3 DEF PhaseOf, Statuses
  <2>5. CASE PhaseOf(after) = PhaseOf(before)
    <3>1. Phase' = Phase
      BY <1>2, <2>5 DEF Phase
    <3> QED
      BY <1>1, <3>1
  <2>6. CASE PhaseOf(after) # PhaseOf(before)
    BY <1>1, <1>2, <1>3, <2>4, <2>6 DEF Life!Forward
  <2> QED
    BY <2>5, <2>6
<1> QED
  BY <1>3, <1>5, <1>6, <1>7, <1>8

LEMMA StepIsLife ==
  IInv /\ [Next]_vars => [Life!Next]_<<Phase, begun>>
<1> SUFFICES ASSUME IInv, [Next]_vars
             PROVE  Life!Next \/ UNCHANGED <<Phase, begun>>
  OBVIOUS
<1>0. \A t \in Tasks : row[t] \in Row /\ row[t].status \in Statuses \cup {"absent"}
  BY DEF IInv, TypeOK, RowTypes, Row
<1>1. ASSUME NEW t \in Tasks, CreateTask(t)
      PROVE  Life!Next \/ UNCHANGED <<Phase, begun>>
  <2>1. row[t].status = "absent" /\ UNCHANGED begun
    BY <1>1 DEF CreateTask, IInv, RowsPrecedeWork
  <2>2. CASE row' = row
    BY <2>1, <2>2, PhaseStays
  <2>3. CASE row' = [row EXCEPT ![t].status = "received"]
    <3>1. /\ \A u \in Tasks \ {t} : row'[u] = row[u]
          /\ row'[t].status = "received"
      BY <1>0, <2>3 DEF IInv, TypeOK, RowTypes, Row
    <3>2. Phase[t] = "absent" /\ Phase' = [Phase EXCEPT ![t] = "received"]
      BY <2>1, <3>1, PhaseMoves DEF Phase, PhaseOf
    <3> QED
      BY <2>1, <3>2 DEF Life!Next, Life!List
  <2> QED
    BY <1>1, <2>2, <2>3 DEF CreateTask
<1>2. ASSUME NEW t \in Tasks, RunInline(t)
      PROVE  Life!Next
  <2>1. begun[t] = 0 /\ row[t].status # "absent"
    BY <1>2 DEF RunInline, IInv, JobsCounted, RowsPrecedeWork
  <2>2. begun' = [begun EXCEPT ![t] = @ + 1] /\ UNCHANGED row
    BY <1>2 DEF RunInline, rowVars
  <2>3. begun[t] <= MaxStalls
    BY <2>1
  <2>4. Life!Begin(t)
    BY <1>0, <2>1, <2>2, <2>3, BeginIsLife
  <2> QED
    BY <2>4 DEF Life!Next
<1>3. ASSUME NEW s \in Slots, NEW t \in Tasks, TakeJob(s, t)
      PROVE  Life!Next
  <2>1. begun[t] <= stalls[t] /\ stalls[t] <= MaxStalls /\ row[t].status # "absent"
    BY <1>3 DEF TakeJob, IInv, JobsCounted, RowsPrecedeWork
  <2>2. begun[t] <= MaxStalls
    BY <2>1 DEF IInv, TypeOK, QueueTypes, RunTypes
  <2>3. begun' = [begun EXCEPT ![t] = @ + 1] /\ UNCHANGED row
    BY <1>3 DEF TakeJob, rowVars
  <2> QED
    BY <1>0, <2>1, <2>2, <2>3, BeginIsLife DEF Life!Next
<1>4. ASSUME NEW t \in Tasks, AddJob(t) \/ Stall(t)
      PROVE  UNCHANGED <<Phase, begun>>
  <2>1. UNCHANGED <<row, begun>>
    BY <1>4 DEF AddJob, Stall, rowVars
  <2> QED
    BY <2>1, PhaseStays
<1>5. ASSUME NEW s \in Slots, Stage(s)
      PROVE  Life!Next \/ UNCHANGED <<Phase, begun>>
  BY <1>5, StageIsLife DEF Life!Next
<1>6. ASSUME NEW p \in Processes, Host(p) \/ Crash(p) \/ Drain(p)
      PROVE  UNCHANGED <<Phase, begun>>
  BY <1>6, ProcessKeeps, PhaseStays
<1>7. CASE UNCHANGED vars
  BY <1>7, PhaseStays DEF vars, rowVars
<1> QED
  BY <1>1, <1>2, <1>3, <1>4, <1>5, <1>6, <1>7 DEF Next, Enqueue

\* The pipeline implements the life of a task, whatever crashes, stalls, loses a write
\* or is shut down: one run moves the row one way and leaves an ended task ended, only
\* a second run reopens it, and it is begun at most MaxStalls + 1 times
\* (core/pipeline.ts, jobs/queues.ts).
THEOREM ImplementsLife == Spec => LifeSpec
<1>1. Init => Life!Init
  <2> SUFFICES ASSUME Init PROVE Life!Init
    OBVIOUS
  <2>1. Phase = [t \in Tasks |-> "absent"]
    BY DEF Init, Phase, PhaseOf
  <2> QED
    BY <2>1 DEF Init, Life!Init
<1> QED
  BY <1>1, Invariant, StepIsLife, PTL DEF Spec, LifeSpec, Life!Spec

-----------------------------------------------------------------------------
(* The trace never runs ahead of the stores.                               *)

\* The rows of a schedule that is over, or that another run may have begun again.
Over(sub, runs) == sub \in {"settled", "left"} \/ (sub = "open" /\ runs > 1)

\* What is stored once one of so many runs of a task has come so far.
Stored(r, sub, runs, at) ==
  /\ at \in {"assigning", "executing", "executed", "aggregating", "verifying",
             "completing", "remembering", "telling"} => r.plan
  /\ at \in {"aggregating", "verifying", "completing", "remembering", "telling"} =>
       Over(sub, runs)
  /\ at \in {"remembering", "telling"} => r.output

\* The only run of a task whose answer was told has nothing left to do.
QuietOnceTold ==
  \A t \in Tasks : "completed" \in told[t] =>
    /\ begun[t] > 0
    /\ begun[t] = 1 => \A s \in Slots : run[s].task = t => run[s].at = "settling"

\* Every run has stored what its stage presumes, and what was told is stored.
StoresAhead ==
  /\ \A s \in Slots : run[s].task # NoTask =>
       Stored(row[run[s].task], subtasks[run[s].task], begun[run[s].task], run[s].at)
  /\ QuietOnceTold
  /\ EventsNeverAhead

\* No step takes a stored plan or answer back, or removes the subtask rows.
Kept(t) ==
  /\ row[t].plan => row'[t].plan
  /\ row[t].output => row'[t].output
  /\ subtasks[t] # "none" => subtasks'[t] # "none"

LEMMA AwaitKeeps ==
  ASSUME TypeOK, NEW s \in Slots, NEW t \in Tasks, t = run[s].task,
         NEW written \in [Tasks -> Row],
         row[t].plan => written[t].plan, row[t].output => written[t].output,
         \A u \in Tasks \ {t} : written[u] = row[u],
         NEW next \in Stages, Await(s, written, next), UNCHANGED subtasks
  PROVE  /\ \A u \in Tasks : Kept(u)
         /\ \/ run'[s].at = next /\ row' = written
            \/ run'[s].at = "failing"
<1>1. "failing" \in Stages
  BY DEF Stages
<1>2. row' \in {row, written}
  BY DEF Await
<1>3. \A u \in Tasks : Kept(u)
  BY <1>2 DEF Kept
<1> QED
  BY <1>1, <1>3, GoEffect DEF Await, TypeOK

\* A stage stores what the next one presumes, and tells only what is stored.
LEMMA StageStores ==
  ASSUME IInv, StoresAhead, NEW s \in Slots, Stage(s)
  PROVE  LET t == run[s].task IN
         /\ \A u \in Tasks : Kept(u)
         /\ \A u \in Tasks \ {t} : subtasks'[u] = subtasks[u]
         /\ run[s].at \in {"telling", "settling"} =>
              UNCHANGED subtasks /\ (run'[s] = Idle \/ run'[s].at = "settling")
         /\ run'[s] = Idle \/ Stored(row'[t], subtasks'[t], begun[t], run'[s].at)
         /\ \A u \in Tasks \ {t} : told'[u] = told[u]
         /\ "completed" \in told'[t] =>
              "completed" \in told[t] \/ run[s].at = "telling"
<1> DEFINE t == run[s].task
           Stores == /\ \A u \in Tasks : Kept(u)
                     /\ \A u \in Tasks \ {t} : subtasks'[u] = subtasks[u]
                     /\ run'[s] = Idle \/ Stored(row'[t], subtasks'[t], begun[t], run'[s].at)
<1>1. /\ t \in Tasks /\ t # NoTask /\ Stored(row[t], subtasks[t], begun[t], run[s].at)
      /\ \A u \in Tasks \ {t} : row'[u] = row[u]
      /\ begun[t] \in Nat \ {0}
  BY StageEffect DEF IInv, Effect, StoresAhead, RunsBegun, TypeOK, RunTypes
<1>2. /\ TypeOK /\ RunTypes /\ row \in [Tasks -> Row] /\ run \in [Slots -> Run]
      /\ subtasks \in [Tasks -> SubtaskRows]
      /\ told \in [Tasks -> SUBSET {"completed", "failed"}]
  BY DEF IInv, TypeOK, RowTypes, RunTypes
<1> HIDE DEF t
<1>3. CASE Receive(s)
  <2>1. row' \in {row, [row EXCEPT ![t].status = "received"]} /\ UNCHANGED <<subtasks, told>>
    BY <1>3 DEF Receive, t
  <2>2. \A u \in Tasks : Kept(u)
    BY <1>2, <2>1 DEF Kept, Row
  <2>3. run'[s].at \in {"classifying", "settling"}
    <3>1. "classifying" \in Stages
      BY DEF Stages
    <3> QED
      BY <1>2, <1>3, <3>1, GoEffect, Rejected DEF Receive
  <2>4. run[s].at = "received"
    BY <1>3 DEF Receive, At
  <2> QED
    BY <1>1, <2>1, <2>2, <2>3, <2>4 DEF Stored, t
<1>4. CASE Report(s)
  <2> DEFINE stage == run[s].at
             written == [row EXCEPT ![t].status = StatusAt[stage],
                                    ![t].plan = @ \/ stage = "planned"]
  <2>1. /\ stage \in DOMAIN After /\ After[stage] \in Stages
        /\ StatusAt[stage] \in Statuses
        /\ After[stage] \notin {"remembering", "telling", "aggregating"}
        /\ After[stage] \in {"assigning", "executing"} => stage = "planned"
        /\ After[stage] = "executed" => stage = "executing"
        /\ After[stage] = "completing" => stage = "verifying"
        /\ After[stage] # "verifying" /\ stage \notin {"telling", "settling"}
    BY <1>4 DEF Report, After, StatusAt, Stages, Statuses
  <2>2. /\ written \in [Tasks -> Row]
        /\ row[t].plan \/ stage = "planned" => written[t].plan
        /\ row[t].output => written[t].output
        /\ \A u \in Tasks \ {t} : written[u] = row[u]
    <3>1. row[t] \in Row /\ (row[t].plan \/ stage = "planned") \in BOOLEAN
      BY <1>1, <1>2 DEF Row
    <3> QED
      BY <1>1, <1>2, <2>1, <3>1 DEF Row
  <2>3. Await(s, written, After[stage]) /\ UNCHANGED <<subtasks, told>>
    BY <1>4 DEF Report, t
  <2> HIDE DEF written
  <2>4. /\ \A u \in Tasks : Kept(u)
        /\ \/ run'[s].at = After[stage] /\ row' = written
           \/ run'[s].at = "failing"
    BY <1>1, <1>2, <2>1, <2>2, <2>3, AwaitKeeps DEF t
  <2>5. Stored(row'[t], subtasks'[t], begun[t], run'[s].at)
    BY <1>1, <2>1, <2>2, <2>3, <2>4 DEF Stored
  <2> QED
    BY <1>1, <2>1, <2>3, <2>4, <2>5 DEF t
<1>5. ASSUME UNCHANGED <<row, told>>,
             \A u \in Tasks : subtasks[u] # "none" => subtasks'[u] # "none",
             \A u \in Tasks \ {t} : subtasks'[u] = subtasks[u],
             NEW stage \in Stages, Go(s, stage),
             Stored(row'[t], subtasks'[t], begun[t], stage)
      PROVE  Stores
  BY <1>2, <1>5, GoEffect DEF Kept
<1>c. ASSUME subtasks' \in Created(t)
      PROVE  /\ \A u \in Tasks : subtasks[u] # "none" => subtasks'[u] # "none"
             /\ \A u \in Tasks \ {t} : subtasks'[u] = subtasks[u]
  BY <1>c, <1>1, <1>2 DEF Created
<1>6. CASE Decompose(s)
  <2>1. PICK stage \in {"failing", "planning"} : Go(s, stage)
    BY <1>6 DEF Decompose
  <2>2. /\ UNCHANGED <<row, told>> /\ run[s].at = "decomposed"
        /\ subtasks' \in {subtasks} \cup Created(t)
    BY <1>6 DEF Decompose, At, t
  <2>3. /\ \A u \in Tasks : subtasks[u] # "none" => subtasks'[u] # "none"
        /\ \A u \in Tasks \ {t} : subtasks'[u] = subtasks[u]
    BY <1>c, <2>2
  <2>4. Stored(row'[t], subtasks'[t], begun[t], stage)
    BY <2>1 DEF Stored
  <2> QED
    BY <1>5, <2>1, <2>2, <2>3, <2>4 DEF Stages, t
<1>7. CASE Assign(s)
  <2>1. PICK stage \in {"failing", "executing"} : Go(s, stage)
    BY <1>7 DEF Assign
  <2>2. /\ UNCHANGED <<row, told>> /\ run[s].at = "assigning" /\ subtasks' \in Created(t)
    BY <1>7 DEF Assign, At, t
  <2>3. Stored(row'[t], subtasks'[t], begun[t], stage)
    BY <1>1, <2>1, <2>2 DEF Stored
  <2> QED
    BY <1>5, <1>c, <2>1, <2>2, <2>3 DEF Stages, t
<1>7a. CASE StartSubtask(s)
  <2>1. /\ Go(s, "executed") /\ UNCHANGED <<row, told>> /\ run[s].at = "executed"
        /\ subtasks' = [subtasks EXCEPT ![t] = "open"]
    BY <1>7a DEF StartSubtask, At, t
  <2>2. Stored(row'[t], subtasks'[t], begun[t], "executed")
    BY <1>1, <2>1 DEF Stored
  <2> QED
    BY <1>1, <1>2, <1>5, <2>1, <2>2 DEF Stages, t
<1>8. CASE Execute(s)
  <2>1. PICK stage \in {"failing", "aggregating"}, rows \in {subtasks[t], "settled", "left"} :
          /\ Go(s, stage) /\ subtasks' = [subtasks EXCEPT ![t] = rows]
          /\ stage = "aggregating" => rows \in {"settled", "left"}
    BY <1>8 DEF Execute, t
  <2>2. UNCHANGED <<row, told>> /\ run[s].at = "executed"
    BY <1>8 DEF Execute, At
  <2>3. /\ subtasks'[t] = rows
        /\ \A u \in Tasks : subtasks[u] # "none" => subtasks'[u] # "none"
        /\ \A u \in Tasks \ {t} : subtasks'[u] = subtasks[u]
    BY <1>1, <1>2, <2>1
  <2>4. Stored(row'[t], subtasks'[t], begun[t], stage)
    <3>1. row'[t].plan
      BY <1>1, <2>2 DEF Stored
    <3>2. ASSUME stage = "aggregating" PROVE Over(subtasks'[t], begun[t])
      <4>1. subtasks'[t] \in {"settled", "left"}
        BY <2>1, <2>3, <3>2
      <4> QED
        BY <4>1 DEF Over
    <3> QED
      BY <2>1, <3>1, <3>2 DEF Stored
  <2> QED
    BY <1>5, <2>1, <2>2, <2>3, <2>4 DEF Stages, t
<1>9. CASE Aggregate(s)
  <2> DEFINE written == [row EXCEPT ![t].status = "aggregating"]
  <2>1. /\ written \in [Tasks -> Row]
        /\ written[t].plan = row[t].plan /\ written[t].output = row[t].output
        /\ \A u \in Tasks \ {t} : written[u] = row[u]
    <3>1. "aggregating" \in Statuses /\ row[t] \in Row
      BY <1>1, <1>2 DEF Statuses
    <3> QED
      BY <1>1, <1>2, <3>1 DEF Row
  <2>2. PICK next \in {"verifying", "completing"} : Await(s, written, next)
    BY <1>9 DEF Aggregate, t
  <2>3. UNCHANGED <<subtasks, told>> /\ run[s].at = "aggregating" /\ next \in Stages
    BY <1>9 DEF Aggregate, At, Stages
  <2> HIDE DEF written
  <2>4. /\ \A u \in Tasks : Kept(u)
        /\ \/ run'[s].at = next /\ row' = written
           \/ run'[s].at = "failing"
    BY <1>1, <1>2, <2>1, <2>2, <2>3, AwaitKeeps DEF t
  <2>5. Stored(row'[t], subtasks'[t], begun[t], run'[s].at)
    BY <1>1, <2>1, <2>3, <2>4 DEF Stored
  <2> QED
    BY <1>1, <2>3, <2>4, <2>5 DEF t
<1>10. CASE Complete(s)
  <2>1. /\ Answered(s) \in [Tasks -> Row]
        /\ Answered(s)[t].plan = row[t].plan /\ Answered(s)[t].output
        /\ \A u \in Tasks \ {t} : Answered(s)[u] = row[u]
    <3>1. row[t] \in Row /\ "completed" \in Statuses
      BY <1>1, <1>2 DEF Statuses
    <3> QED
      BY <1>1, <1>2, <3>1 DEF Answered, Row, t
  <2>2. /\ Await(s, Answered(s), AfterAnswer(s)) /\ UNCHANGED <<subtasks, told>>
        /\ run[s].at = "completing" /\ AfterAnswer(s) \in Stages
    BY <1>10 DEF Complete, At, AfterAnswer, Stages
  <2>3. /\ \A u \in Tasks : Kept(u)
        /\ \/ run'[s].at = AfterAnswer(s) /\ row' = Answered(s)
           \/ run'[s].at = "failing"
    BY <1>1, <1>2, <2>1, <2>2, AwaitKeeps DEF t
  <2>4. Stored(row'[t], subtasks'[t], begun[t], run'[s].at)
    BY <1>1, <2>1, <2>2, <2>3 DEF Stored
  <2> QED
    BY <1>1, <2>2, <2>3, <2>4 DEF t
<1>11. CASE Remember(s)
  <2>1. PICK stage \in {"failing", "telling"} : Go(s, stage)
    BY <1>11 DEF Remember
  <2>2. UNCHANGED <<row, subtasks, told>> /\ run[s].at = "remembering"
    BY <1>11 DEF Remember, At, rowVars
  <2>3. Stored(row'[t], subtasks'[t], begun[t], stage)
    BY <1>1, <2>1, <2>2 DEF Stored
  <2> QED
    BY <1>1, <1>5, <2>1, <2>2, <2>3 DEF Stages, t
<1>12. CASE Tell(s)
  <2>1. /\ UNCHANGED <<row, subtasks>> /\ run[s].at = "telling"
        /\ told' \in {told, [told EXCEPT ![t] = @ \cup {"completed"}]}
    BY <1>12 DEF Tell, At, Emit, t
  <2>2. run'[s].at = "settling"
    BY <1>2, <1>12, GoEffect DEF Tell, Stages
  <2>3. \A u \in Tasks \ {t} : told'[u] = told[u]
    BY <1>2, <2>1
  <2>4. Stored(row'[t], subtasks'[t], begun[t], run'[s].at) /\ \A u \in Tasks : Kept(u)
    BY <1>1, <2>1, <2>2 DEF Stored, Kept
  <2> QED
    BY <2>1, <2>2, <2>3, <2>4 DEF t
<1>13. CASE Fail(s)
  <2>1. /\ row' \in {row, [row EXCEPT ![t].status = "failed"]} /\ UNCHANGED subtasks
        /\ told' \in {told, [told EXCEPT ![t] = @ \cup {"failed"}]}
    BY <1>13 DEF Fail, Emit, t
  <2>2. \A u \in Tasks : Kept(u)
    BY <1>2, <2>1 DEF Kept, Row
  <2>3. run'[s].at = "settling"
    BY <1>2, <1>13, Rejected DEF Fail
  <2>4. Stored(row'[t], subtasks'[t], begun[t], run'[s].at)
    BY <2>3 DEF Stored
  <2>5. /\ \A u \in Tasks \ {t} : told'[u] = told[u]
        /\ "completed" \in told'[t] => "completed" \in told[t]
    BY <1>1, <1>2, <2>1
  <2>6. run[s].at = "failing"
    BY <1>13 DEF Fail, At
  <2> QED
    BY <2>1, <2>2, <2>4, <2>5, <2>6 DEF t
<1>14. CASE Settle(s)
  <2>1. UNCHANGED <<row, subtasks, told>> /\ run'[s] = Idle
    BY <1>2, <1>14 DEF Settle, rowVars
  <2> QED
    BY <2>1 DEF Kept
<1> QED
  BY <1>3, <1>4, <1>6, <1>7, <1>7a, <1>8, <1>9, <1>10, <1>11, <1>12, <1>13, <1>14 DEF Stage

\* Steps outside the runs keep the rows; a run that begins, at the first stage, is
\* counted, and a run that is lost leaves its slot idle.
LEMMA OutsideKeepsStores ==
  ASSUME IInv, StoresAhead, UNCHANGED <<subtasks, told>>,
         \A u \in Tasks : row[u].plan = row'[u].plan /\ row[u].output = row'[u].output,
         \A u \in Tasks : begun'[u] \in {begun[u], begun[u] + 1},
         \A s \in Slots : \/ run'[s] = run[s]
                          \/ run'[s] = Idle
                          \/ /\ run'[s].task \in Tasks /\ run'[s].at = "received"
                             /\ begun'[run'[s].task] = begun[run'[s].task] + 1
  PROVE  StoresAhead'
<1>1. /\ \A s \in Slots : run[s].task \in Tasks \cup {NoTask}
      /\ \A u \in Tasks : begun[u] \in Nat
  BY DEF IInv, TypeOK, RunTypes, Run
<1>2. Idle.task = NoTask /\ Idle.at = "received"
  BY DEF Idle, Starting
<1>3. ASSUME NEW u \in Tasks, Over(subtasks[u], begun[u])
      PROVE  Over(subtasks'[u], begun'[u])
  BY <1>1, <1>3 DEF Over
<1>4. ASSUME NEW s \in Slots, run'[s].task # NoTask
      PROVE  Stored(row'[run'[s].task], subtasks'[run'[s].task], begun'[run'[s].task], run'[s].at)
  <2>1. CASE run'[s] = run[s]
    <3>1. run[s].task \in Tasks
      BY <1>1, <1>4, <2>1
    <3>2. Stored(row[run[s].task], subtasks[run[s].task], begun[run[s].task], run[s].at)
      BY <1>4, <2>1 DEF StoresAhead
    <3> QED
      BY <1>3, <2>1, <3>1, <3>2 DEF Stored
  <2>2. CASE run'[s].at = "received"
    BY <2>2 DEF Stored
  <2> QED
    BY <1>2, <1>4, <2>1, <2>2
<1>5. QuietOnceTold'
  <2> SUFFICES ASSUME NEW u \in Tasks, "completed" \in told[u]
               PROVE  /\ begun'[u] > 0
                      /\ begun'[u] = 1 =>
                           \A s \in Slots : run'[s].task = u => run'[s].at = "settling"
    BY DEF QuietOnceTold
  <2>1. /\ begun[u] > 0
        /\ begun[u] = 1 => \A s \in Slots : run[s].task = u => run[s].at = "settling"
    BY DEF StoresAhead, QuietOnceTold
  <2>2. begun'[u] > 0 /\ (begun'[u] = 1 => begun[u] = 1)
    BY <1>1, <2>1
  <2>3. ASSUME begun'[u] = 1, NEW s \in Slots, run'[s].task = u
        PROVE  run'[s].at = "settling"
    <3>1. run'[s] # Idle
      BY <1>2, <2>3
    <3>2. begun'[u] # begun[u] + 1
      BY <1>1, <2>1, <2>3
    <3> QED
      BY <2>1, <2>2, <2>3, <3>1, <3>2
  <2> QED
    BY <2>2, <2>3
<1>6. EventsNeverAhead'
  <2> SUFFICES ASSUME NEW u \in Tasks, "completed" \in told[u]
               PROVE  row'[u].output /\ row'[u].plan /\ Over(subtasks'[u], begun'[u])
    BY DEF EventsNeverAhead, Over
  <2>1. row[u].output /\ row[u].plan /\ Over(subtasks[u], begun[u])
    BY DEF StoresAhead, EventsNeverAhead, Over
  <2> QED
    BY <1>3, <2>1
<1> QED
  BY <1>4, <1>5, <1>6 DEF StoresAhead

LEMMA OutsideStores ==
  ASSUME IInv, StoresAhead, [Next]_vars, ~(\E s \in Slots : Stage(s))
  PROVE  StoresAhead'
<1>1. \A t \in Tasks : Starting(t).at = "received" /\ Starting(t).task = t
  BY DEF Starting
<1>2. /\ row \in [Tasks -> Row] /\ run \in [Slots -> Run] /\ TypeOK
      /\ begun \in [Tasks -> Nat] /\ ApiSlots \subseteq Slots
  BY DEF IInv, TypeOK, RowTypes, RunTypes, Slots
<1>3. ASSUME NEW t \in Tasks, CreateTask(t)
      PROVE  StoresAhead'
  <2>1. /\ UNCHANGED <<subtasks, told, run, begun>>
        /\ row' \in {row, [row EXCEPT ![t].status = "received"]}
    BY <1>3 DEF CreateTask
  <2>2. \A u \in Tasks : row[u].plan = row'[u].plan /\ row[u].output = row'[u].output
    BY <1>2, <2>1 DEF Row
  <2> QED
    BY <2>1, <2>2, OutsideKeepsStores
<1>4. ASSUME NEW t \in Tasks, NEW s \in Slots, UNCHANGED rowVars,
             run' = [run EXCEPT ![s] = Starting(t)], begun' = [begun EXCEPT ![t] = @ + 1]
      PROVE  StoresAhead'
  <2>1. \A u \in Tasks : begun'[u] \in {begun[u], begun[u] + 1}
    BY <1>2, <1>4
  <2>2. \A z \in Slots : \/ run'[z] = run[z]
                         \/ /\ run'[z].task \in Tasks /\ run'[z].at = "received"
                            /\ begun'[run'[z].task] = begun[run'[z].task] + 1
    BY <1>1, <1>2, <1>4
  <2> QED
    BY <1>4, <2>1, <2>2, OutsideKeepsStores DEF rowVars
<1>5. ASSUME UNCHANGED <<rowVars, begun>>, \A s \in Slots : run'[s] \in {run[s], Idle}
      PROVE  StoresAhead'
  BY <1>5, OutsideKeepsStores DEF rowVars
<1>6. ASSUME NEW t \in Tasks, RunInline(t)
      PROVE  StoresAhead'
  <2>1. PICK s \in ApiSlots : run' = [run EXCEPT ![s] = Starting(t)]
    BY <1>6 DEF RunInline
  <2>2. UNCHANGED rowVars /\ begun' = [begun EXCEPT ![t] = @ + 1]
    BY <1>6 DEF RunInline
  <2> QED
    BY <1>2, <1>4, <2>1, <2>2
<1>7. ASSUME NEW s \in Slots, NEW t \in Tasks, TakeJob(s, t)
      PROVE  StoresAhead'
  BY <1>4, <1>7 DEF TakeJob
<1>8. ASSUME NEW t \in Tasks, AddJob(t) \/ Stall(t)
      PROVE  StoresAhead'
  BY <1>5, <1>8 DEF AddJob, Stall
<1>9. ASSUME NEW p \in Processes, Host(p) \/ Crash(p) \/ Drain(p)
      PROVE  StoresAhead'
  <2>1. UNCHANGED <<rowVars, begun>>
    BY <1>9 DEF Host, Crash, Drain, CloseQueue, Exit, Restart
  <2>2. CASE Crash(p) \/ Exit(p)
    BY <1>2, <1>5, <2>1, <2>2, KillTypes DEF Crash, Exit
  <2>3. CASE Drain(p) \/ CloseQueue(p) \/ Restart(p)
    BY <1>5, <2>1, <2>3 DEF Drain, CloseQueue, Restart
  <2> QED
    BY <1>9, <2>2, <2>3 DEF Host
<1>10. CASE UNCHANGED vars
  BY <1>5, <1>10 DEF vars
<1> QED
  BY <1>3, <1>6, <1>7, <1>8, <1>9, <1>10 DEF Next, Enqueue

LEMMA StoresStayAhead == IInv /\ StoresAhead /\ [Next]_vars => StoresAhead'
<1> SUFFICES ASSUME IInv, StoresAhead, NEW s \in Slots, Stage(s)
             PROVE  StoresAhead'
  BY OutsideStores
<1> DEFINE t == run[s].task
<1>1. /\ t \in Tasks /\ t # NoTask
      /\ \A z \in Slots \ {s} : run'[z] = run[z]
      /\ run'[s] = Idle \/ run'[s].task = t
      /\ \A u \in Tasks \ {t} : row'[u] = row[u]
      /\ UNCHANGED begun
  BY StageEffect DEF IInv, Effect
<1>2. /\ \A u \in Tasks : Kept(u)
      /\ \A u \in Tasks \ {t} : subtasks'[u] = subtasks[u]
      /\ run[s].at \in {"telling", "settling"} =>
           UNCHANGED subtasks /\ (run'[s] = Idle \/ run'[s].at = "settling")
      /\ run'[s] = Idle \/ Stored(row'[t], subtasks'[t], begun[t], run'[s].at)
      /\ \A u \in Tasks \ {t} : told'[u] = told[u]
      /\ "completed" \in told'[t] =>
           "completed" \in told[t] \/ run[s].at = "telling"
  BY StageStores
<1>3. /\ \A z \in Slots : run[z].task \in Tasks \cup {NoTask}
      /\ \A u \in Tasks : begun[u] \in Nat
      /\ subtasks' \in [Tasks -> SubtaskRows]
      /\ Idle.task = NoTask
  BY StageEffect DEF IInv, TypeOK, RunTypes, RowTypes, Run, Idle, Starting
<1>4. /\ begun[t] > 0
      /\ \A z \in Slots \ {s} : run[z].task = t => begun[t] > 1
  BY <1>1 DEF IInv, RunsBegun
\* Where a task was begun twice its rows only have to be there.
<1>5. ASSUME NEW u \in Tasks, Over(subtasks[u], begun[u]),
             begun[u] > 1 \/ subtasks'[u] = subtasks[u]
      PROVE  Over(subtasks'[u], begun[u])
  BY <1>2, <1>3, <1>5 DEF Over, Kept, SubtaskRows
<1> HIDE DEF t
<1>6. ASSUME NEW z \in Slots, run'[z].task # NoTask
      PROVE  Stored(row'[run'[z].task], subtasks'[run'[z].task], begun'[run'[z].task], run'[z].at)
  <2>1. CASE z = s
    BY <1>1, <1>2, <1>3, <1>6, <2>1
  <2>2. CASE z # s
    <3> DEFINE u == run[z].task
    <3>1. run'[z] = run[z] /\ u \in Tasks
      BY <1>1, <1>3, <1>6, <2>2
    <3>2. Stored(row[u], subtasks[u], begun[u], run[z].at) /\ Kept(u)
      BY <1>2, <1>6, <3>1 DEF StoresAhead
    <3>3. begun[u] > 1 \/ subtasks'[u] = subtasks[u]
      BY <1>2, <1>4, <2>2, <3>1
    <3>4. Over(subtasks[u], begun[u]) => Over(subtasks'[u], begun[u])
      BY <1>5, <3>1, <3>3
    <3> HIDE DEF u
    <3>5. Stored(row'[u], subtasks'[u], begun[u], run[z].at)
      BY <3>2, <3>4 DEF Stored, Kept
    <3> QED
      BY <1>1, <3>1, <3>5 DEF u
  <2> QED
    BY <2>1, <2>2
<1>7. ASSUME NEW u \in Tasks, "completed" \in told'[u]
      PROVE  \/ "completed" \in told[u]
             \/ u = t /\ run[s].at = "telling"
  BY <1>2, <1>7
<1>8. QuietOnceTold'
  <2> SUFFICES ASSUME NEW u \in Tasks, "completed" \in told'[u]
               PROVE  /\ begun[u] > 0
                      /\ begun[u] = 1 =>
                           \A z \in Slots : run'[z].task = u => run'[z].at = "settling"
    BY <1>1 DEF QuietOnceTold
  <2>1. begun[u] > 0
    BY <1>4, <1>7 DEF StoresAhead, QuietOnceTold
  <2>2. ASSUME begun[u] = 1, NEW z \in Slots, run'[z].task = u
        PROVE  run'[z].at = "settling"
    <3>1. CASE z = s
      <4>1. u = t /\ run'[s] # Idle
        BY <1>1, <1>3, <2>2, <3>1
      <4>2. run[s].at \in {"telling", "settling"}
        BY <1>7, <2>2, <4>1 DEF StoresAhead, QuietOnceTold, t
      <4> QED
        BY <1>2, <3>1, <4>1, <4>2
    <3>2. CASE z # s
      <4>1. run'[z] = run[z]
        BY <1>1, <3>2
      <4>2. u # t
        BY <1>4, <2>2, <3>2, <4>1
      <4> QED
        BY <1>7, <2>2, <4>1, <4>2 DEF StoresAhead, QuietOnceTold
    <3> QED
      BY <3>1, <3>2
  <2> QED
    BY <2>1, <2>2
<1>9. EventsNeverAhead'
  <2> SUFFICES ASSUME NEW u \in Tasks, "completed" \in told'[u]
               PROVE  row'[u].output /\ row'[u].plan /\ Over(subtasks'[u], begun[u])
    BY <1>1 DEF EventsNeverAhead, Over
  <2>1. row[u].output /\ row[u].plan /\ Over(subtasks[u], begun[u])
    <3>1. CASE "completed" \in told[u]
      BY <3>1 DEF StoresAhead, EventsNeverAhead, Over
    <3>2. CASE u = t /\ run[s].at = "telling"
      <4>1. Stored(row[t], subtasks[t], begun[t], run[s].at)
        BY <1>1 DEF StoresAhead, t
      <4> QED
        BY <3>2, <4>1 DEF Stored
    <3> QED
      BY <1>7, <3>1, <3>2
  <2>2. begun[u] > 1 \/ subtasks'[u] = subtasks[u]
    <3>1. CASE u # t
      BY <1>2, <3>1
    <3>2. CASE u = t /\ begun[t] = 1
      <4>1. run[s].at \in {"telling", "settling"}
        BY <1>7, <3>2 DEF StoresAhead, QuietOnceTold, t
      <4> QED
        BY <1>2, <4>1
    <3> QED
      BY <1>3, <1>4, <3>1, <3>2
  <2> QED
    BY <1>2, <1>5, <2>1, <2>2 DEF Kept
<1> QED
  BY <1>6, <1>8, <1>9 DEF StoresAhead

\* A client that reads completed in the trace finds the answer and its plan stored,
\* with any number of runs of a task interleaved and any store operation rejected, and
\* the subtask rows of a schedule that is over: all of them decided but those the
\* deadline or a lost write left running, unless a second run has begun them again
\* (core/pipeline.ts:347-396, core/orchestrator/executor.ts:311-323).
THEOREM TraceNeverAhead == Spec => []EventsNeverAhead
<1>1. Init => StoresAhead
  BY DEF Init, StoresAhead, Stored, QuietOnceTold, EventsNeverAhead, Idle, Starting
<1>2. StoresAhead => EventsNeverAhead
  BY DEF StoresAhead
<1> QED
  BY <1>1, <1>2, Invariant, StoresStayAhead, PTL DEF Spec

-----------------------------------------------------------------------------
(* No accepted task is forgotten.                                          *)

HoldersActive == \A t \in Tasks : holder[t] # NoSlot => job[t] = "active"

\* Stages that have nothing left to write of the verdict.
Written == {"remembering", "telling", "settling"}

\* A run that has yet to write the verdict of t.
Writing(t) == \E s \in Slots : run[s].task = t /\ run[s].at \notin Written

\* Stronger than NoneForgotten: a run that only closes, or a job that such a run
\* holds, does not count as having the task in hand.
Owed ==
  \A t \in Tasks : request[t] = "accepted" =>
    Ended(t) \/ Writing(t) \/ job[t] = "waiting" \/ Orphaned(t) \/ GivenUp(t)

HandInv == HoldersActive /\ Owed

LEMMA StageWrites ==
  ASSUME IInv, NEW s \in Slots, Stage(s)
  PROVE  LET t == run[s].task IN
         /\ unwritten \subseteq unwritten' /\ UNCHANGED cut
         /\ \/ UNCHANGED <<job, holder>>
            \/ /\ run[s].at = "settling" /\ holder[t] = s
               /\ holder' = [holder EXCEPT ![t] = NoSlot]
               /\ \A u \in Tasks \ {t} : job'[u] = job[u]
         /\ \/ run'[s].task = t /\ run'[s].at \notin Written
            \/ row'[t].status \in {"completed", "failed"}
            \/ t \in unwritten'
            \/ run[s].at \in Written /\ UNCHANGED row
<1> DEFINE t == run[s].task
<1>1. TypeOK /\ RunTypes /\ t \in Tasks /\ row \in [Tasks -> Row]
  BY StageEffect DEF IInv, Effect, TypeOK, RowTypes
<1> HIDE DEF t
<1>2. CASE Receive(s)
  <2>1. Go(s, "classifying") \/ t \in unwritten'
    BY <1>2 DEF Receive, t
  <2>2. "classifying" \in Stages \ Written
    BY DEF Stages, Written
  <2> QED
    BY <1>1, <1>2, <2>1, <2>2, GoEffect DEF Receive, queueVars, t
<1>3. CASE Report(s)
  <2>1. \E stage \in Stages \ Written : Go(s, stage)
    BY <1>3 DEF Report, Await, After, Stages, Written
  <2> QED
    BY <1>1, <1>3, <2>1, GoEffect DEF Report, queueVars, ghosts, t
<1>4. CASE Decompose(s) \/ Assign(s) \/ StartSubtask(s) \/ Execute(s) \/ Aggregate(s)
  <2>1. \E stage \in Stages \ Written : Go(s, stage)
    BY <1>4 DEF Decompose, Assign, StartSubtask, Execute, Aggregate, Await, Stages, Written
  <2> QED
    BY <1>1, <1>4, <2>1, GoEffect
    DEF Decompose, Assign, StartSubtask, Execute, Aggregate, queueVars, ghosts, t
<1>5. CASE Complete(s)
  <2>1. row' = Answered(s) \/ Go(s, "failing")
    BY <1>5 DEF Complete, Await
  <2>2. Answered(s)[t].status = "completed"
    BY <1>1 DEF Answered, Row, t
  <2>3. "failing" \in Stages \ Written
    BY DEF Stages, Written
  <2> QED
    BY <1>1, <1>5, <2>1, <2>2, <2>3, GoEffect DEF Complete, queueVars, ghosts, t
<1>6. CASE Remember(s) \/ Tell(s)
  BY <1>6 DEF Remember, Tell, At, Written, queueVars, rowVars, ghosts, t
<1>7. CASE Fail(s)
  <2>1. row' = [row EXCEPT ![t].status = "failed"] \/ t \in unwritten'
    BY <1>7 DEF Fail, t
  <2>2. [row EXCEPT ![t].status = "failed"][t].status = "failed"
    BY <1>1 DEF Row
  <2> QED
    BY <1>7, <2>1, <2>2 DEF Fail, queueVars, t
<1>8. CASE Settle(s)
  <2>1. \/ UNCHANGED <<job, holder>>
        \/ /\ run[s].at = "settling" /\ holder[t] = s
           /\ holder' = [holder EXCEPT ![t] = NoSlot]
           /\ \A u \in Tasks \ {t} : job'[u] = job[u]
    BY <1>1, <1>8 DEF Settle, At, t, TypeOK, QueueTypes
  <2> QED
    BY <1>8, <2>1 DEF Settle, At, Written, rowVars, ghosts, t
<1> QED
  BY <1>2, <1>3, <1>4, <1>5, <1>6, <1>7, <1>8 DEF Stage

LEMMA StageHand ==
  ASSUME IInv, HandInv, NEW s \in Slots, Stage(s)
  PROVE  HandInv'
<1> DEFINE t == run[s].task
<1>1. /\ t \in Tasks /\ t # NoTask /\ UNCHANGED <<request, stalls>>
      /\ \A z \in Slots \ {s} : run'[z] = run[z]
      /\ \A u \in Tasks \ {t} : row'[u] = row[u]
      /\ run'[s] = Idle \/ run'[s].task = t
  BY StageEffect DEF IInv, Effect
<1>2. /\ unwritten \subseteq unwritten' /\ UNCHANGED cut
      /\ \/ UNCHANGED <<job, holder>>
         \/ /\ run[s].at = "settling" /\ holder[t] = s
            /\ holder' = [holder EXCEPT ![t] = NoSlot]
            /\ \A u \in Tasks \ {t} : job'[u] = job[u]
      /\ \/ run'[s].task = t /\ run'[s].at \notin Written
         \/ row'[t].status \in {"completed", "failed"}
         \/ t \in unwritten'
         \/ run[s].at \in Written /\ UNCHANGED row
  BY StageWrites
<1>3. holder \in [Tasks -> Slots \cup {NoSlot}]
  BY DEF IInv, TypeOK, QueueTypes
<1>4. HoldersActive'
  BY <1>1, <1>2, <1>3 DEF HandInv, HoldersActive
<1>5. Owed'
  <2> SUFFICES ASSUME NEW u \in Tasks, request[u] = "accepted"
               PROVE  (Ended(u) \/ Writing(u) \/ job[u] = "waiting" \/ Orphaned(u)
                       \/ GivenUp(u))'
    BY <1>1 DEF Owed
  <2>1. Ended(u) \/ Writing(u) \/ job[u] = "waiting" \/ Orphaned(u) \/ GivenUp(u)
    BY DEF HandInv, Owed
  <2>2. GivenUp(u) => GivenUp(u)'
    BY <1>1, <1>2 DEF GivenUp
  <2>3. CASE u # t
    <3>1. row'[u] = row[u] /\ job'[u] = job[u] /\ holder'[u] = holder[u]
      BY <1>1, <1>2, <1>3, <2>3
    <3>2. Writing(u) => Writing(u)'
      <4> SUFFICES ASSUME NEW z \in Slots, run[z].task = u, run[z].at \notin Written
                   PROVE  Writing(u)'
        BY DEF Writing
      <4>1. run'[z] = run[z]
        BY <1>1, <2>3
      <4> QED
        BY <4>1 DEF Writing
    <3>3. \A z \in Slots : run'[z].task = u => run[z].task = u
      BY <1>1, <2>3 DEF Idle, Starting
    <3>4. Orphaned(u) => Orphaned(u)'
      BY <3>1, <3>3 DEF Orphaned, Runs
    <3> QED
      BY <2>1, <2>2, <3>1, <3>2, <3>4 DEF Ended
  <2>4. CASE u = t
    <3>1. CASE run'[s].task = t /\ run'[s].at \notin Written
      BY <2>4, <3>1 DEF Writing
    <3>2. CASE row'[t].status \in {"completed", "failed"}
      BY <2>4, <3>2 DEF Ended
    <3>3. CASE t \in unwritten'
      BY <2>4, <3>3 DEF GivenUp
    <3>4. CASE run[s].at \in Written /\ UNCHANGED row
      <4>1. Ended(u) => Ended(u)'
        BY <3>4 DEF Ended
      <4>2. Writing(u) => Writing(u)'
        <5> SUFFICES ASSUME NEW z \in Slots, run[z].task = u, run[z].at \notin Written
                     PROVE  Writing(u)'
          BY DEF Writing
        <5>1. run'[z] = run[z]
          BY <1>1, <3>4
        <5> QED
          BY <5>1 DEF Writing
      <4>3. job[u] = "waiting" => job'[u] = "waiting"
        BY <1>2, <1>3, <2>4 DEF HandInv, HoldersActive
      <4>4. Orphaned(u) => Orphaned(u)'
        <5> SUFFICES ASSUME Orphaned(u) PROVE Orphaned(u)'
          OBVIOUS
        <5>1. holder[u] # s
          BY <2>4 DEF Orphaned, Runs
        <5>2. UNCHANGED <<job, holder>>
          BY <1>2, <2>4, <5>1
        <5>3. \A z \in Slots : run'[z].task = u => run[z].task = u
          BY <1>1, <2>4
        <5> QED
          BY <5>2, <5>3 DEF Orphaned, Runs
      <4> QED
        BY <2>1, <2>2, <4>1, <4>2, <4>3, <4>4
    <3> QED
      BY <1>2, <3>1, <3>2, <3>3, <3>4
  <2> QED
    BY <2>3, <2>4
<1> QED
  BY <1>4, <1>5 DEF HandInv

\* Steps that kill no run and change at most the request, the job and the runs of t.
LEMMA OutsideHand ==
  ASSUME IInv, HandInv, NEW t \in Tasks,
         UNCHANGED <<ghosts, rowVars>> \/ UNCHANGED <<ghosts, begun, run, job, holder>>,
         \A u \in Tasks : Ended(u) => Ended(u)',
         \A u \in Tasks \ {t} : /\ request'[u] = request[u] /\ stalls'[u] = stalls[u]
                                /\ job'[u] = job[u] /\ holder'[u] = holder[u],
         \A s \in Slots : run'[s] = run[s] \/ (run[s] = Idle /\ run'[s].task = t),
         holder'[t] # NoSlot => job'[t] = "active",
         (request[t] = "accepted" => Ended(t) \/ Writing(t) \/ job[t] = "waiting"
                                     \/ Orphaned(t) \/ GivenUp(t))
           => (request[t] = "accepted" => Ended(t) \/ Writing(t) \/ job[t] = "waiting"
                                          \/ Orphaned(t) \/ GivenUp(t))'
  PROVE  HandInv'
<1>1. HoldersActive'
  BY DEF HandInv, HoldersActive
<1>2. ASSUME NEW u \in Tasks \ {t}, request'[u] = "accepted"
      PROVE  (Ended(u) \/ Writing(u) \/ job[u] = "waiting" \/ Orphaned(u) \/ GivenUp(u))'
  <2>1. Ended(u) \/ Writing(u) \/ job[u] = "waiting" \/ Orphaned(u) \/ GivenUp(u)
    BY <1>2 DEF HandInv, Owed
  <2>2. Idle.task = NoTask /\ u # NoTask
    BY DEF Idle, Starting
  <2>3. Writing(u) => Writing(u)'
    <3> SUFFICES ASSUME NEW z \in Slots, run[z].task = u, run[z].at \notin Written
                 PROVE  Writing(u)'
      BY DEF Writing
    <3>1. run'[z] = run[z]
      BY <2>2
    <3> QED
      BY <3>1 DEF Writing
  <2>4. \A z \in Slots : run'[z].task = u => run[z].task = u
    BY <1>2
  <2>5. Orphaned(u) => Orphaned(u)'
    BY <2>4 DEF Orphaned, Runs
  <2>6. GivenUp(u) => GivenUp(u)'
    BY DEF GivenUp, ghosts
  <2> QED
    BY <2>1, <2>3, <2>5, <2>6
<1>3. request'[t] = "accepted" =>
        (Ended(t) \/ Writing(t) \/ job[t] = "waiting" \/ Orphaned(t) \/ GivenUp(t))'
  BY DEF HandInv, Owed
<1>4. Owed'
  BY <1>2, <1>3 DEF Owed
<1> QED
  BY <1>1, <1>4 DEF HandInv

LEMMA TaskHand ==
  ASSUME IInv, HandInv, NEW t \in Tasks, CreateTask(t) \/ Enqueue(t) \/ Stall(t)
  PROVE  HandInv'
<1>1. /\ request \in [Tasks -> {"none", "created", "accepted", "refused", "broken"}]
      /\ job \in [Tasks -> {"none", "waiting", "active", "completed", "failed"}]
      /\ holder \in [Tasks -> Slots \cup {NoSlot}] /\ stalls \in [Tasks -> Nat]
      /\ run \in [Slots -> Run] /\ row \in [Tasks -> Row]
      /\ holder[t] # NoSlot => job[t] = "active"
  BY DEF IInv, TypeOK, QueueTypes, RunTypes, RowTypes, HandInv, HoldersActive
<1>2. CASE CreateTask(t)
  <2>1. /\ UNCHANGED <<job, holder, stalls, begun, run, ghosts>>
        /\ row' \in {row, [row EXCEPT ![t].status = "received"]}
        /\ request'[t] # "accepted"
        /\ \A u \in Tasks \ {t} : request'[u] = request[u]
    BY <1>1, <1>2 DEF CreateTask
  <2>2. row[t].status = "absent"
    BY <1>2 DEF CreateTask, IInv, RowsPrecedeWork
  <2>3. \A u \in Tasks : Ended(u) => Ended(u)'
    BY <1>1, <2>1, <2>2 DEF Ended
  <2> QED
    BY <1>1, <2>1, <2>3, OutsideHand
<1>3. CASE RunInline(t)
  <2>1. PICK s \in Slots : run[s] = Idle /\ run' = [run EXCEPT ![s] = Starting(t)]
    BY <1>3 DEF RunInline, Slots
  <2>2. UNCHANGED <<job, holder, stalls, rowVars, ghosts>>
        /\ \A u \in Tasks \ {t} : request'[u] = request[u]
    BY <1>1, <1>3 DEF RunInline
  <2>3. Writing(t)'
    BY <1>1, <2>1 DEF Writing, Written, Starting
  <2>4. \A z \in Slots : run'[z] = run[z] \/ (run[z] = Idle /\ run'[z].task = t)
    BY <1>1, <2>1 DEF Starting
  <2>5. \A u \in Tasks : Ended(u) => Ended(u)'
    BY <2>2 DEF Ended, rowVars
  <2> QED
    BY <1>1, <2>2, <2>3, <2>4, <2>5, OutsideHand
<1>4. CASE AddJob(t)
  <2>1. /\ UNCHANGED <<holder, stalls, run, rowVars, ghosts>>
        /\ \A u \in Tasks \ {t} : request'[u] = request[u] /\ job'[u] = job[u]
        /\ request'[t] = "accepted" => job'[t] = "waiting"
    BY <1>1, <1>4 DEF AddJob
  <2>2. holder'[t] = NoSlot
    BY <1>1, <1>4, <2>1 DEF AddJob, IInv, JobsCounted
  <2>3. \A u \in Tasks : Ended(u) => Ended(u)'
    BY <2>1 DEF Ended, rowVars
  <2> QED
    BY <1>1, <2>1, <2>2, <2>3, OutsideHand
<1>5. CASE Stall(t)
  <2>1. /\ UNCHANGED <<request, run, rowVars, ghosts>>
        /\ \A u \in Tasks \ {t} : /\ job'[u] = job[u] /\ holder'[u] = holder[u]
                                  /\ stalls'[u] = stalls[u]
        /\ holder'[t] = NoSlot
        /\ stalls'[t] = stalls[t] + 1
        /\ job'[t] = "waiting" \/ stalls[t] >= MaxStalls
    BY <1>1, <1>5 DEF Stall
  <2>2. job'[t] = "waiting" \/ GivenUp(t)'
    BY <1>1, <2>1 DEF GivenUp
  <2>3. \A u \in Tasks : Ended(u) => Ended(u)'
    BY <2>1 DEF Ended, rowVars
  <2> QED
    BY <1>1, <2>1, <2>2, <2>3, OutsideHand
<1> QED
  BY <1>2, <1>3, <1>4, <1>5 DEF Enqueue

LEMMA TakeHand ==
  ASSUME IInv, HandInv, NEW s \in Slots, NEW t \in Tasks, TakeJob(s, t)
  PROVE  HandInv'
<1>1. /\ UNCHANGED <<request, stalls, rowVars, ghosts>>
      /\ \A u \in Tasks \ {t} : job'[u] = job[u] /\ holder'[u] = holder[u]
      /\ job'[t] = "active"
      /\ run[s] = Idle /\ run'[s] = Starting(t) /\ \A z \in Slots \ {s} : run'[z] = run[z]
  BY DEF TakeJob, IInv, TypeOK, QueueTypes, RunTypes
<1>2. Writing(t)'
  BY <1>1 DEF Writing, Written, Starting
<1>3. \A z \in Slots : run'[z] = run[z] \/ (run[z] = Idle /\ run'[z].task = t)
  BY <1>1 DEF Starting
<1>4. \A u \in Tasks : Ended(u) => Ended(u)'
  BY <1>1 DEF Ended, rowVars
<1> QED
  BY <1>1, <1>2, <1>3, <1>4, OutsideHand

\* A killed run either leaves a job behind that BullMQ will find, or is counted in cut.
LEMMA KillHand ==
  ASSUME IInv, HandInv, NEW p \in Processes, Kill(p),
         UNCHANGED <<job, holder, stalls, rowVars, unwritten>>,
         \A u \in Tasks : request'[u] = "accepted" => request[u] = "accepted"
  PROVE  HandInv'
<1>1. HoldersActive'
  BY DEF HandInv, HoldersActive
<1>2. ASSUME NEW u \in Tasks, request'[u] = "accepted"
      PROVE  (Ended(u) \/ Writing(u) \/ job[u] = "waiting" \/ Orphaned(u) \/ GivenUp(u))'
  <2>1. Ended(u) \/ Writing(u) \/ job[u] = "waiting" \/ Orphaned(u) \/ GivenUp(u)
    BY <1>2 DEF HandInv, Owed
  <2>2. u # NoTask /\ Idle.task = NoTask
    BY DEF Idle, Starting
  <2>3. \A z \in Slots : run'[z] = IF z \in SlotsOf[p] THEN Idle ELSE run[z]
    BY DEF Kill
  <2>4. Orphaned(u) => Orphaned(u)'
    BY <2>2, <2>3 DEF Orphaned, Runs
  <2>5. GivenUp(u) => GivenUp(u)'
    BY DEF GivenUp, Kill
  <2>6. ASSUME NEW z \in Slots, run[z].task = u, run[z].at \notin Written
        PROVE  (Writing(u) \/ Orphaned(u) \/ GivenUp(u))'
    <3>1. CASE z \notin SlotsOf[p]
      BY <2>3, <2>6, <3>1 DEF Writing
    <3>2. CASE z \in SlotsOf[p] /\ holder[u] = z
      <4>1. job[u] = "active"
        BY <3>2 DEF HandInv, HoldersActive
      <4>2. run'[z].task # u
        BY <2>2, <2>3, <3>2
      <4> QED
        BY <3>2, <4>1, <4>2 DEF Orphaned, Runs
    <3>3. CASE z \in SlotsOf[p] /\ holder[u] # z
      <4>1. z \in Busy(p)
        BY <2>2, <2>6, <3>3 DEF Busy
      <4>2. u \in cut'
        BY <2>6, <3>3, <4>1 DEF Kill
      <4> QED
        BY <4>2 DEF GivenUp
    <3> QED
      BY <3>1, <3>2, <3>3
  <2>7. Ended(u) => Ended(u)'
    BY DEF Ended, rowVars
  <2> QED
    BY <2>1, <2>4, <2>5, <2>6, <2>7 DEF Writing
<1> QED
  BY <1>1, <1>2 DEF HandInv, Owed

LEMMA NothingInHandChanges ==
  ASSUME HandInv, UNCHANGED <<request, job, holder, stalls, rowVars, run, ghosts>>
  PROVE  HandInv'
BY DEF HandInv, HoldersActive, Owed, Ended, Writing, Orphaned, GivenUp, Runs, rowVars, ghosts

LEMMA HandKept == IInv /\ HandInv /\ [Next]_vars => HandInv'
<1> SUFFICES ASSUME IInv, HandInv, [Next]_vars PROVE HandInv'
  OBVIOUS
<1>1. CASE \E p \in Processes : Host(p) \/ Crash(p) \/ Drain(p)
  <2> SUFFICES ASSUME NEW p \in Processes, Host(p) \/ Crash(p) \/ Drain(p)
               PROVE  HandInv'
    BY <1>1
  <2>1. CASE Crash(p)
    <3>1. \A u \in Tasks : request'[u] = "accepted" => request[u] = "accepted"
      BY <2>1 DEF Crash
    <3> QED
      BY <2>1, <3>1, KillHand DEF Crash
  <2>2. CASE Exit(p)
    BY <2>2, KillHand DEF Exit
  <2>3. CASE Drain(p) \/ CloseQueue(p) \/ Restart(p)
    BY <2>3, NothingInHandChanges DEF Drain, CloseQueue, Restart
  <2> QED
    BY <2>1, <2>2, <2>3 DEF Host
<1>2. CASE UNCHANGED vars
  BY <1>2, NothingInHandChanges DEF vars, queueVars
<1> QED
  BY <1>1, <1>2, TaskHand, TakeHand, StageHand DEF Next

\* A task answered with 202 is never forgotten, whatever dies, stalls, is shut down or
\* loses a write: it has ended, somebody has it in hand, or one of the three losses of
\* GivenUp happened to it (jobs/queues.ts, server.ts, core/pipeline.ts).
THEOREM NoTaskForgotten == Spec => []NoneForgotten
<1>1. Init => HandInv
  BY DEF Init, HandInv, HoldersActive, Owed
<1>2. HandInv => NoneForgotten
  <2> SUFFICES ASSUME Owed PROVE NoneForgotten
    BY DEF HandInv
  <2>1. \A t \in Tasks : Writing(t) => Runs(t) # {}
    BY DEF Writing, Runs
  <2> QED
    BY <2>1 DEF Owed, NoneForgotten, InHand, Orphaned
<1> QED
  BY <1>1, <1>2, Invariant, HandKept, PTL DEF Spec
=============================================================================
