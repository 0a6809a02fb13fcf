------------------------------ MODULE Pipeline ------------------------------
(***************************************************************************)
(* A task from POST /tasks to its verdict: the route (api/routes/tasks.ts),*)
(* the queue and its workers (jobs/), the server (server.ts) and the       *)
(* stages of core/pipeline.ts with their failure path.                     *)
(*                                                                         *)
(* A run is driven by a slot: a place for one run in the API process       *)
(* (in-process worker, or a detached inline run) or in the standalone      *)
(* worker.  run[s].at names the await the run is at.  Rows are kept by the *)
(* database, jobs by Redis: both outlive the processes.                    *)
(*                                                                         *)
(* BullMQ is external: a job whose lock is lost is stalled; it is run      *)
(* again, at most MaxStalls times, and then failed.                        *)
(***************************************************************************)
EXTENDS Naturals, FiniteSets, Sequences

CONSTANTS
  Tasks, NoTask,
  ApiSlots, WorkerSlots, NoSlot,
  Concurrency,       \* [Processes -> Nat], runs a worker takes at once
  Sessions,          \* tasks with a sessionId
  MaxStalls,         \* maxStalledCount of BullMQ
  ResultCacheLimit,
  MaxTroubles,       \* bound on crashes, shutdowns and locks lost
  MaxFaults          \* bound on rejected store operations

Slots == ApiSlots \cup WorkerSlots
Processes == {"api", "worker"}
SlotsOf == [p \in Processes |-> IF p = "api" THEN ApiSlots ELSE WorkerSlots]
HomeOf(s) == IF s \in ApiSlots THEN "api" ELSE "worker"

ASSUME PipelineAssumption ==
  /\ NoTask \notin Tasks /\ NoSlot \notin Slots /\ ApiSlots \cap WorkerSlots = {}
  /\ Sessions \subseteq Tasks /\ Concurrency \in [Processes -> Nat]
  /\ MaxStalls \in Nat /\ ResultCacheLimit \in Nat
  /\ MaxTroubles \in Nat /\ MaxFaults \in Nat

VARIABLES
  mode,      \* "queue" or "inline", chosen when the queue is created
  proc,      \* [Processes -> up | draining | closed | down]
  request,   \* [Tasks -> where its POST stands]
  job, holder, stalls,  \* the BullMQ job, the slot with its lock, times it stalled
  begun,     \* [Tasks -> Nat], runs begun
  row,       \* [Tasks -> task row]
  subtasks,  \* [Tasks -> SubtaskRows], the subtask rows
  told,      \* [Tasks -> SUBSET {"completed", "failed"}], verdicts in the trace
  run,       \* [Slots -> run]
  cache,     \* resultCache of the server, oldest first
  unwritten, \* tasks a run of which ended without writing its verdict
  cut,       \* tasks a run of which was killed that no job stood for
  troubles, faults

queueVars == <<mode, proc, request, job, holder, stalls>>
rowVars == <<row, subtasks, told>>
ghosts == <<unwritten, cut>>
vars == <<queueVars, begun, rowVars, run, cache, ghosts, troubles, faults>>

Statuses == {"received", "classifying", "enhancing", "decomposing", "planning",
             "executing", "aggregating", "verifying", "completed", "failed"}

Stages == {"received", "classifying", "classified", "enhancing", "enhanced",
           "decomposing", "decomposed", "planning", "planned", "assigning",
           "executing", "executed", "aggregating", "verifying", "completing",
           "remembering", "telling", "failing", "settling"}

\* The columns that say how far a task is, what it answers and by which plan.
Row == [status : Statuses \cup {"absent"}, output : BOOLEAN, plan : BOOLEAN]

\* The subtask rows of a task: absent; there, and not (or no more) all decided;
\* each with its outcome; or each with its outcome but those that the deadline or a
\* lost write left `running' when the schedule ended.
SubtaskRows == {"none", "open", "settled", "left"}

Run == [task : Tasks \cup {NoTask}, at : Stages, rejected : BOOLEAN]

QueueTypes ==
  /\ mode \in {"queue", "inline"}
  /\ proc \in [Processes -> {"up", "draining", "closed", "down"}]
  /\ request \in [Tasks -> {"none", "created", "accepted", "refused", "broken"}]
  /\ job \in [Tasks -> {"none", "waiting", "active", "completed", "failed"}]
  /\ holder \in [Tasks -> Slots \cup {NoSlot}]
  /\ stalls \in [Tasks -> 0..MaxStalls + 1]

RowTypes ==
  /\ row \in [Tasks -> Row]
  /\ subtasks \in [Tasks -> SubtaskRows]
  /\ told \in [Tasks -> SUBSET {"completed", "failed"}]

RunTypes ==
  /\ begun \in [Tasks -> Nat]
  /\ run \in [Slots -> Run]
  /\ cache \in Seq(Tasks) /\ Len(cache) <= ResultCacheLimit

CountTypes ==
  /\ unwritten \in SUBSET Tasks /\ cut \in SUBSET Tasks
  /\ troubles \in 0..MaxTroubles /\ faults \in 0..MaxFaults

TypeOK == QueueTypes /\ RowTypes /\ RunTypes /\ CountTypes

Starting(t) == [task |-> t, at |-> "received", rejected |-> FALSE]
Idle == Starting(NoTask)

Runs(t) == { s \in Slots : run[s].task = t }
Busy(p) == { s \in SlotsOf[p] : run[s].task # NoTask }
Ended(t) == row[t].status \in {"completed", "failed"}

Trouble == troubles < MaxTroubles /\ troubles' = troubles + 1
Fault == faults < MaxFaults /\ faults' = faults + 1

Init ==
  /\ mode \in {"queue", "inline"}
  /\ proc = [p \in Processes |-> IF p = "worker" /\ mode = "inline" THEN "down" ELSE "up"]
  /\ request = [t \in Tasks |-> "none"]
  /\ job = [t \in Tasks |-> "none"]
  /\ holder = [t \in Tasks |-> NoSlot]
  /\ stalls = [t \in Tasks |-> 0]
  /\ begun = [t \in Tasks |-> 0]
  /\ row = [t \in Tasks |-> [status |-> "absent", output |-> FALSE, plan |-> FALSE]]
  /\ subtasks = [t \in Tasks |-> "none"]
  /\ told = [t \in Tasks |-> {}]
  /\ run = [s \in Slots |-> Idle]
  /\ cache = <<>>
  /\ unwritten = {} /\ cut = {}
  /\ troubles = 0 /\ faults = 0

-----------------------------------------------------------------------------
(* POST /tasks: the row, then the queue, then 202.                         *)

CreateTask(t) ==
  /\ request[t] = "none" /\ proc["api"] \in {"up", "draining"}
  /\ \/ /\ request' = [request EXCEPT ![t] = "created"]
        /\ row' = [row EXCEPT ![t].status = "received"]
        /\ UNCHANGED faults
     \/ /\ Fault
        /\ request' = [request EXCEPT ![t] = "refused"]
        /\ row' \in {row, [row EXCEPT ![t].status = "received"]}
  /\ UNCHANGED <<mode, proc, job, holder, stalls, begun, subtasks, told, run, cache,
                 ghosts, troubles>>

RunInline(t) ==
  /\ request[t] = "created" /\ mode = "inline"
  /\ request' = [request EXCEPT ![t] = "accepted"]
  /\ \E s \in ApiSlots : run[s] = Idle /\ run' = [run EXCEPT ![s] = Starting(t)]
  /\ begun' = [begun EXCEPT ![t] = @ + 1]
  /\ UNCHANGED <<mode, proc, job, holder, stalls, rowVars, cache, ghosts, troubles, faults>>

AddJob(t) ==
  /\ request[t] = "created" /\ mode = "queue"
  /\ \/ /\ proc["api"] # "closed"
        /\ request' = [request EXCEPT ![t] = "accepted"]
        /\ job' = [job EXCEPT ![t] = "waiting"]
        /\ UNCHANGED faults
     \/ /\ proc["api"] = "closed"
        /\ request' = [request EXCEPT ![t] = "refused"]
        /\ UNCHANGED <<job, faults>>
     \/ /\ Fault
        /\ request' = [request EXCEPT ![t] = "refused"]
        /\ job' \in {job, [job EXCEPT ![t] = "waiting"]}
  /\ UNCHANGED <<mode, proc, holder, stalls, begun, rowVars, run, cache, ghosts, troubles>>

-----------------------------------------------------------------------------
(* The worker takes a job, and BullMQ takes it back when its lock is lost. *)

TakeJob(s, t) ==
  LET p == HomeOf(s) IN
  /\ job[t] = "waiting" /\ proc[p] = "up"
  /\ run[s] = Idle /\ Cardinality(Busy(p)) < Concurrency[p]
  /\ job' = [job EXCEPT ![t] = "active"]
  /\ holder' = [holder EXCEPT ![t] = s]
  /\ run' = [run EXCEPT ![s] = Starting(t)]
  /\ begun' = [begun EXCEPT ![t] = @ + 1]
  /\ UNCHANGED <<mode, proc, request, stalls, rowVars, cache, ghosts, troubles, faults>>

Orphaned(t) == job[t] = "active" /\ holder[t] \notin Runs(t)

\* The holder died, or it lives and could not renew its lock in time.
Stall(t) ==
  /\ job[t] = "active"
  /\ \/ Orphaned(t) /\ UNCHANGED troubles
     \/ ~Orphaned(t) /\ Trouble
  /\ stalls' = [stalls EXCEPT ![t] = @ + 1]
  /\ job' = [job EXCEPT ![t] = IF stalls[t] < MaxStalls THEN "waiting" ELSE "failed"]
  /\ holder' = [holder EXCEPT ![t] = NoSlot]
  /\ UNCHANGED <<mode, proc, request, begun, rowVars, run, cache, ghosts, faults>>

-----------------------------------------------------------------------------
(* The stages.                                                             *)

At(s, stage) == run[s].task # NoTask /\ run[s].at = stage
Go(s, stage) == run' = [run EXCEPT ![s].at = stage]

\* await updateTask: a rejection enters the catch, with or without the write.
Await(s, written, next) ==
  \/ row' = written /\ Go(s, next) /\ UNCHANGED faults
  \/ Fault /\ row' \in {row, written} /\ Go(s, "failing")

\* void appendTrace(...).catch(...): an insert may be lost.
Emit(t, verdict) ==
  \/ told' = [told EXCEPT ![t] = @ \cup {verdict}] /\ UNCHANGED faults
  \/ Fault /\ UNCHANGED told

\* The first update stands outside the try block.
Receive(s) ==
  LET t == run[s].task
      received == [row EXCEPT ![t].status = "received"] IN
  /\ At(s, "received")
  /\ \/ /\ row' = received
        /\ Go(s, "classifying")
        /\ UNCHANGED <<unwritten, faults>>
     \/ /\ Fault
        /\ row' \in {row, received}
        /\ run' = [run EXCEPT ![s].at = "settling", ![s].rejected = TRUE]
        /\ unwritten' = unwritten \cup {t}
  /\ UNCHANGED <<queueVars, begun, subtasks, told, cache, cut, troubles>>

\* The status written at a stage that only reports progress.
StatusAt ==
  [classifying |-> "classifying", classified |-> "classifying",
   enhancing |-> "enhancing", enhanced |-> "enhancing", decomposing |-> "decomposing",
   planning |-> "planning", planned |-> "planning", executing |-> "executing",
   verifying |-> "verifying"]

\* Slip: an answer that was verified is aggregated again.
AfterUntilVerified ==
  [classifying |-> "classified", classified |-> "enhancing", enhancing |-> "enhanced",
   enhanced |-> "decomposing", decomposing |-> "decomposed", planning |-> "planned",
   planned |-> "assigning", executing |-> "executed", verifying |-> "aggregating"]

After ==
  [classifying |-> "classified", classified |-> "enhancing", enhancing |-> "enhanced",
   enhanced |-> "decomposing", decomposing |-> "decomposed", planning |-> "planned",
   planned |-> "assigning", executing |-> "executed", verifying |-> "completing"]

Report(s) ==
  LET t == run[s].task
      stage == run[s].at IN
  /\ run[s].task # NoTask /\ stage \in DOMAIN After
  /\ Await(s, [row EXCEPT ![t].status = StatusAt[stage],
                          ![t].plan = @ \/ stage = "planned"], After[stage])
  /\ UNCHANGED <<queueVars, begun, subtasks, told, cache, ghosts, troubles>>

\* createSubTasks puts its rows at pending, and may leave those of an earlier run.
Created(t) ==
  { [subtasks EXCEPT ![t] = rows] : rows \in {"open", subtasks[t]} \ {"none"} }

Decompose(s) ==
  LET t == run[s].task IN
  /\ At(s, "decomposed")
  /\ \/ /\ Go(s, "failing")                      \* DAG.validate finds errors
        /\ UNCHANGED <<subtasks, faults>>
     \/ /\ subtasks' \in Created(t)
        /\ Go(s, "planning")
        /\ UNCHANGED faults
     \/ /\ Fault
        /\ subtasks' \in {subtasks} \cup Created(t)
        /\ Go(s, "failing")
  /\ UNCHANGED <<queueVars, begun, row, told, cache, ghosts, troubles>>

Assign(s) ==
  LET t == run[s].task IN
  /\ At(s, "assigning")
  /\ \/ Go(s, "executing") /\ UNCHANGED faults
     \/ Fault /\ Go(s, "failing")
  /\ subtasks' \in Created(t)
  /\ UNCHANGED <<queueVars, begun, row, told, cache, ghosts, troubles>>

\* A subtask is marked running, also one that an earlier run settled.
StartSubtask(s) ==
  LET t == run[s].task IN
  /\ At(s, "executed") /\ subtasks[t] # "open"
  /\ subtasks' = [subtasks EXCEPT ![t] = "open"]
  /\ Go(s, "executed")
  /\ UNCHANGED <<queueVars, begun, row, told, cache, ghosts, troubles, faults>>

\* The schedule ends.  Its row writes swallow their errors, and a subtask begun after
\* the deadline stays running; a recovery that cannot read the keys rejects.
Execute(s) ==
  LET t == run[s].task IN
  /\ At(s, "executed")
  /\ \/ /\ \E rows \in {"settled", "left"} : subtasks' = [subtasks EXCEPT ![t] = rows]
        /\ \E next \in {"failing", "aggregating"} : Go(s, next)  \* no result, or some
        /\ UNCHANGED faults
     \/ /\ Fault
        /\ \E rows \in {subtasks[t], "settled", "left"} :
             subtasks' = [subtasks EXCEPT ![t] = rows]
        /\ Go(s, "failing")
  /\ UNCHANGED <<queueVars, begun, row, told, cache, ghosts, troubles>>

Aggregate(s) ==
  LET t == run[s].task IN
  /\ At(s, "aggregating")
  /\ \E next \in {"verifying", "completing"} :
       Await(s, [row EXCEPT ![t].status = "aggregating"], next)
  /\ UNCHANGED <<queueVars, begun, subtasks, told, cache, ghosts, troubles>>

Answered(s) ==
  [row EXCEPT ![run[s].task].status = "completed", ![run[s].task].output = TRUE]

AfterAnswer(s) == IF run[s].task \in Sessions THEN "remembering" ELSE "telling"

\* Slip: the critic runs after the answer was stored.
CompleteThenVerify(s) ==
  /\ At(s, "completing")
  /\ IF row[run[s].task].status = "aggregating"
     THEN Await(s, Answered(s), "verifying")
     ELSE Await(s, Answered(s), AfterAnswer(s))
  /\ UNCHANGED <<queueVars, begun, subtasks, told, cache, ghosts, troubles>>

\* Slip: the trace tells of the answer before the row has it.
TellThenComplete(s) ==
  /\ At(s, "completing")
  /\ Await(s, Answered(s), AfterAnswer(s))
  /\ told' = [told EXCEPT ![run[s].task] = @ \cup {"completed"}]
  /\ UNCHANGED <<queueVars, begun, subtasks, cache, ghosts, troubles>>

\* recordTask follows and swallows its errors.
Complete(s) ==
  /\ At(s, "completing")
  /\ Await(s, Answered(s), AfterAnswer(s))
  /\ UNCHANGED <<queueVars, begun, subtasks, told, cache, ghosts, troubles>>

Remember(s) ==
  /\ At(s, "remembering")
  /\ \/ Go(s, "telling") /\ UNCHANGED faults
     \/ Fault /\ Go(s, "failing")
  /\ UNCHANGED <<queueVars, begun, rowVars, cache, ghosts, troubles>>

Tell(s) ==
  /\ At(s, "telling")
  /\ Emit(run[s].task, "completed")
  /\ Go(s, "settling")
  /\ UNCHANGED <<queueVars, begun, row, subtasks, cache, ghosts, troubles>>

\* Slip: the error is rethrown before it is written.
FailUnwritten(s) ==
  /\ At(s, "failing")
  /\ Emit(run[s].task, "failed")
  /\ run' = [run EXCEPT ![s].at = "settling", ![s].rejected = TRUE]
  /\ UNCHANGED <<queueVars, begun, row, subtasks, cache, ghosts, troubles>>

\* The catch block: its own write may be lost, and then only the event tells.
Fail(s) ==
  LET t == run[s].task IN
  /\ At(s, "failing")
  /\ \/ /\ row' = [row EXCEPT ![t].status = "failed"]
        /\ Emit(t, "failed")
        /\ UNCHANGED unwritten
     \/ /\ Fault
        /\ told' = [told EXCEPT ![t] = @ \cup {"failed"}]
        /\ unwritten' = unwritten \cup {t}
        /\ UNCHANGED row
  /\ run' = [run EXCEPT ![s].at = "settling", ![s].rejected = TRUE]
  /\ UNCHANGED <<queueVars, begun, subtasks, cache, cut, troubles>>

-----------------------------------------------------------------------------
(* A run is over: the result cache, and the job's end in the queue.        *)

\* A result cached again keeps its place; beyond the limit the oldest goes.
Cached(t) ==
  LET kept == IF \E i \in DOMAIN cache : cache[i] = t THEN cache ELSE Append(cache, t)
  IN  IF Len(kept) > ResultCacheLimit THEN Tail(kept) ELSE kept

\* Slip: a failed job gets a second attempt.
JobAfterRetrying(s) == IF run[s].rejected THEN "waiting" ELSE "completed"

\* runTask of the server swallows the rejection, the standalone worker does not.
JobAfter(s) == IF run[s].rejected /\ s \in WorkerSlots THEN "failed" ELSE "completed"

Settle(s) ==
  LET t == run[s].task IN
  /\ At(s, "settling")
  /\ run' = [run EXCEPT ![s] = Idle]
  /\ cache' = IF s \in ApiSlots /\ ~run[s].rejected THEN Cached(t) ELSE cache
  /\ \/ /\ IF holder[t] = s
           THEN /\ job' = [job EXCEPT ![t] = JobAfter(s)]
                /\ holder' = [holder EXCEPT ![t] = NoSlot]
           ELSE UNCHANGED <<job, holder>>
        /\ UNCHANGED faults
     \/ holder[t] = s /\ Fault /\ UNCHANGED <<job, holder>>  \* it will stall
  /\ UNCHANGED <<mode, proc, request, stalls, begun, rowVars, ghosts, troubles>>

-----------------------------------------------------------------------------
(* Processes.                                                              *)

\* The runs of p die with it; those that hold no job are never resumed.
Kill(p) ==
  /\ proc' = [proc EXCEPT ![p] = "down"]
  /\ run' = [s \in Slots |-> IF s \in SlotsOf[p] THEN Idle ELSE run[s]]
  /\ cut' = cut \cup { run[s].task : s \in { z \in Busy(p) : holder[run[z].task] # z } }
  /\ cache' = IF p = "api" THEN <<>> ELSE cache

Crash(p) ==
  /\ proc[p] # "down" /\ Trouble
  /\ Kill(p)
  /\ request' = [t \in Tasks |-> IF p = "api" /\ request[t] = "created" THEN "broken"
                                 ELSE request[t]]
  /\ UNCHANGED <<mode, job, holder, stalls, begun, rowVars, unwritten, faults>>

\* SIGTERM: no more jobs are taken, and those in hand are waited for.
Drain(p) ==
  /\ proc[p] = "up" /\ Trouble
  /\ proc' = [proc EXCEPT ![p] = "draining"]
  /\ UNCHANGED <<mode, request, job, holder, stalls, begun, rowVars, run, cache, ghosts,
                 faults>>

\* queue.close(); there is no worker to wait for when tasks run inline.
CloseQueue(p) ==
  /\ proc[p] = "draining"
  /\ mode = "queue" => Busy(p) = {}
  /\ proc' = [proc EXCEPT ![p] = "closed"]
  /\ UNCHANGED <<mode, request, job, holder, stalls, begun, rowVars, run, cache, ghosts,
                 troubles, faults>>

\* app.close() waits for requests in flight, then process.exit.
Exit(p) ==
  /\ proc[p] = "closed"
  /\ p = "api" => \A t \in Tasks : request[t] # "created"
  /\ Kill(p)
  /\ UNCHANGED <<mode, request, job, holder, stalls, begun, rowVars, unwritten, troubles,
                 faults>>

Restart(p) ==
  /\ proc[p] = "down" /\ (mode = "queue" \/ p = "api")
  /\ proc' = [proc EXCEPT ![p] = "up"]
  /\ UNCHANGED <<mode, request, job, holder, stalls, begun, rowVars, run, cache, ghosts,
                 troubles, faults>>

-----------------------------------------------------------------------------
Stage(s) ==
  \/ Receive(s) \/ Report(s) \/ Decompose(s) \/ Assign(s) \/ StartSubtask(s) \/ Execute(s)
  \/ Aggregate(s) \/ Complete(s) \/ Remember(s) \/ Tell(s) \/ Fail(s) \/ Settle(s)

Enqueue(t) == RunInline(t) \/ AddJob(t)

Host(p) == CloseQueue(p) \/ Exit(p) \/ Restart(p)

Next ==
  \/ \E t \in Tasks : CreateTask(t) \/ Enqueue(t) \/ Stall(t)
  \/ \E s \in Slots, t \in Tasks : TakeJob(s, t)
  \/ \E s \in Slots : Stage(s)
  \/ \E p \in Processes : Host(p) \/ Crash(p) \/ Drain(p)

Liveness ==
  /\ \A t \in Tasks : /\ WF_vars(Enqueue(t))
                      /\ WF_vars(\E s \in Slots : TakeJob(s, t))
                      /\ WF_vars(Orphaned(t) /\ Stall(t))
  /\ \A s \in Slots : WF_vars(Stage(s))
  /\ \A p \in Processes : WF_vars(Host(p))

Spec == Init /\ [][Next]_vars
FairSpec == Spec /\ Liveness

-----------------------------------------------------------------------------
(* Properties.                                                             *)

\* Whoever still has the task in hand: a job to be taken or taken back, or a run.
InHand(t) == job[t] \in {"waiting", "active"} \/ Runs(t) # {}

\* What no run and no job can make good: a verdict that could not be written, a
\* run killed outside the queue, a job that stalled once too often.
GivenUp(t) == t \in unwritten \/ t \in cut \/ stalls[t] > MaxStalls

\* A task answered with 202 is never forgotten: it has ended, or somebody has it in
\* hand, or one of the three named losses happened to it - whatever dies, stalls or
\* is shut down in between (jobs/queues.ts, server.ts, pipeline.ts).
NoneForgotten ==
  \A t \in Tasks : request[t] = "accepted" => Ended(t) \/ InHand(t) \/ GivenUp(t)

\* A client that reads `completed' in the trace finds the answer and its plan in the
\* task row, with two runs of one task interleaved as well, and the subtask rows.
\* These tell of a schedule that is over, with the rows that the deadline or a lost
\* write left running - unless a stall has the task run again, which marks its
\* settled subtasks running once more (pipeline.ts:347-396, executor.ts:311-323).
EventsNeverAhead ==
  \A t \in Tasks : "completed" \in told[t] =>
    /\ row[t].output /\ row[t].plan
    /\ subtasks[t] \in {"settled", "left"} \/ (subtasks[t] = "open" /\ begun[t] > 1)

\* A task is run again only for a stall, never for a failure: "a retry would re-bill
\* every provider call that already succeeded" (jobs/queues.ts:60-64).
RerunOnlyForStall == \A t \in Tasks : begun[t] <= 1 + stalls[t]

\* The life of a task as its row tells it.
PhaseOf(status) ==
  CASE status \in {"completed", "failed"} -> "ended"
    [] status \in {"absent", "received"} -> status
    [] OTHER -> "working"

Phase == [t \in Tasks |-> PhaseOf(row[t].status)]

Life == INSTANCE TaskLife WITH phase <- Phase, MaxRuns <- MaxStalls + 1

\* The pipeline implements the life of a task: as long as it was begun once the row
\* only moves forward and an ended task stays ended; only a second run reopens it.
LifeSpec == Life!Spec

\* Every task answered with 202 comes to an end for good, unless given up as above.
AcceptedTasksEnd ==
  \A t \in Tasks : <>[](request[t] = "accepted" => Ended(t) \/ GivenUp(t))

\* "Only a failure that leaves nothing to answer with fails the task." (pipeline.ts:40)
FailsEmptyHanded ==
  \A t \in Tasks : row[t].status = "failed" => ~row[t].output

\* "The pipeline has already persisted the failure and emitted `failed`." (server.ts:66)
FailurePersisted ==
  \A s \in Slots : At(s, "settling") /\ run[s].rejected =>
    row[run[s].task].status = "failed" /\ "failed" \in told[run[s].task]
=============================================================================
