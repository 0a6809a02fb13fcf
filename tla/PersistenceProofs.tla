------------------------- MODULE PersistenceProofs -------------------------
(***************************************************************************)
(* Proofs about Persistence, for any number of runs, nodes, cache keys and *)
(* registrations: the rows that the two implementations keep of the same   *)
(* calls differ only in what no reader sees.                               *)
(***************************************************************************)
EXTENDS Persistence, FiniteSetTheorems, TLAPS

-----------------------------------------------------------------------------
(* The task row. *)

\* The enum of the table is told from the program's and back.
LEMMA UpperLower == \A status : lower(upper(status)) = status
BY DEF lower, upper

TaskColumns == {"status", "plan", "output", "format", "verification", "error"}

\* The same to a reader, but for a verification that a null erased.
TaskSame(mem, sql) ==
  /\ mem \in TaskRows(TaskStatus) /\ sql \in TaskRows(Uppers(TaskStatus))
  /\ sql.status = upper(mem.status)
  /\ sql.error = mem.error /\ sql.output = mem.output /\ sql.plan = mem.plan
  /\ mem.verification \in {Null, sql.verification}

\* What the program writes: a status always, a plan only when there is one.
TaskPatch(patch) ==
  /\ "status" \in DOMAIN patch /\ DOMAIN patch \subseteq TaskColumns
  /\ patch = [column \in DOMAIN patch |-> patch[column]]
  /\ patch["status"] \in TaskStatus
  /\ "plan" \in DOMAIN patch => patch["plan"] \in 1..MaxRuns
  /\ "output" \in DOMAIN patch => patch["output"] \in 1..MaxRuns
  /\ "format" \in DOMAIN patch => patch["format"] = "markdown"
  /\ "verification" \in DOMAIN patch => patch["verification"] \in Or(1..MaxRuns)
  /\ "error" \in DOMAIN patch => patch["error"] = "failed"

\* The columns of what taskWrite makes of a patch.
LEMMA TaskWritten ==
  ASSUME NEW patch, TaskPatch(patch)
  PROVE  /\ DOMAIN taskWrite(patch) = DOMAIN patch \
              (IF "verification" \in DOMAIN patch /\ patch["verification"] = Null
               THEN {"verification"} ELSE {})
         /\ taskWrite(patch)["status"] = upper(patch["status"])
         /\ \A column \in DOMAIN taskWrite(patch) \ {"status"} :
              taskWrite(patch)[column] = patch[column]
<1> DEFINE kept == {c \in DOMAIN patch : c \in JsonColumns => patch[c] # Null}
<1>1. kept = DOMAIN patch \
               (IF "verification" \in DOMAIN patch /\ patch["verification"] = Null
                THEN {"verification"} ELSE {})
  BY NullAssumption DEF TaskPatch, JsonColumns, TaskColumns
<1>2. taskWrite(patch) =
        [column \in kept |-> IF column = "status" THEN upper(patch[column]) ELSE patch[column]]
  BY DEF taskWrite, Stored
<1> HIDE DEF kept
<1>3. "status" \in kept
  BY <1>1 DEF TaskPatch
<1>4. QED BY <1>1, <1>2, <1>3

LEMMA UpdatedSame ==
  ASSUME NEW mem, NEW sql, NEW patch, TaskSame(mem, sql), TaskPatch(patch)
  PROVE  TaskSame(Patched(mem, patch), Patched(sql, taskWrite(patch)))
<1> DEFINE written == taskWrite(patch)
<1>1. mem \in TaskRows(TaskStatus) /\ sql \in TaskRows(Uppers(TaskStatus))
  BY DEF TaskSame
<1>2. DOMAIN mem = TaskColumns /\ DOMAIN sql = TaskColumns
  BY <1>1 DEF TaskRows, TaskColumns
<1>3. /\ DOMAIN written = DOMAIN patch \
              (IF "verification" \in DOMAIN patch /\ patch["verification"] = Null
               THEN {"verification"} ELSE {})
      /\ written["status"] = upper(patch["status"])
      /\ \A column \in DOMAIN written \ {"status"} : written[column] = patch[column]
  BY TaskWritten
<1> HIDE DEF written
<1>4. Patched(mem, patch) \in TaskRows(TaskStatus)
  BY <1>1, <1>2 DEF TaskPatch, TaskRows, Patched, TaskColumns, Or
<1>5. Patched(sql, written) \in TaskRows(Uppers(TaskStatus))
  BY <1>1, <1>2, <1>3 DEF TaskPatch, TaskRows, Patched, TaskColumns, Or, Uppers
<1>6. \A column \in {"error", "output", "plan"} :
        Patched(sql, written)[column] = Patched(mem, patch)[column]
  BY <1>2, <1>3 DEF TaskSame, Patched, TaskColumns
<1>7. Patched(sql, written).status = upper(Patched(mem, patch).status)
  BY <1>2, <1>3 DEF TaskPatch, Patched, TaskColumns
<1>8. Patched(mem, patch).verification \in {Null, Patched(sql, written).verification}
  BY <1>2, <1>3 DEF TaskSame, Patched, TaskColumns
<1>9. QED BY <1>4, <1>5, <1>6, <1>7, <1>8 DEF TaskSame, written

TaskInv ==
  /\ run \in [1..MaxRuns -> Stages]
  /\ task.mem # Null => TaskSame(task.mem, task.sql)
  /\ \A r \in 1..MaxRuns : run[r] # "queued" => task.mem # Null

LEMMA UpdateTaskKeeps ==
  ASSUME NEW patch, TaskPatch(patch), UpdateTask(patch), TaskInv, task.mem # Null
  PROVE  task'.mem # Null /\ TaskSame(task'.mem, task'.sql)
<1>1. TaskSame(task'.mem, task'.sql)
  BY UpdatedSame DEF UpdateTask, TaskInv
<1>2. QED BY <1>1, NullAssumption DEF TaskSame

\* A run that reaches a stage and updates the task.
LEMMA ReachesKeeps ==
  ASSUME NEW r \in 1..MaxRuns, NEW from \in Stages, NEW to \in Stages, Reaches(r, from, to), TaskInv,
         from # "queued" \/ task.mem # Null,
         \/ UNCHANGED task
         \/ \E patch : TaskPatch(patch) /\ UpdateTask(patch)
  PROVE  TaskInv'
<1>1. /\ task.mem # Null /\ run' \in [1..MaxRuns -> Stages]
      /\ \A q \in 1..MaxRuns \ {r} : run'[q] = run[q]
  BY DEF TaskInv, Reaches
<1>2. CASE UNCHANGED task
  BY <1>1, <1>2 DEF TaskInv
<1>3. CASE \E patch : TaskPatch(patch) /\ UpdateTask(patch)
  BY <1>1, <1>3, UpdateTaskKeeps DEF TaskInv
<1>4. QED BY <1>2, <1>3

\* What each stage writes is a patch.
LEMMA Patches ==
  ASSUME NEW r \in 1..MaxRuns
  PROVE  /\ TaskPatch([status |-> "received"])
         /\ TaskPatch([status |-> "planning", plan |-> r])
         /\ TaskPatch([status |-> "failed", error |-> "failed"])
         /\ \A verification \in {Null, r} :
              TaskPatch([status |-> "completed", output |-> r, format |-> "markdown",
                         verification |-> verification])
BY DEF TaskPatch, TaskColumns, TaskStatus, Or

LEMMA TaskStep ==
  ASSUME TaskInv, [Next]_vars PROVE TaskInv'
<1>1. ASSUME UNCHANGED <<run, task>> PROVE TaskInv'
  BY <1>1 DEF TaskInv
<1>2. CASE CreateTask
  <2>1. TaskSame(NewTask.mem, NewTask.sql)
    BY DEF TaskSame, NewTask, TaskRows, TaskStatus, Uppers, Or
  <2>2. run' = run /\ task' = NewTask
    BY <1>2 DEF CreateTask
  <2>3. task'.mem # Null
    BY <2>1, <2>2, NullAssumption DEF TaskSame
  <2>4. QED BY <2>1, <2>2, <2>3 DEF TaskInv
<1>3. ASSUME NEW r \in 1..MaxRuns, Pipeline(r) PROVE TaskInv'
  <2>1. CASE Begin(r)
    BY <2>1, ReachesKeeps, Patches DEF Begin, Stages
  <2>2. CASE Decompose(r) \/ Assign(r)
    BY <2>2, ReachesKeeps DEF Decompose, Assign, Stages
  <2>3. CASE Plan(r)
    BY <2>3, ReachesKeeps, Patches DEF Plan, Stages
  <2>4. CASE Complete(r)
    <3>1. PICK verification \in {Null, r} :
            UpdateTask([status |-> "completed", output |-> r, format |-> "markdown",
                        verification |-> verification])
      BY <2>4 DEF Complete
    <3>2. QED BY <2>4, <3>1, ReachesKeeps, Patches DEF Complete, Stages
  <2>5. CASE Fail(r)
    <3>1. Reaches(r, run[r], "ended") /\ run[r] \in Stages /\ run[r] # "queued"
      BY <2>5 DEF Fail, Reaches, TaskInv
    <3>2. QED BY <2>5, <3>1, ReachesKeeps, Patches DEF Fail, Stages
  <2>6. CASE \E n \in Nodes : RunNode(r, n)
    BY <1>1, <2>6 DEF RunNode, Execute
  <2>7. QED BY <1>3, <2>1, <2>2, <2>3, <2>4, <2>5, <2>6 DEF Pipeline
<1>4. CASE Tick \/ RecordTelemetry \/ AppendTrace \/ UpsertCalibration
  BY <1>1, <1>4 DEF Tick, RecordTelemetry, AppendTrace, UpsertCalibration, taskVars
<1>5. CASE \E k \in CacheKeys : PutCacheEntry(k) \/ GetCacheEntry(k)
  BY <1>1, <1>5 DEF PutCacheEntry, GetCacheEntry, taskVars
<1>6. CASE \E a \in Admins : FindKey(a) \/ CreateKey(a)
  BY <1>1, <1>6 DEF FindKey, CreateKey, taskVars
<1>7. CASE UNCHANGED vars
  BY <1>1, <1>7 DEF vars, taskVars
<1>8. QED BY <1>2, <1>3, <1>4, <1>5, <1>6, <1>7 DEF Next

LEMMA TaskInvariance == Spec => []TaskInv
<1>1. Init => TaskInv
  BY DEF Init, TaskInv, Stages, Both
<1>2. TaskInv /\ [Next]_vars => TaskInv'
  BY TaskStep
<1>3. QED BY <1>1, <1>2, PTL DEF Spec

\* Whatever the runs of a task write, one after the other or two at once, and
\* however they end, GET /tasks/:taskId tells a client the same on maps and on
\* PostgreSQL (persistence.ts:136-140 and 447-487, tasks.ts:196-237); only a
\* verification of an earlier run may be missing, in the map.
THEOREM SummariesAlwaysAgree == Spec => []SummariesAgree
<1>1. TaskInv => SummariesAgree
  <2> SUFFICES ASSUME TaskInv, task.mem # Null
               PROVE  /\ Summary(Task("mem")) = Summary(Task("sql"))
                      /\ Task("mem").verification \in {Null, Task("sql").verification}
    BY DEF SummariesAgree
  <2>1. TaskSame(task.mem, task.sql)
    BY DEF TaskInv
  <2>2. task.sql # Null
    BY <2>1, NullAssumption DEF TaskSame
  <2>3. Task("mem") = task.mem /\ Task("sql") = [task.sql EXCEPT !.status = lower(@)]
    BY <2>2 DEF Task, Read
  <2>4. /\ Task("sql").status = task.mem.status
        /\ Task("sql").error = task.mem.error /\ Task("sql").output = task.mem.output
        /\ Task("sql").plan = task.mem.plan
        /\ Task("sql").verification = task.sql.verification
        /\ Task("sql").format \in Or({"markdown"}) /\ task.mem.format \in Or({"markdown"})
    BY <2>1, <2>3, UpperLower DEF TaskSame, TaskRows
  <2>5. Result(Task("mem")) = Result(Task("sql"))
    BY <2>3, <2>4 DEF Result, Or
  <2>6. QED BY <2>1, <2>3, <2>4, <2>5 DEF Summary, TaskSame
<1>2. QED BY <1>1, TaskInvariance, PTL

-----------------------------------------------------------------------------
(* The subtask rows. *)

SubTaskColumns == {"status", "provider", "prompt", "output", "error"}

\* The same in every column but those nobody wrote.
SubTaskSame(mem, sql, free) ==
  /\ mem \in SubTaskRows(SubTaskStatus) /\ sql \in SubTaskRows(Uppers(SubTaskStatus))
  /\ "status" \notin free => sql.status = upper(mem.status)
  /\ \A column \in SubTaskColumns \ {"status"} : column \notin free => sql[column] = mem[column]

SubTaskInv ==
  /\ subtask.mem = [n \in Nodes |-> subtask.mem[n]]
  /\ subtask.sql = [n \in Nodes |-> subtask.sql[n]]
  /\ unwritten = [n \in Nodes |-> unwritten[n]]
  /\ \A n \in Nodes :
       /\ subtask.mem[n] = Null <=> subtask.sql[n] = Null
       /\ subtask.mem[n] # Null => SubTaskSame(subtask.mem[n], subtask.sql[n], unwritten[n])

\* What the executor and the scheduler write.
SubTaskPatch(patch) ==
  /\ "status" \in DOMAIN patch /\ DOMAIN patch \subseteq SubTaskColumns
  /\ patch = [column \in DOMAIN patch |-> patch[column]]
  /\ patch["status"] \in SubTaskStatus
  /\ "provider" \in DOMAIN patch => patch["provider"] = "used"
  /\ "prompt" \in DOMAIN patch => patch["prompt"] \in 1..MaxRuns
  /\ "output" \in DOMAIN patch => patch["output"] \in 1..MaxRuns
  /\ "error" \in DOMAIN patch => patch["error"] \in {"failed", "skipped"}

LEMMA NoRowIsNull ==
  ASSUME NEW mem, NEW sql, NEW free, SubTaskSame(mem, sql, free)
  PROVE  mem # Null /\ sql # Null
BY NullAssumption DEF SubTaskSame

\* A patch brings the columns it sets together again.
LEMMA PatchedSame ==
  ASSUME NEW mem, NEW sql, NEW free, NEW patch, SubTaskSame(mem, sql, free), SubTaskPatch(patch)
  PROVE  SubTaskSame(Patched(mem, patch), Patched(sql, Stored(patch)), free \ DOMAIN patch)
<1> DEFINE written == Stored(patch)
<1>1. mem \in SubTaskRows(SubTaskStatus) /\ sql \in SubTaskRows(Uppers(SubTaskStatus))
  BY DEF SubTaskSame
<1>2. DOMAIN mem = SubTaskColumns /\ DOMAIN sql = SubTaskColumns
  BY <1>1 DEF SubTaskRows, SubTaskColumns
<1>3. /\ DOMAIN written = DOMAIN patch /\ written["status"] = upper(patch["status"])
      /\ \A column \in DOMAIN written \ {"status"} : written[column] = patch[column]
  BY DEF Stored, SubTaskPatch
<1> HIDE DEF written
<1>4. Patched(mem, patch) \in SubTaskRows(SubTaskStatus)
  BY <1>1, <1>2 DEF SubTaskPatch, SubTaskRows, Patched, SubTaskColumns, Or
<1>5. Patched(sql, written) \in SubTaskRows(Uppers(SubTaskStatus))
  BY <1>1, <1>2, <1>3 DEF SubTaskPatch, SubTaskRows, Patched, SubTaskColumns, Or, Uppers
<1>6. Patched(sql, written).status = upper(Patched(mem, patch).status)
  BY <1>2, <1>3 DEF SubTaskPatch, Patched, SubTaskColumns
<1>7. ASSUME NEW column \in SubTaskColumns \ {"status"}, column \notin free \ DOMAIN patch
      PROVE  Patched(sql, written)[column] = Patched(mem, patch)[column]
  BY <1>2, <1>3, <1>7 DEF SubTaskSame, Patched
<1>8. QED BY <1>4, <1>5, <1>6, <1>7 DEF SubTaskSame, written

\* A re-created row is new in the map and keeps four columns in the table.
LEMMA UpsertedSame ==
  ASSUME NEW provider \in Or({"assigned"}), NEW sql,
         sql = Null \/ sql \in SubTaskRows(Uppers(SubTaskStatus))
  PROVE  SubTaskSame(NewSubTask(provider), Upserted(sql, provider),
                     IF sql = Null THEN {} ELSE {"status", "provider", "output", "error"})
<1>1. NewSubTask(provider) \in SubTaskRows(SubTaskStatus)
  BY DEF NewSubTask, SubTaskRows, SubTaskStatus, Or
<1>2. CASE sql = Null
  <2>1. Upserted(sql, provider) =
          [status |-> upper("pending"), provider |-> provider, prompt |-> Null,
           output |-> Null, error |-> Null]
    BY <1>2 DEF Upserted, Stored, NewSubTask
  <2>2. QED BY <1>1, <1>2, <2>1
            DEF SubTaskSame, NewSubTask, SubTaskRows, SubTaskStatus, SubTaskColumns, Uppers, Or
<1>3. CASE sql # Null
  <2>1. sql \in SubTaskRows(Uppers(SubTaskStatus)) /\ DOMAIN sql = SubTaskColumns
    BY <1>3 DEF SubTaskRows, SubTaskColumns
  <2>2. Upserted(sql, provider) \in SubTaskRows(Uppers(SubTaskStatus))
    BY <1>3, <2>1 DEF Upserted, Patched, SubTaskRows, SubTaskColumns, Or
  <2>3. Upserted(sql, provider).prompt = Null
    BY <1>3, <2>1 DEF Upserted, Patched, SubTaskColumns
  <2>4. QED BY <1>1, <1>3, <2>2, <2>3 DEF SubTaskSame, NewSubTask, SubTaskColumns
<1>4. QED BY <1>2, <1>3

LEMMA CreateSubTasksKeeps ==
  ASSUME NEW provider \in Or({"assigned"}), CreateSubTasks(provider), SubTaskInv PROVE SubTaskInv'
<1>1. ASSUME NEW n \in Nodes PROVE SubTaskSame(subtask'.mem[n], subtask'.sql[n], unwritten'[n])
  <2>1. subtask.sql[n] = Null \/ subtask.sql[n] \in SubTaskRows(Uppers(SubTaskStatus))
    BY DEF SubTaskInv, SubTaskSame
  <2>2. QED BY <2>1, UpsertedSame DEF CreateSubTasks
<1>2. ASSUME NEW n \in Nodes PROVE subtask'.mem[n] # Null /\ subtask'.sql[n] # Null
  BY <1>1, NoRowIsNull
<1>3. QED BY <1>1, <1>2 DEF CreateSubTasks, SubTaskInv

LEMMA ExecuteKeeps ==
  ASSUME NEW r, NEW n \in Nodes, NEW does, NEW patch, SubTaskPatch(patch),
         Execute(r, n, does, patch), SubTaskInv
  PROVE  SubTaskInv'
<1>1. /\ subtask.mem[n] # Null
      /\ subtask'.mem = [subtask.mem EXCEPT ![n] = Patched(subtask.mem[n], patch)]
      /\ subtask'.sql = [subtask.sql EXCEPT ![n] = Patched(subtask.sql[n], Stored(patch))]
      /\ unwritten' = [unwritten EXCEPT ![n] = unwritten[n] \ DOMAIN patch]
  BY DEF Execute, UpdateSubTask
<1>2. SubTaskSame(subtask'.mem[n], subtask'.sql[n], unwritten'[n])
  BY <1>1, PatchedSame DEF SubTaskInv
<1>3. subtask'.mem[n] # Null /\ subtask'.sql[n] # Null
  BY <1>2, NoRowIsNull
<1>4. QED BY <1>1, <1>2, <1>3 DEF SubTaskInv

LEMMA SubTaskPatches ==
  ASSUME NEW r \in 1..MaxRuns
  PROVE  /\ SubTaskPatch([status |-> "running", prompt |-> r])
         /\ SubTaskPatch([status |-> "completed", provider |-> "used", output |-> r])
         /\ SubTaskPatch([status |-> "failed", error |-> "failed"])
         /\ SubTaskPatch([status |-> "skipped", error |-> "skipped"])
BY DEF SubTaskPatch, SubTaskColumns, SubTaskStatus

LEMMA SubTaskStep ==
  ASSUME SubTaskInv, [Next]_vars PROVE SubTaskInv'
<1>1. ASSUME UNCHANGED <<subtask, unwritten>> PROVE SubTaskInv'
  BY <1>1 DEF SubTaskInv
<1>2. ASSUME NEW r \in 1..MaxRuns, Pipeline(r) PROVE SubTaskInv'
  <2>1. CASE Begin(r) \/ Plan(r) \/ Complete(r) \/ Fail(r)
    BY <1>1, <2>1 DEF Begin, Plan, Complete, Fail
  <2>2. CASE Decompose(r)
    BY <2>2, CreateSubTasksKeeps DEF Decompose, Or
  <2>3. CASE Assign(r)
    BY <2>3, CreateSubTasksKeeps DEF Assign, Or
  <2>4. ASSUME NEW n \in Nodes, RunNode(r, n) PROVE SubTaskInv'
    BY <2>4, SubTaskPatches, ExecuteKeeps DEF RunNode
  <2>5. QED BY <1>2, <2>1, <2>2, <2>3, <2>4 DEF Pipeline
<1>3. CASE CreateTask
  BY <1>1, <1>3 DEF CreateTask
<1>4. CASE Tick \/ RecordTelemetry \/ AppendTrace \/ UpsertCalibration
  BY <1>1, <1>4 DEF Tick, RecordTelemetry, AppendTrace, UpsertCalibration, taskVars
<1>5. CASE \E k \in CacheKeys : PutCacheEntry(k) \/ GetCacheEntry(k)
  BY <1>1, <1>5 DEF PutCacheEntry, GetCacheEntry, taskVars
<1>6. CASE \E a \in Admins : FindKey(a) \/ CreateKey(a)
  BY <1>1, <1>6 DEF FindKey, CreateKey, taskVars
<1>7. CASE UNCHANGED vars
  BY <1>1, <1>7 DEF vars, taskVars
<1>8. QED BY <1>2, <1>3, <1>4, <1>5, <1>6, <1>7 DEF Next

\* However often a task's subtasks are created again, and whichever runs write
\* their rows meanwhile, the two implementations differ in no column that was
\* written since (persistence.ts:153-190, 503-545).
THEOREM SubtasksAlwaysAgreeWhereWritten == Spec => []SubtasksDifferOnlyWhereUnwritten
<1>1. Init => SubTaskInv
  BY DEF Init, SubTaskInv, Both
<1>2. SubTaskInv /\ [Next]_vars => SubTaskInv'
  BY SubTaskStep
<1>3. SubTaskInv => SubtasksDifferOnlyWhereUnwritten
  <2> SUFFICES ASSUME SubTaskInv, NEW n \in Nodes, subtask.mem[n] # Null,
                      NEW column \in DOMAIN subtask.mem[n] \ unwritten[n]
               PROVE  SubTask("mem", n)[column] = SubTask("sql", n)[column]
    BY DEF SubtasksDifferOnlyWhereUnwritten
  <2>1. SubTaskSame(subtask.mem[n], subtask.sql[n], unwritten[n]) /\ subtask.sql[n] # Null
    BY DEF SubTaskInv
  <2>2. DOMAIN subtask.mem[n] = SubTaskColumns /\ DOMAIN subtask.sql[n] = SubTaskColumns
    BY <2>1 DEF SubTaskSame, SubTaskRows, SubTaskColumns
  <2>3. SubTask("mem", n) = subtask.mem[n]
        /\ SubTask("sql", n) = [subtask.sql[n] EXCEPT !.status = lower(@)]
    BY <2>1 DEF SubTask, Read
  <2>4. CASE column = "status"
    BY <2>1, <2>2, <2>3, <2>4, UpperLower DEF SubTaskSame, SubTaskColumns
  <2>5. CASE column # "status"
    BY <2>1, <2>2, <2>3, <2>5 DEF SubTaskSame, SubTaskColumns
  <2>6. QED BY <2>4, <2>5
<1>4. QED BY <1>1, <1>2, <1>3, PTL DEF Spec

\* What a run of a task leaves to the other areas.
LEMMA RunsLeaveOthers ==
  ASSUME CreateTask \/ \E r \in 1..MaxRuns : Pipeline(r) PROVE Others
<1>1. CASE CreateTask
  BY <1>1 DEF CreateTask
<1>2. ASSUME NEW r \in 1..MaxRuns, Pipeline(r) PROVE Others
  <2>1. CASE Begin(r) \/ Decompose(r) \/ Plan(r) \/ Assign(r)
    BY <2>1 DEF Begin, Decompose, Plan, Assign
  <2>2. CASE Complete(r) \/ Fail(r)
    BY <2>2 DEF Complete, Fail
  <2>3. CASE \E n \in Nodes : RunNode(r, n)
    BY <2>3 DEF RunNode, Execute
  <2>4. QED BY <1>2, <2>1, <2>2, <2>3 DEF Pipeline
<1>3. QED BY <1>1, <1>2

-----------------------------------------------------------------------------
(* The answer cache. *)

\* Per key: what both have is the same answer, what only the table has is
\* expired, and a row of the table is older than the entry only if it was put
\* again.
EntrySame(mem, sql) ==
  /\ sql = Null => mem = Null
  /\ sql # Null => sql \in CacheRows /\ sql.response > 0
  /\ mem = Null /\ sql # Null => sql.expires <= now
  /\ mem # Null =>
       /\ mem \in CacheRows /\ mem.response = sql.response /\ mem.expires = sql.expires
       /\ sql.response = 1 => mem.created = sql.created

CacheInv ==
  /\ now \in Nat
  /\ cache.mem = [k \in CacheKeys |-> cache.mem[k]]
  /\ cache.sql = [k \in CacheKeys |-> cache.sql[k]]
  /\ \A k \in CacheKeys : EntrySame(cache.mem[k], cache.sql[k])

LEMMA PutKeeps ==
  ASSUME NEW k \in CacheKeys, PutCacheEntry(k), CacheInv PROVE CacheInv'
<1> DEFINE entry == [response |-> Puts(k) + 1, expires |-> now + CacheTtl, created |-> now]
           row == IF cache.sql[k] = Null THEN entry
                  ELSE [cache.sql[k] EXCEPT !.response = entry.response, !.expires = entry.expires]
<1>1. /\ cache'.mem = [cache.mem EXCEPT ![k] = entry]
      /\ cache'.sql = [cache.sql EXCEPT ![k] = row] /\ now' = now
  BY DEF PutCacheEntry
<1>2. EntrySame(cache.mem[k], cache.sql[k]) /\ now \in Nat /\ CacheTtl \in Nat
  BY PersistenceAssumption DEF CacheInv
<1>3. /\ Puts(k) \in Nat
      /\ cache.sql[k] # Null => Puts(k) > 0 /\ cache.sql[k] \in CacheRows
      /\ cache.sql[k] = Null => Puts(k) = 0
  BY <1>2 DEF Puts, EntrySame, CacheRows
<1>4. entry \in CacheRows /\ entry # Null
  BY <1>2, <1>3, NullAssumption DEF CacheRows
<1>5. /\ row \in CacheRows /\ row # Null /\ row.response = entry.response
      /\ row.expires = entry.expires /\ row.response > 0
      /\ row.response = 1 => row.created = entry.created
  <2>1. CASE cache.sql[k] = Null
    BY <1>3, <1>4, <2>1
  <2>2. CASE cache.sql[k] # Null
    <3>1. cache.sql[k] \in CacheRows /\ entry.response = Puts(k) + 1
      BY <1>3, <2>2
    <3>2. row = [response |-> entry.response, expires |-> entry.expires,
                 created |-> cache.sql[k].created]
      BY <2>2, <3>1 DEF CacheRows
    <3>3. row \in CacheRows /\ row.response = Puts(k) + 1 /\ row.expires = entry.expires
      BY <1>4, <3>1, <3>2 DEF CacheRows
    <3>4. QED BY <1>3, <2>2, <3>1, <3>3, NullAssumption
  <2>3. QED BY <2>1, <2>2
<1> HIDE DEF entry, row
<1>6. EntrySame(entry, row)
  BY <1>4, <1>5 DEF EntrySame
<1>7. ASSUME NEW j \in CacheKeys PROVE EntrySame(cache.mem[j], cache.sql[j])'
  <2>1. CASE j = k
    BY <1>1, <1>6, <2>1 DEF CacheInv, EntrySame
  <2>2. CASE j # k
    <3>1. cache'.mem[j] = cache.mem[j] /\ cache'.sql[j] = cache.sql[j]
      BY <1>1, <2>2 DEF CacheInv
    <3>2. QED BY <1>1, <3>1 DEF CacheInv, EntrySame
  <2>3. QED BY <2>1, <2>2
<1>8. QED BY <1>1, <1>7 DEF CacheInv

LEMMA CacheStep ==
  ASSUME CacheInv, [Next]_vars PROVE CacheInv'
<1>1. ASSUME UNCHANGED <<cache, now>> PROVE CacheInv'
  BY <1>1 DEF CacheInv, EntrySame
<1>2. CASE Tick
  <2>1. now' = now + 1 /\ cache' = cache
    BY <1>2 DEF Tick
  <2>2. QED BY <2>1 DEF CacheInv, EntrySame, CacheRows
<1>3. ASSUME NEW k \in CacheKeys, PutCacheEntry(k) PROVE CacheInv'
  BY <1>3, PutKeeps
<1>4. ASSUME NEW k \in CacheKeys, GetCacheEntry(k) PROVE CacheInv'
  <2>1. CASE Live(cache.mem[k])
    BY <1>4, <2>1 DEF GetCacheEntry, CacheInv, EntrySame
  <2>2. CASE ~Live(cache.mem[k])
    <3>1. /\ cache'.mem = [cache.mem EXCEPT ![k] = Null] /\ cache'.sql = cache.sql /\ now' = now
          /\ cache.mem[k] # Null
      BY <1>4, <2>2 DEF GetCacheEntry
    <3>2. ~(cache.mem[k].expires > now)
      BY <2>2, <3>1 DEF Live
    <3>3. EntrySame(Null, cache.sql[k])
      BY <3>1, <3>2 DEF CacheInv, EntrySame, CacheRows
    <3>4. QED BY <3>1, <3>3 DEF CacheInv, EntrySame
  <2>3. QED BY <2>1, <2>2
<1>5. CASE CreateTask \/ RecordTelemetry \/ AppendTrace \/ UpsertCalibration
  BY <1>1, <1>5 DEF CreateTask, RecordTelemetry, AppendTrace, UpsertCalibration, Others
<1>6. ASSUME NEW r \in 1..MaxRuns, Pipeline(r) PROVE CacheInv'
  BY <1>1, <1>6, RunsLeaveOthers DEF Others
<1>7. CASE \E a \in Admins : FindKey(a) \/ CreateKey(a)
  BY <1>1, <1>7 DEF FindKey, CreateKey
<1>8. CASE UNCHANGED vars
  BY <1>1, <1>8 DEF vars
<1>9. QED BY <1>2, <1>3, <1>4, <1>5, <1>6, <1>7, <1>8 DEF Next

LEMMA CacheInvariance == Spec => []CacheInv
<1>1. Init => CacheInv
  BY DEF Init, CacheInv, EntrySame, Both
<1>2. CacheInv /\ [Next]_vars => CacheInv'
  BY CacheStep
<1>3. QED BY <1>1, <1>2, PTL DEF Spec

LEMMA LiveInBoth ==
  ASSUME CacheInv, NEW k \in CacheKeys
  PROVE  /\ Live(cache.mem[k]) <=> Live(cache.sql[k])
         /\ Live(cache.mem[k]) =>
              /\ cache.mem[k].response = cache.sql[k].response
              /\ cache.mem[k].expires = cache.sql[k].expires
              /\ Puts(k) \in Nat \ {0}
              /\ Puts(k) <= 1 => cache.mem[k].created = cache.sql[k].created
<1>1. EntrySame(cache.mem[k], cache.sql[k]) /\ now \in Nat
  BY DEF CacheInv
<1>2. QED BY <1>1 DEF EntrySame, Live, Puts, CacheRows

\* When all are scanned there is one answer, and when not, the ages decide.
LEMMA SameCandidates ==
  ASSUME CacheInv,
         \/ Cardinality(Listable("sql")) <= ScanLimit
         \/ \A k \in Listable("sql") : Puts(k) <= 1
  PROVE  ByRole("mem") = ByRole("sql")
<1> DEFINE L == Listable("sql")
<1>1. Listable("mem") = L
  BY LiveInBoth DEF Listable
<1>2. IsFiniteSet(L) /\ Cardinality(L) \in Nat /\ ScanLimit \in Nat
  <2>1. L \subseteq CacheKeys
    BY DEF Listable
  <2>2. QED BY <2>1, PersistenceAssumption, FS_Subset, FS_CardinalityType
<1>3. CASE Cardinality(L) <= ScanLimit
  <2>1. Min({ScanLimit, Cardinality(L)}) = Cardinality(L)
    BY <1>2, <1>3 DEF Min
  <2>2. \A found \in SUBSET L : Cardinality(found) = Cardinality(L) <=> found = L
    BY <1>2, FS_Subset
  <2> HIDE DEF L
  <2>3. ByRole("sql") = {L}
    BY <2>1, <2>2 DEF ByRole, L
  <2>4. ByRole("mem") = {L}
    BY <1>1, <2>1, <2>2 DEF ByRole
  <2>5. QED BY <2>3, <2>4
<1>4. CASE \A k \in L : Puts(k) <= 1
  <2>1. \A k \in L : cache["mem"][k].created = cache["sql"][k].created
    BY <1>4, LiveInBoth DEF Listable
  <2>2. QED BY <1>1, <2>1 DEF ByRole
<1>5. QED BY <1>3, <1>4

\* At any time, after any puts and reads, a cached answer and its expiry are the
\* same on both, and so are the candidates a prompt is compared with, unless
\* there are more than are scanned and one of them was put again
\* (persistence.ts:295-316, 664-687).
THEOREM CacheAnswersAlwaysAgree == Spec => []CacheAnswersAgree
<1>1. CacheInv => CacheAnswersAgree
  <2> SUFFICES ASSUME CacheInv PROVE CacheAnswersAgree
    OBVIOUS
  <2>1. CASE Cardinality(Listable("sql")) <= ScanLimit \/ \A k \in Listable("sql") : Puts(k) <= 1
    BY <2>1, LiveInBoth, SameCandidates DEF CacheAnswersAgree
  <2>2. CASE ~(Cardinality(Listable("sql")) <= ScanLimit
               \/ \A k \in Listable("sql") : Puts(k) <= 1)
    <3>1. Listable("sql") \subseteq CacheKeys /\ Cardinality(Listable("sql")) \in Nat
      BY PersistenceAssumption, FS_Subset, FS_CardinalityType DEF Listable
    <3>2. \A k \in Listable("sql") : Puts(k) \in Nat
      BY LiveInBoth DEF Listable
    <3>3. Cardinality(Listable("sql")) > ScanLimit /\ \E k \in Listable("sql") : Puts(k) > 1
      BY <2>2, <3>1, <3>2, PersistenceAssumption
    <3>4. QED BY <3>3, LiveInBoth DEF CacheAnswersAgree
  <2>3. QED BY <2>1, <2>2
<1>2. QED BY <1>1, CacheInvariance, PTL

-----------------------------------------------------------------------------
(* The registration of keys. *)

\* Until two look at once, whoever is about to create a key found none and is
\* alone, and there is none still.
KeyInv ==
  /\ adding \in [Admins -> {"look", "create", "done"}]
  /\ overlap \in BOOLEAN /\ keys.mem \in Nat /\ keys.sql \in 0..1
  /\ ~overlap =>
       /\ keys.mem = keys.sql
       /\ \A a \in Admins : adding[a] = "create" =>
            keys.sql = 0 /\ \A b \in Admins : adding[b] = "create" => a = b

LEMMA KeyStep ==
  ASSUME KeyInv, [Next]_vars PROVE KeyInv'
<1>1. ASSUME UNCHANGED <<adding, keys, overlap>> PROVE KeyInv'
  BY <1>1 DEF KeyInv
<1>2. ASSUME NEW a \in Admins, FindKey(a) PROVE KeyInv'
  <2>1. /\ adding[a] = "look" /\ keys' = keys
        /\ adding' = [adding EXCEPT ![a] = IF keys.sql = 0 THEN "create" ELSE "done"]
    BY <1>2 DEF FindKey
  <2>2. /\ overlap' \in BOOLEAN
        /\ ~overlap' => ~overlap /\ (keys.sql = 0 => \A b \in Admins \ {a} : adding[b] # "create")
    BY <1>2 DEF FindKey, KeyInv
  <2>3. CASE keys.sql = 0
    BY <2>1, <2>2, <2>3 DEF KeyInv
  <2>4. CASE keys.sql # 0
    BY <2>1, <2>2, <2>4 DEF KeyInv
  <2>5. QED BY <2>3, <2>4
<1>3. ASSUME NEW a \in Admins, CreateKey(a) PROVE KeyInv'
  <2>1. /\ adding[a] = "create" /\ adding' = [adding EXCEPT ![a] = "done"]
        /\ keys' = [mem |-> keys.mem + 1, sql |-> 1] /\ overlap' = overlap
    BY <1>3 DEF CreateKey
  <2>2. QED BY <2>1 DEF KeyInv
<1>4. CASE CreateTask \/ Tick \/ RecordTelemetry \/ AppendTrace \/ UpsertCalibration
  BY <1>1, <1>4 DEF CreateTask, Tick, RecordTelemetry, AppendTrace, UpsertCalibration, Others, keyVars
<1>5. CASE \E k \in CacheKeys : PutCacheEntry(k) \/ GetCacheEntry(k)
  BY <1>1, <1>5 DEF PutCacheEntry, GetCacheEntry, keyVars
<1>6. ASSUME NEW r \in 1..MaxRuns, Pipeline(r) PROVE KeyInv'
  <2>1. Others
    BY <1>6, RunsLeaveOthers
  <2>2. UNCHANGED <<adding, keys, overlap>>
    BY <2>1 DEF Others, keyVars
  <2>3. QED BY <1>1, <2>2
<1>7. CASE UNCHANGED vars
  BY <1>1, <1>7 DEF vars, keyVars
<1>8. QED BY <1>2, <1>3, <1>4, <1>5, <1>6, <1>7 DEF Next

\* However many register the same key, the map has it once, as the unique hash
\* of the table demands, unless two looked for it before either created it
\* (manager.ts:81-88).
THEOREM KeysAlwaysAgree == Spec => []KeysAgree
<1>1. Init => KeyInv
  <2> SUFFICES ASSUME Init PROVE KeyInv
    OBVIOUS
  <2>1. keys.mem = 0 /\ keys.sql = 0
    BY DEF Init, Both
  <2>2. adding = [a \in Admins |-> "look"] /\ overlap = FALSE
    BY DEF Init
  <2>3. ~overlap /\ overlap \in BOOLEAN /\ \A a \in Admins : adding[a] = "look"
    BY <2>2
  <2>4. adding \in [Admins -> {"look", "create", "done"}]
    BY <2>2
  <2>5. QED BY <2>1, <2>3, <2>4 DEF KeyInv
<1>2. KeyInv /\ [Next]_vars => KeyInv'
  BY KeyStep
<1>3. KeyInv => KeysAgree
  BY DEF KeyInv, KeysAgree
<1>4. QED BY <1>1, <1>2, <1>3, PTL DEF Spec

-----------------------------------------------------------------------------
(* Rows that are only added.                                               *)

\* The list of the process is what is left of the table's without its first
\* `gone' rows.
IsRest(mem, sql, gone) ==
  /\ mem \in Seq(Int) /\ sql \in Seq(Int)
  /\ gone \in 0..Len(sql) /\ Len(mem) = Len(sql) - gone
  /\ \A i \in 1..Len(mem) : mem[i] = sql[i + gone]

ReportInv ==
  /\ now \in Int
  /\ \E gone \in Nat :
       /\ IsRest(telemetry.mem, telemetry.sql, gone)
       /\ gone # 0 => Len(telemetry.sql) > MaxTelemetry

LEMMA RestAppended ==
  ASSUME NEW mem, NEW sql, NEW gone, IsRest(mem, sql, gone), NEW at \in Int
  PROVE  IsRest(Append(mem, at), Append(sql, at), gone)
<1> DEFINE m == Append(mem, at)
           q == Append(sql, at)
<1>1. mem \in Seq(Int) /\ sql \in Seq(Int) /\ gone \in 0..Len(sql) /\ Len(mem) = Len(sql) - gone
  BY DEF IsRest
<1>2. /\ m \in Seq(Int) /\ q \in Seq(Int) /\ Len(m) = Len(mem) + 1 /\ Len(q) = Len(sql) + 1
      /\ m[Len(mem) + 1] = at /\ q[Len(sql) + 1] = at
      /\ \A i \in 1..Len(mem) : m[i] = mem[i]
      /\ \A i \in 1..Len(sql) : q[i] = sql[i]
  BY <1>1
<1> HIDE DEF m, q
<1>3. ASSUME NEW i \in 1..Len(m)
      PROVE  m[i] = q[i + gone]
  <2>1. CASE i = Len(mem) + 1
    BY <1>1, <1>2, <2>1
  <2>2. CASE i \in 1..Len(mem)
    <3>1. i + gone \in 1..Len(sql)
      BY <1>1, <2>2
    <3>2. QED BY <1>2, <2>2, <3>1 DEF IsRest
  <2>3. QED BY <1>1, <1>2, <2>1, <2>2
<1>4. IsRest(m, q, gone)
  BY <1>1, <1>2, <1>3 DEF IsRest
<1>5. QED BY <1>4 DEF m, q

LEMMA RestOfRest ==
  ASSUME NEW mem, NEW sql, NEW gone, IsRest(mem, sql, gone), NEW more \in 0..Len(mem)
  PROVE  IsRest(SubSeq(mem, more + 1, Len(mem)), sql, gone + more)
<1> DEFINE m == SubSeq(mem, more + 1, Len(mem))
<1>1. mem \in Seq(Int) /\ sql \in Seq(Int) /\ gone \in 0..Len(sql) /\ Len(mem) = Len(sql) - gone
  BY DEF IsRest
<1>2. /\ m \in Seq(Int) /\ Len(m) = Len(mem) - more
      /\ \A i \in 1..(Len(mem) - more) : m[i] = mem[i + more]
  BY <1>1
<1> HIDE DEF m
<1>3. \A i \in 1..Len(m) : m[i] = sql[i + (gone + more)]
  <2> SUFFICES ASSUME NEW i \in 1..Len(m) PROVE m[i] = sql[i + (gone + more)]
    OBVIOUS
  <2>1. i + more \in 1..Len(mem) /\ (i + more) + gone = i + (gone + more)
    BY <1>1, <1>2
  <2>2. mem[i + more] = sql[(i + more) + gone]
    BY <2>1 DEF IsRest
  <2>3. QED BY <1>2, <2>1, <2>2
<1>4. gone + more \in 0..Len(sql) /\ Len(m) = Len(sql) - (gone + more)
  BY <1>1, <1>2
<1>5. QED BY <1>1, <1>2, <1>3, <1>4 DEF IsRest, m

LEMMA RecordKeeps ==
  ASSUME ReportInv, RecordTelemetry
  PROVE  ReportInv'
<1>1. PICK gone \in Nat : /\ IsRest(telemetry.mem, telemetry.sql, gone)
                          /\ gone # 0 => Len(telemetry.sql) > MaxTelemetry
  BY DEF ReportInv
<1> DEFINE mem == Append(telemetry.mem, now)
           sql == Append(telemetry.sql, now)
<1>2. now \in Int /\ now' = now /\ telemetry'.mem = Kept(mem) /\ telemetry'.sql = sql
  BY DEF ReportInv, RecordTelemetry
<1>3. Len(sql) = Len(telemetry.sql) + 1
  BY <1>1 DEF IsRest
<1>4. IsRest(mem, sql, gone)
  BY <1>1, <1>2, RestAppended
<1> HIDE DEF mem, sql
<1>5. /\ Len(mem) \in Nat /\ Len(sql) \in Nat /\ Len(mem) <= Len(sql)
      /\ Len(telemetry.sql) \in Nat
  BY <1>1, <1>4 DEF IsRest
<1>6. MaxTelemetry \in Nat /\ Dropped \in Nat /\ Dropped <= MaxTelemetry
  BY PersistenceAssumption
<1>7. CASE Len(mem) > MaxTelemetry
  <2>1. Kept(mem) = SubSeq(mem, Dropped + 1, Len(mem))
    BY <1>7 DEF Kept
  <2>2. IsRest(Kept(mem), sql, gone + Dropped)
    <3>1. Dropped \in 0..Len(mem)
      BY <1>5, <1>6, <1>7
    <3>2. IsRest(SubSeq(mem, Dropped + 1, Len(mem)), sql, gone + Dropped)
      BY <1>4, <3>1, RestOfRest
    <3>3. QED BY <2>1, <3>2
  <2>3. gone + Dropped \in Nat /\ Len(sql) > MaxTelemetry
    BY <1>5, <1>6, <1>7
  <2>4. QED BY <1>2, <2>2, <2>3 DEF ReportInv
<1>8. CASE ~(Len(mem) > MaxTelemetry)
  <2>1. Kept(mem) = mem
    BY <1>8 DEF Kept
  <2>2. gone # 0 => Len(sql) > MaxTelemetry
    BY <1>1, <1>3, <1>5, <1>6
  <2>3. QED BY <1>2, <1>4, <2>1, <2>2 DEF ReportInv
<1>9. QED BY <1>7, <1>8

LEMMA ReportStep == ReportInv /\ [Next]_vars => ReportInv'
<1> SUFFICES ASSUME ReportInv, [Next]_vars PROVE ReportInv'
  OBVIOUS
<1>1. CASE RecordTelemetry
  BY <1>1, RecordKeeps
<1>2. CASE Tick
  <2>1. telemetry' = telemetry /\ now' = now + 1
    BY <1>2 DEF Tick, logs
  <2>2. now \in Int
    BY DEF ReportInv
  <2>3. now' \in Int
    BY <2>1, <2>2
  <2>4. QED BY <2>1, <2>3 DEF ReportInv
<1>3. CASE UNCHANGED <<telemetry, now>>
  BY <1>3 DEF ReportInv
<1>4. CASE CreateTask \/ \E r \in 1..MaxRuns : Pipeline(r)
  BY <1>3, <1>4, RunsLeaveOthers DEF Others, logs
<1>5. CASE \/ \E k \in CacheKeys : PutCacheEntry(k) \/ GetCacheEntry(k)
           \/ AppendTrace
           \/ UpsertCalibration
           \/ \E a \in Admins : FindKey(a) \/ CreateKey(a)
           \/ UNCHANGED vars
  BY <1>3, <1>5 DEF PutCacheEntry, GetCacheEntry, AppendTrace, UpsertCalibration, FindKey,
     CreateKey, logs, vars
<1>6. QED BY <1>1, <1>2, <1>4, <1>5 DEF Next

LEMMA LessOfTwo ==
  ASSUME NEW a \in Nat, NEW b \in Nat
  PROVE  Min({a, b}) = IF a <= b THEN a ELSE b
BY DEF Min

\* The rows of the last days.
Since(list) == {i \in DOMAIN list : list[i] >= now - Period}
Taken(list) == Min({MaxTelemetry, Cardinality(Since(list))})

LEMMA SinceIsPart ==
  ASSUME NEW list \in Seq(Int)
  PROVE  /\ IsFiniteSet(Since(list)) /\ Cardinality(Since(list)) \in Nat
         /\ Taken(list) \in 0..Len(list)
<1>1. DOMAIN list = 1..Len(list) /\ Len(list) \in Nat
  OBVIOUS
<1>2. IsFiniteSet(1..Len(list)) /\ Cardinality(1..Len(list)) = Len(list)
  BY <1>1, FS_Interval
<1>3. Since(list) \subseteq 1..Len(list)
  BY <1>1 DEF Since
<1>4. /\ IsFiniteSet(Since(list)) /\ Cardinality(Since(list)) \in Nat
      /\ Cardinality(Since(list)) <= Len(list)
  BY <1>2, <1>3, FS_Subset, FS_CardinalityType
<1>5. MaxTelemetry \in Nat
  BY PersistenceAssumption
<1>6. Taken(list) \in Nat /\ Taken(list) <= Cardinality(Since(list))
  BY <1>4, <1>5, LessOfTwo DEF Taken
<1>7. QED BY <1>1, <1>4, <1>6

\* What is left of a list has no more rows of the last days than the list.
LEMMA RestHasFewer ==
  ASSUME NEW mem, NEW sql, NEW gone, IsRest(mem, sql, gone)
  PROVE  Taken(mem) <= Taken(sql)
<1>1. mem \in Seq(Int) /\ sql \in Seq(Int) /\ gone \in 0..Len(sql) /\ Len(mem) = Len(sql) - gone
  BY DEF IsRest
<1> DEFINE shift == [i \in Since(mem) |-> i + gone]
<1>2. Since(mem) \subseteq Int /\ gone \in Int
  BY <1>1 DEF Since
<1>3. ASSUME NEW i \in Since(mem) PROVE i + gone \in Since(sql)
  <2>1. i \in 1..Len(mem) /\ mem[i] >= now - Period
    BY <1>1 DEF Since
  <2>2. i + gone \in 1..Len(sql) /\ sql[i + gone] = mem[i]
    BY <1>1, <2>1 DEF IsRest
  <2>3. i + gone \in DOMAIN sql /\ sql[i + gone] >= now - Period
    <3>1. DOMAIN sql = 1..Len(sql)
      BY <1>1
    <3>2. QED BY <2>1, <2>2, <3>1
  <2>4. QED BY <2>3 DEF Since
<1>4. shift \in [Since(mem) -> Since(sql)]
  BY <1>3
<1>5. ASSUME NEW i \in Since(mem), NEW j \in Since(mem), shift[i] = shift[j]
      PROVE  i = j
  <2>1. i + gone = j + gone
    BY <1>5
  <2>2. i \in Int /\ j \in Int /\ gone \in Int
    BY <1>2
  <2>3. QED BY <2>1, <2>2
<1>6. shift \in Injection(Since(mem), Since(sql))
  BY <1>4, <1>5 DEF Injection, IsInjective
<1>7. Cardinality(Since(mem)) <= Cardinality(Since(sql))
  BY <1>1, <1>6, SinceIsPart, FS_Injection
<1>8. MaxTelemetry \in Nat /\ Cardinality(Since(mem)) \in Nat /\ Cardinality(Since(sql)) \in Nat
  BY <1>1, SinceIsPart, PersistenceAssumption
<1>9. QED BY <1>7, <1>8, LessOfTwo DEF Taken

LEMMA WithoutFirst ==
  ASSUME NEW list \in Seq(Int), NEW k \in 0..Len(list)
  PROVE  /\ SubSeq(list, k + 1, Len(list)) \in Seq(Int)
         /\ Len(SubSeq(list, k + 1, Len(list))) = Len(list) - k
         /\ \A i \in 1..(Len(list) - k) : SubSeq(list, k + 1, Len(list))[i] = list[k + i]
OBVIOUS

\* The rows a report takes.
Reported(list) == SubSeq(list, Len(list) - Taken(list) + 1, Len(list))

LEMMA LastAre ==
  ASSUME NEW list \in Seq(Int)
  PROVE  /\ Reported(list) \in Seq(Int) /\ Len(Reported(list)) = Taken(list)
         /\ \A i \in 1..Taken(list) : Reported(list)[i] = list[(Len(list) - Taken(list)) + i]
<1> DEFINE k == Len(list) - Taken(list)
<1>1. k \in 0..Len(list) /\ Len(list) - k = Taken(list)
  BY SinceIsPart
<1>2. Reported(list) = SubSeq(list, k + 1, Len(list))
  BY DEF Reported
<1> HIDE DEF k
<1>3. QED BY <1>1, <1>2, WithoutFirst DEF k

\* Those of what is left are the last ones of those of all.
LEMMA RestEndsAlike ==
  ASSUME NEW mem, NEW sql, NEW gone, IsRest(mem, sql, gone)
  PROVE  \E n \in 0..Len(Reported(sql)) :
           Reported(mem) = SubSeq(Reported(sql), n + 1, Len(Reported(sql)))
<1> DEFINE few == Taken(mem)
           most == Taken(sql)
           last == Reported(sql)
           left == Reported(mem)
           end == SubSeq(last, (most - few) + 1, Len(last))
<1>1. /\ mem \in Seq(Int) /\ sql \in Seq(Int) /\ gone \in 0..Len(sql)
      /\ Len(mem) = Len(sql) - gone /\ Len(sql) \in Nat /\ Len(mem) \in Nat
      /\ few \in 0..Len(mem) /\ most \in 0..Len(sql) /\ few <= most
  <2>1. mem \in Seq(Int) /\ sql \in Seq(Int) /\ gone \in 0..Len(sql) /\ Len(mem) = Len(sql) - gone
    BY DEF IsRest
  <2>2. few \in 0..Len(mem) /\ most \in 0..Len(sql) /\ few <= most
    BY <2>1, SinceIsPart, RestHasFewer
  <2>3. QED BY <2>1, <2>2
<1> HIDE DEF few, most
<1>2. /\ last \in Seq(Int) /\ Len(last) = most
      /\ \A i \in 1..most : last[i] = sql[(Len(sql) - most) + i]
  BY <1>1, LastAre DEF most
<1>3. /\ left \in Seq(Int) /\ Len(left) = few
      /\ \A i \in 1..few : left[i] = mem[(Len(mem) - few) + i]
  BY <1>1, LastAre DEF few
<1> HIDE DEF last, left
<1>4. /\ end \in Seq(Int) /\ Len(end) = few
      /\ \A i \in 1..few : end[i] = last[(most - few) + i]
  <2>1. most - few \in 0..Len(last) /\ Len(last) - (most - few) = few
    BY <1>1, <1>2
  <2>2. QED BY <1>2, <2>1, WithoutFirst
<1>5. ASSUME NEW i \in 1..few PROVE left[i] = end[i]
  <2>1. /\ (Len(mem) - few) + i \in 1..Len(mem)
        /\ ((Len(mem) - few) + i) + gone = (Len(sql) - most) + ((most - few) + i)
        /\ (most - few) + i \in 1..most
    BY <1>1
  <2>2. mem[(Len(mem) - few) + i] = sql[((Len(mem) - few) + i) + gone]
    BY <2>1 DEF IsRest
  <2>3. QED BY <1>2, <1>3, <1>4, <2>1, <2>2
<1>6. left = end
  <2>1. left = [i \in 1..few |-> left[i]]
    BY <1>3
  <2>2. end = [i \in 1..few |-> end[i]]
    BY <1>4
  <2>3. QED BY <1>5, <2>1, <2>2
<1>7. most - few \in 0..Len(last)
  BY <1>1, <1>2
<1>8. QED BY <1>6, <1>7 DEF left, end, last

LEMMA ReportsFollow == ReportInv => ReportsAgree
<1> SUFFICES ASSUME ReportInv PROVE ReportsAgree
  OBVIOUS
<1> DEFINE mem == telemetry.mem
           sql == telemetry.sql
<1>1. PICK gone \in Nat : IsRest(mem, sql, gone) /\ (gone # 0 => Len(sql) > MaxTelemetry)
  BY DEF ReportInv
<1>2. mem \in Seq(Int) /\ sql \in Seq(Int)
  BY <1>1 DEF IsRest
<1>3. ForReport("mem") = Reported(mem) /\ ForReport("sql") = Reported(sql)
  BY DEF ForReport, Reported, Taken, Since
<1> HIDE DEF mem, sql
<1>4. \E n \in 0..Len(Reported(sql)) : Reported(mem) = SubSeq(Reported(sql), n + 1, Len(Reported(sql)))
  BY <1>1, RestEndsAlike
<1>5. ASSUME gone = 0 PROVE mem = sql
  BY <1>1, <1>2, <1>5 DEF IsRest
<1>6. ForReport("mem") # ForReport("sql") => Len(sql) > MaxTelemetry
  BY <1>1, <1>3, <1>5
<1>7. QED BY <1>3, <1>4, <1>6 DEF ReportsAgree, sql

-----------------------------------------------------------------------------
(* The trace of a task.                                                    *)

TraceRows == [msOffset : Int, created : Int, nth : Int]

\* Rows numbered as they came, in the order of their creation.
IsLog(list) ==
  /\ list \in Seq(TraceRows)
  /\ \A i \in 1..Len(list) : list[i].nth = i
  /\ \A i, j \in 1..Len(list) : i <= j => list[i].created <= list[j].created

\* The place the sort gives a row.
PlaceOf(list, row) == Cardinality({r \in ToSet(list) : Before(r, row)}) + 1

LEMMA RowsOfLog ==
  ASSUME NEW list, IsLog(list)
  PROVE  /\ IsFiniteSet(ToSet(list)) /\ Cardinality(ToSet(list)) = Len(list)
         /\ ToSet(list) \subseteq TraceRows /\ Len(list) \in Nat
         /\ \A row \in ToSet(list) : row.nth \in 1..Len(list) /\ row = list[row.nth]
<1> DEFINE n == Len(list)
           rows == ToSet(list)
           number == [row \in rows |-> row.nth]
<1>1. /\ n \in Nat /\ DOMAIN list = 1..n /\ list \in [1..n -> TraceRows]
      /\ \A i \in 1..n : list[i].nth = i
  BY DEF IsLog
<1>2. rows = {list[i] : i \in 1..n}
  BY <1>1 DEF ToSet
<1>3. \A row \in rows : row.nth \in 1..n /\ row = list[row.nth]
  BY <1>1, <1>2
<1>4. rows \subseteq TraceRows
  BY <1>1, <1>2
<1>5. \A i \in 1..n : list[i] \in rows
  BY <1>2
<1> HIDE DEF rows, n
<1>6. number \in [rows -> 1..n]
  BY <1>3
<1>7. \A r, q \in rows : number[r] = number[q] => r = q
  BY <1>3
<1>8. number \in Injection(rows, 1..n)
  BY <1>6, <1>7 DEF Injection, IsInjective
<1>9. \A i \in 1..n : \E row \in rows : number[row] = i
  BY <1>1, <1>5
<1>10. number \in Surjection(rows, 1..n)
  BY <1>6, <1>9 DEF Surjection
<1>11. IsFiniteSet(1..n) /\ Cardinality(1..n) = n
  BY <1>1, FS_Interval
<1>12. IsFiniteSet(rows) /\ Cardinality(rows) = n
  BY <1>8, <1>10, <1>11, FS_Injection
<1>13. QED BY <1>1, <1>3, <1>4, <1>12 DEF rows, n

\* Before is a strict total order of the rows.
LEMMA BeforeOrders ==
  ASSUME NEW list, IsLog(list), NEW p \in ToSet(list), NEW q \in ToSet(list), NEW r \in ToSet(list)
  PROVE  /\ ~Before(p, p)
         /\ Before(p, q) /\ Before(q, r) => Before(p, r)
         /\ p = q \/ Before(p, q) \/ Before(q, p)
<1>1. \A row \in {p, q, r} : row.msOffset \in Int /\ row.nth \in Int /\ row = list[row.nth]
  BY RowsOfLog DEF TraceRows
<1>2. ~Before(p, p) /\ (Before(p, q) /\ Before(q, r) => Before(p, r))
  BY <1>1 DEF Before
<1>3. p.nth = q.nth => p = q
  BY <1>1
<1>4. p = q \/ Before(p, q) \/ Before(q, p)
  BY <1>1, <1>3 DEF Before
<1>5. QED BY <1>2, <1>4

LEMMA PlacesOfRows ==
  ASSUME NEW list, IsLog(list)
  PROVE  /\ \A row \in ToSet(list) : PlaceOf(list, row) \in 1..Len(list)
         /\ \A p, q \in ToSet(list) : Before(p, q) => PlaceOf(list, p) < PlaceOf(list, q)
<1> DEFINE rows == ToSet(list)
           Earlier(row) == {r \in rows : Before(r, row)}
<1>1. IsFiniteSet(rows) /\ Cardinality(rows) = Len(list) /\ Len(list) \in Nat
  BY RowsOfLog
<1>2. ASSUME NEW row \in rows
      PROVE  /\ IsFiniteSet(Earlier(row)) /\ Cardinality(Earlier(row)) \in Nat
             /\ Cardinality(Earlier(row)) < Len(list)
  <2>1. Earlier(row) \subseteq rows /\ Earlier(row) # rows
    BY BeforeOrders
  <2> HIDE DEF Earlier
  <2>2. /\ IsFiniteSet(Earlier(row)) /\ Cardinality(Earlier(row)) \in Nat
        /\ Cardinality(Earlier(row)) <= Cardinality(rows)
        /\ Cardinality(Earlier(row)) # Cardinality(rows)
    BY <1>1, <2>1, FS_Subset, FS_CardinalityType
  <2>3. QED BY <1>1, <2>2
<1>3. ASSUME NEW p \in rows, NEW q \in rows, Before(p, q)
      PROVE  Cardinality(Earlier(p)) < Cardinality(Earlier(q))
  <2>1. Earlier(p) \subseteq Earlier(q)
    BY <1>3, BeforeOrders
  <2>2. p \in Earlier(q) /\ p \notin Earlier(p)
    BY <1>3, BeforeOrders
  <2> HIDE DEF Earlier
  <2>3. /\ Cardinality(Earlier(p)) <= Cardinality(Earlier(q))
        /\ Cardinality(Earlier(p)) # Cardinality(Earlier(q))
    BY <1>2, <2>1, <2>2, FS_Subset
  <2>4. QED BY <1>2, <2>3
<1>4. \A row : PlaceOf(list, row) = Cardinality(Earlier(row)) + 1
  BY DEF PlaceOf
<1> HIDE DEF Earlier
<1>5. \A row \in rows : PlaceOf(list, row) \in 1..Len(list)
  BY <1>1, <1>2, <1>4
<1>6. \A p, q \in rows : Before(p, q) => PlaceOf(list, p) < PlaceOf(list, q)
  BY <1>2, <1>3, <1>4
<1>7. QED BY <1>5, <1>6

\* The sort lists the rows, each at its place.
LEMMA SortPlaces ==
  ASSUME NEW list, IsLog(list)
  PROVE  /\ TraceOf(list) \in Seq(ToSet(list)) /\ Len(TraceOf(list)) = Len(list)
         /\ \A i \in 1..Len(list) : PlaceOf(list, TraceOf(list)[i]) = i
<1> DEFINE n == Len(list)
           rows == ToSet(list)
           place == [row \in rows |-> PlaceOf(list, row)]
<1>1. /\ n \in Nat /\ IsFiniteSet(1..n) /\ Cardinality(1..n) = n
      /\ IsFiniteSet(rows) /\ Cardinality(rows) = n /\ DOMAIN list = 1..n
  <2>1. n \in Nat /\ IsFiniteSet(rows) /\ Cardinality(rows) = n
    BY RowsOfLog
  <2>2. DOMAIN list = 1..n
    BY DEF IsLog
  <2> HIDE DEF n
  <2>3. IsFiniteSet(1..n) /\ Cardinality(1..n) = n
    BY <2>1, FS_Interval
  <2>4. QED BY <2>1, <2>2, <2>3
<1>2. place \in [rows -> 1..n]
  BY PlacesOfRows
<1>3. ASSUME NEW p \in rows, NEW q \in rows, place[p] = place[q] PROVE p = q
  <2>1. PlaceOf(list, p) = PlaceOf(list, q) /\ PlaceOf(list, p) \in Int
    BY <1>3, PlacesOfRows
  <2>2. ~Before(p, q) /\ ~Before(q, p)
    BY <2>1, PlacesOfRows
  <2>3. QED BY <2>2, BeforeOrders
<1>4. place \in Injection(rows, 1..n)
  BY <1>2, <1>3 DEF Injection, IsInjective
<1>5. place \in Surjection(rows, 1..n)
  BY <1>1, <1>4, FS_Injection
<1>6. \A i \in 1..n : \E row \in rows : PlaceOf(list, row) = i
  BY <1>5 DEF Surjection
<1> DEFINE at(i) == CHOOSE row \in rows : PlaceOf(list, row) = i
<1>7. \A i \in 1..n : at(i) \in rows /\ PlaceOf(list, at(i)) = i
  BY <1>6
<1>8. TraceOf(list) = [i \in 1..n |-> at(i)]
  <2>1. ASSUME NEW i \in 1..n, NEW row \in rows
        PROVE  PlaceOf(list, row) = i
                 <=> Cardinality({r \in rows : Before(r, row)}) = i - 1
    <3>1. PlaceOf(list, row) \in 1..n
      BY PlacesOfRows
    <3> DEFINE before == Cardinality({r \in rows : Before(r, row)})
    <3>2. PlaceOf(list, row) = before + 1
      BY DEF PlaceOf
    <3>3. before \in Int
      <4>1. {r \in rows : Before(r, row)} \subseteq rows
        OBVIOUS
      <4>2. QED BY <1>1, <4>1, FS_Subset, FS_CardinalityType
    <3> HIDE DEF before
    <3>4. PlaceOf(list, row) = i <=> before = i - 1
      BY <3>2, <3>3
    <3>5. QED BY <3>4 DEF before
  <2>2. ASSUME NEW i \in 1..n
        PROVE  at(i) = CHOOSE row \in rows : Cardinality({r \in rows : Before(r, row)}) = i - 1
    BY <2>1
  <2>3. QED BY <1>1, <2>2 DEF TraceOf
<1> HIDE DEF at, rows, n
<1>9. TraceOf(list) \in Seq(rows) /\ Len(TraceOf(list)) = n
  BY <1>1, <1>7, <1>8
<1>10. \A i \in 1..n : PlaceOf(list, TraceOf(list)[i]) = i
  BY <1>7, <1>8
<1>11. QED BY <1>9, <1>10 DEF rows, n

\* A stable sort by offset is an order by offset and then by creation.
LEMMA SortIsTraceOrder ==
  ASSUME NEW list, IsLog(list)
  PROVE  IsTraceOrder(TraceOf(list))
<1> SUFFICES ASSUME NEW i \in 1..(Len(TraceOf(list)) - 1)
             PROVE  \/ TraceOf(list)[i].msOffset < TraceOf(list)[i + 1].msOffset
                    \/ /\ TraceOf(list)[i].msOffset = TraceOf(list)[i + 1].msOffset
                       /\ TraceOf(list)[i].created <= TraceOf(list)[i + 1].created
  BY DEF IsTraceOrder
<1> DEFINE p == TraceOf(list)[i]
           q == TraceOf(list)[i + 1]
<1>1. /\ i \in 1..Len(list) /\ i + 1 \in 1..Len(list)
      /\ p \in ToSet(list) /\ q \in ToSet(list)
      /\ PlaceOf(list, p) = i /\ PlaceOf(list, q) = i + 1
  <2>1. /\ TraceOf(list) \in Seq(ToSet(list)) /\ Len(TraceOf(list)) = Len(list)
        /\ \A k \in 1..Len(list) : PlaceOf(list, TraceOf(list)[k]) = k
    BY SortPlaces
  <2>2. i \in 1..Len(list) /\ i + 1 \in 1..Len(list) /\ Len(list) \in Nat
    BY <2>1, RowsOfLog
  <2>3. QED BY <2>1, <2>2
<1> HIDE DEF p, q
<1>2. p # q /\ ~Before(q, p)
  BY <1>1, PlacesOfRows
<1>3. Before(p, q)
  BY <1>1, <1>2, BeforeOrders
<1>4. /\ p.nth \in 1..Len(list) /\ q.nth \in 1..Len(list) /\ Len(list) \in Nat
      /\ p = list[p.nth] /\ q = list[q.nth]
  BY <1>1, RowsOfLog
<1>5. p.nth < q.nth => p.created <= q.created
  BY <1>4 DEF IsLog
<1>6. QED BY <1>3, <1>5 DEF Before, p, q

LogInv ==
  /\ now \in Int
  /\ IsLog(trace.mem) /\ trace.mem = trace.sql
  /\ \A i \in 1..Len(trace.mem) : trace.mem[i].created <= now
  /\ calibration.mem = calibration.sql

LEMMA LogAppended ==
  ASSUME NEW list, IsLog(list), NEW offset \in Int, NEW at \in Int,
         \A i \in 1..Len(list) : list[i].created <= at,
         NEW row, row = [msOffset |-> offset, created |-> at, nth |-> Len(list) + 1]
  PROVE  /\ IsLog(Append(list, row))
         /\ \A i \in 1..Len(Append(list, row)) : Append(list, row)[i].created <= at
<1> DEFINE n == Len(list)
           new == Append(list, row)
<1>1. list \in Seq(TraceRows) /\ n \in Nat /\ row \in TraceRows
  BY DEF IsLog, TraceRows
<1>2. /\ new \in Seq(TraceRows) /\ Len(new) = n + 1 /\ new[n + 1] = row
      /\ \A i \in 1..n : new[i] = list[i]
  BY <1>1
<1>3. row.nth = n + 1 /\ row.created = at
  OBVIOUS
<1> HIDE DEF new
<1>4. \A i \in 1..(n + 1) : i = n + 1 \/ i \in 1..n
  BY <1>1
<1>5. \A i \in 1..(n + 1) : new[i].nth = i /\ new[i].created <= at
  BY <1>2, <1>3, <1>4 DEF IsLog
<1>6. ASSUME NEW i \in 1..(n + 1), NEW j \in 1..(n + 1), i <= j
      PROVE  new[i].created <= new[j].created
  <2>1. CASE j = n + 1
    BY <1>2, <1>3, <1>5, <2>1
  <2>2. CASE j \in 1..n
    <3>1. i \in 1..n
      BY <1>1, <1>6, <2>2
    <3>2. QED BY <1>2, <1>6, <2>2, <3>1 DEF IsLog
  <2>3. QED BY <1>4, <2>1, <2>2
<1>7. IsLog(new)
  BY <1>2, <1>5, <1>6 DEF IsLog
<1>8. QED BY <1>2, <1>5, <1>7 DEF new

LEMMA LogStep == LogInv /\ [Next]_vars => LogInv'
<1> SUFFICES ASSUME LogInv, [Next]_vars PROVE LogInv'
  OBVIOUS
<1>1. CASE AppendTrace
  <2> DEFINE row(offset) == [msOffset |-> offset, created |-> now, nth |-> Len(trace.mem) + 1]
  <2>1. PICK offset \in 0..MaxTime : trace' = [mem |-> Append(trace.mem, row(offset)),
                                               sql |-> Append(trace.sql, row(offset))]
    BY <1>1 DEF AppendTrace, LogInv
  <2>2. offset \in Int /\ now \in Int /\ now' = now /\ calibration' = calibration
    BY <1>1 DEF AppendTrace, LogInv
  <2>3. PICK new : new = row(offset)
    OBVIOUS
  <2>4. /\ IsLog(Append(trace.mem, new))
        /\ \A i \in 1..Len(Append(trace.mem, new)) : Append(trace.mem, new)[i].created <= now
    BY <2>2, <2>3, LogAppended DEF LogInv
  <2>5. trace'.mem = Append(trace.mem, new) /\ trace'.sql = Append(trace.mem, new)
    BY <2>1, <2>3 DEF LogInv
  <2>6. QED BY <2>2, <2>4, <2>5 DEF LogInv
<1>2. CASE Tick
  <2>1. trace' = trace /\ calibration' = calibration /\ now' = now + 1
    BY <1>2 DEF Tick, logs
  <2>2. /\ now \in Int /\ now' \in Int
        /\ \A i \in 1..Len(trace.mem) : trace.mem[i].created \in Int
    <3>1. now \in Int /\ trace.mem \in Seq(TraceRows)
      BY DEF LogInv, IsLog
    <3>2. \A i \in 1..Len(trace.mem) : trace.mem[i] \in TraceRows
      BY <3>1
    <3>3. QED BY <2>1, <3>1, <3>2 DEF TraceRows
  <2>3. \A i \in 1..Len(trace.mem) : trace.mem[i].created <= now'
    BY <2>1, <2>2 DEF LogInv
  <2>4. QED BY <2>1, <2>2, <2>3 DEF LogInv
<1>3. CASE UpsertCalibration
  BY <1>3 DEF UpsertCalibration, Calibration, LogInv
<1>4. CASE UNCHANGED <<trace, calibration, now>>
  BY <1>4 DEF LogInv
<1>5. CASE CreateTask \/ \E r \in 1..MaxRuns : Pipeline(r)
  BY <1>4, <1>5, RunsLeaveOthers DEF Others, logs
<1>6. CASE \/ \E k \in CacheKeys : PutCacheEntry(k) \/ GetCacheEntry(k)
           \/ RecordTelemetry
           \/ \E a \in Admins : FindKey(a) \/ CreateKey(a)
           \/ UNCHANGED vars
  BY <1>4, <1>6 DEF PutCacheEntry, GetCacheEntry, RecordTelemetry, FindKey, CreateKey, logs, vars
<1>7. QED BY <1>1, <1>2, <1>3, <1>5, <1>6 DEF Next

\* At any time, after any records and whatever the process has dropped, the
\* report counts the same rows on both but the oldest of more than are kept, the
\* process lists a trace in an order the table may list it in, and both learnt
\* the same (persistence.ts:200-209, 262-282, with metrics.ts:100).
THEOREM LogsAlwaysAgree == Spec => []LogsAgree
<1>1. Init => ReportInv /\ LogInv
  <2> SUFFICES ASSUME Init PROVE ReportInv /\ LogInv
    OBVIOUS
  <2>1. /\ telemetry.mem = <<>> /\ telemetry.sql = <<>> /\ now = 0
        /\ trace.mem = <<>> /\ trace.sql = <<>> /\ calibration.mem = calibration.sql
    BY DEF Init, Both
  <2>2. IsRest(telemetry.mem, telemetry.sql, 0)
    BY <2>1 DEF IsRest
  <2>3. ReportInv
    BY <2>1, <2>2 DEF ReportInv
  <2>4. LogInv
    BY <2>1 DEF LogInv, IsLog
  <2>5. QED BY <2>3, <2>4
<1>2. ReportInv /\ LogInv /\ [Next]_vars => (ReportInv /\ LogInv)'
  BY ReportStep, LogStep
<1>3. ReportInv /\ LogInv => LogsAgree
  BY ReportsFollow, SortIsTraceOrder DEF LogsAgree, LogInv, Calibration
<1>4. QED BY <1>1, <1>2, <1>3, PTL DEF Spec

-----------------------------------------------------------------------------
\* After any calls in the order the program makes them, no reader of cached
\* answers, keys, reports, traces or calibration can tell which implementation
\* answered, but for what the three properties name (persistence.ts:39-77).
THEOREM ReadersAlwaysSeeTheSame == Spec => []ReadersSeeTheSame
<1>1. CacheAnswersAgree /\ KeysAgree /\ LogsAgree => ReadersSeeTheSame
  BY DEF ReadersSeeTheSame
<1>2. QED BY <1>1, CacheAnswersAlwaysAgree, KeysAlwaysAgree, LogsAlwaysAgree, PTL
=============================================================================
