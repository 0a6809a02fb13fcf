---------------------------- MODULE Persistence ----------------------------
(***************************************************************************)
(* The two implementations of the persistence contract, maps in the        *)
(* process (mem) and PostgreSQL through Prisma (sql), given the same calls *)
(* in the order the program makes them: the runs of a task - a second one  *)
(* when its job was stalled - the answer cache, the logs of telemetry and  *)
(* of the trace, calibration and the registration of keys. A method        *)
(* touches one table, so a behaviour drives the tables of one such area.   *)
(***************************************************************************)
EXTENDS Integers, FiniteSets, SequencesExt

CONSTANTS
  Nodes,          \* of the task's plan
  MaxRuns,        \* runs of the task, one more than its job may stall
  Admins,         \* who register the same key
  MaxTelemetry,   \* rows the process keeps, and the report asks for: 20 000
  Dropped,        \* rows it drops when there are more: 5 000
  Period,         \* what the report looks back on: a number of days
  CacheKeys,      \* of one role
  ScanLimit,      \* SEMANTIC_SCAN_LIMIT
  CacheTtl,
  MaxTime,        \* bound: the clock
  MaxPuts,        \* bound: times one cache entry is put, trace rows appended
  MaxRecords,     \* bound: telemetry rows recorded
  Null

ASSUME PersistenceAssumption ==
  /\ {MaxRuns, MaxTelemetry, Dropped, Period, ScanLimit, CacheTtl} \subseteq Nat \ {0}
  /\ {MaxTime, MaxPuts, MaxRecords} \subseteq Nat
  /\ Dropped <= MaxTelemetry
  /\ IsFiniteSet(CacheKeys)

VARIABLES
  area,       \* what is driven
  now,
  run,        \* per run: how far it is
  doing,      \* per run and node: whether the executor runs it
  task,       \* the Task row, in mem and in sql
  subtask,    \* per node the SubTask row, in mem and in sql
  unwritten,  \* history: columns nobody wrote since createSubTasks met the row
  cache,      \* the SemanticCache rows of one role
  telemetry,  \* the TelemetryRecord rows, by when they were recorded
  trace,      \* the TraceEvent rows of a task
  calibration,\* sampleCount of the CalibrationModel row of a (task type, role)
  adding,     \* per admin: where its addKey is
  keys,       \* ProviderKey rows with the hash of the key
  overlap     \* history: two addKeys looked before either created

vars == <<area, now, run, doing, task, subtask, unwritten, cache, telemetry, trace,
          calibration, adding, keys, overlap>>
taskVars == <<run, doing, task, subtask, unwritten>>
logs == <<telemetry, trace, calibration>>
keyVars == <<adding, keys, overlap>>

Areas == {"task", "cache", "telemetry", "trace", "calibration", "keys"}
Stages == {"queued", "begun", "decomposed", "planned", "executing", "ended"}

Both(value) == [mem |-> value, sql |-> value]

Init ==
  /\ area \in Areas /\ now = 0
  /\ run = [r \in 1..MaxRuns |-> "queued"]
  /\ doing = [r \in 1..MaxRuns |-> [n \in Nodes |-> FALSE]]
  /\ task = Both(Null)
  /\ subtask = Both([n \in Nodes |-> Null])
  /\ unwritten = [n \in Nodes |-> {}]
  /\ cache = Both([k \in CacheKeys |-> Null])
  /\ telemetry = Both(<<>>) /\ trace = Both(<<>>) /\ calibration = Both(Null)
  /\ adding = [a \in Admins |-> "look"] /\ keys = Both(0) /\ overlap = FALSE

-----------------------------------------------------------------------------
(* Rows and patches. A patch is a function on the columns it sets.         *)

\* { ...existing, ...patch }
Patched(row, patch) ==
  [column \in DOMAIN row |-> IF column \in DOMAIN patch THEN patch[column] ELSE row[column]]

\* The enums of the table and of the program.
upper(status) == <<"enum", status>>
lower(stored) == stored[2]
Stored(patch) ==
  [column \in DOMAIN patch |-> IF column = "status" THEN upper(patch[column]) ELSE patch[column]]

JsonColumns == {"plan", "verification"}

\* The values of the columns, null included; a row is written by one run.
Or(value) == value \cup {Null}
TaskRows(status) ==
  [status : status, plan : Or(1..MaxRuns), output : Or(1..MaxRuns), format : Or({"markdown"}),
   verification : Or(1..MaxRuns), error : Or({"failed"})]
SubTaskRows(status) ==
  [status : status, provider : Or({"assigned", "used"}), prompt : Or(1..MaxRuns),
   output : Or(1..MaxRuns), error : Or({"failed", "skipped"})]
CacheRows == [response : Nat, expires : Nat, created : Nat]

TaskStatus == {"received", "planning", "completed", "failed"}
SubTaskStatus == {"pending", "running", "completed", "failed", "skipped"}
Uppers(status) == {upper(s) : s \in status}

\* null is no value of a column and no row.
ASSUME NullAssumption ==
  /\ Null \notin Nat
  /\ Null \notin TaskRows(TaskStatus) \cup TaskRows(Uppers(TaskStatus))
  /\ Null \notin SubTaskRows(SubTaskStatus) \cup SubTaskRows(Uppers(SubTaskStatus))
  /\ Null \notin CacheRows

\* Slip: JSON columns are never written.
taskWriteScalars(patch) == Stored([column \in DOMAIN patch \ JsonColumns |-> patch[column]])

\* A JSON column is not written when the patch says null.
taskWrite(patch) ==
  Stored([column \in {c \in DOMAIN patch : c \in JsonColumns => patch[c] # Null} |-> patch[column]])

\* createTask. The schema has a default for outputFormat.
NewTask ==
  [mem |-> [status |-> "received", plan |-> Null, output |-> Null, format |-> Null,
            verification |-> Null, error |-> Null],
   sql |-> [status |-> upper("received"), plan |-> Null, output |-> Null, format |-> "markdown",
            verification |-> Null, error |-> Null]]

\* updateTask.
UpdateTask(patch) ==
  task' = [mem |-> Patched(task.mem, patch), sql |-> Patched(task.sql, taskWrite(patch))]

NewSubTask(provider) ==
  [status |-> "pending", provider |-> provider, prompt |-> Null, output |-> Null, error |-> Null]

\* Slip: a row that is found is left as it is.
UpsertedUntouched(row, provider) == IF row = Null THEN Stored(NewSubTask(provider)) ELSE row

\* createSubTasks: the map replaces the row; the upsert updates the columns of
\* the decomposition in a row it finds, and leaves the others.
Upserted(row, provider) ==
  IF row = Null THEN Stored(NewSubTask(provider)) ELSE Patched(row, [prompt |-> Null])

CreateSubTasks(provider) ==
  /\ subtask' = [mem |-> [n \in Nodes |-> NewSubTask(provider)],
                 sql |-> [n \in Nodes |-> Upserted(subtask.sql[n], provider)]]
  /\ unwritten' = [n \in Nodes |->
       IF subtask.sql[n] = Null THEN {} ELSE {"status", "provider", "output", "error"}]

\* updateSubTask.
UpdateSubTask(n, patch) ==
  /\ subtask' = [mem |-> [subtask.mem EXCEPT ![n] = Patched(@, patch)],
                 sql |-> [subtask.sql EXCEPT ![n] = Patched(@, Stored(patch))]]
  /\ unwritten' = [unwritten EXCEPT ![n] = @ \ DOMAIN patch]

-----------------------------------------------------------------------------
(* POST /tasks and the calls of TaskPipeline.run, SubTaskExecutor and      *)
(* WorkloadScheduler, in their order within a run.                         *)

Others == UNCHANGED <<area, now, cache, logs, keyVars>>

CreateTask ==
  /\ area = "task" /\ task.mem = Null
  /\ task' = NewTask
  /\ UNCHANGED <<run, doing, subtask, unwritten>> /\ Others

Reaches(r, from, to) == run[r] = from /\ run' = [run EXCEPT ![r] = to]

Begin(r) ==
  /\ task.mem # Null /\ Reaches(r, "queued", "begun")
  /\ r > 1 => run[r - 1] # "queued"
  /\ UpdateTask([status |-> "received"])
  /\ UNCHANGED <<doing, subtask, unwritten>> /\ Others

\* The rows of the decomposition, without a provider.
Decompose(r) ==
  /\ Reaches(r, "begun", "decomposed")
  /\ CreateSubTasks(Null)
  /\ UNCHANGED <<doing, task>> /\ Others

\* The plan is stored, and then the rows again, with the assigned providers.
Plan(r) ==
  /\ Reaches(r, "decomposed", "planned")
  /\ UpdateTask([status |-> "planning", plan |-> r])
  /\ UNCHANGED <<doing, subtask, unwritten>> /\ Others

Assign(r) ==
  /\ Reaches(r, "planned", "executing")
  /\ CreateSubTasks("assigned")
  /\ UNCHANGED <<doing, task>> /\ Others

Execute(r, n, does, patch) ==
  /\ run[r] = "executing" /\ subtask.mem[n] # Null
  /\ doing' = [doing EXCEPT ![r][n] = does]
  /\ UpdateSubTask(n, patch)
  /\ UNCHANGED <<run, task>> /\ Others

RunNode(r, n) ==
  \/ ~doing[r][n] /\ Execute(r, n, TRUE, [status |-> "running", prompt |-> r])
  \/ doing[r][n] /\ Execute(r, n, FALSE, [status |-> "completed", provider |-> "used", output |-> r])
  \/ doing[r][n] /\ Execute(r, n, FALSE, [status |-> "failed", error |-> "failed"])
  \/ ~doing[r][n] /\ Execute(r, n, FALSE, [status |-> "skipped", error |-> "skipped"])

\* An answer has a verification only when one was due.
Complete(r) ==
  /\ Reaches(r, "executing", "ended")
  /\ \A n \in Nodes : ~doing[r][n]
  /\ \E verification \in {Null, r} :
       UpdateTask([status |-> "completed", output |-> r, format |-> "markdown",
                   verification |-> verification])
  /\ UNCHANGED <<doing, subtask, unwritten>> /\ Others

Fail(r) ==
  /\ run[r] \notin {"queued", "ended"} /\ run' = [run EXCEPT ![r] = "ended"]
  /\ UpdateTask([status |-> "failed", error |-> "failed"])
  /\ UNCHANGED <<doing, subtask, unwritten>> /\ Others

-----------------------------------------------------------------------------
(* The answer cache: the answers of a key are numbered as they are put.    *)

Tick ==
  /\ area \in {"cache", "telemetry", "trace"} /\ now < MaxTime /\ now' = now + 1
  /\ UNCHANGED <<area, taskVars, cache, logs, keyVars>>

Live(entry) == entry # Null /\ entry.expires > now

Puts(k) == IF cache.sql[k] = Null THEN 0 ELSE cache.sql[k].response

\* Slip: the upsert renews the answer and leaves its expiry.
PutCacheEntryOnce(k) ==
  /\ area = "cache" /\ Puts(k) < MaxPuts
  /\ LET entry == [response |-> Puts(k) + 1, expires |-> now + CacheTtl, created |-> now]
     IN  cache' = [mem |-> [cache.mem EXCEPT ![k] = entry],
                   sql |-> [cache.sql EXCEPT ![k] =
                     IF @ = Null THEN entry ELSE [@ EXCEPT !.response = entry.response]]]
  /\ UNCHANGED <<area, now, taskVars, logs, keyVars>>

\* putCacheEntry: the map replaces the entry, the upsert two of its columns.
PutCacheEntry(k) ==
  /\ area = "cache" /\ Puts(k) < MaxPuts
  /\ LET entry == [response |-> Puts(k) + 1, expires |-> now + CacheTtl, created |-> now]
     IN  cache' = [mem |-> [cache.mem EXCEPT ![k] = entry],
                   sql |-> [cache.sql EXCEPT ![k] =
                     IF @ = Null THEN entry
                     ELSE [@ EXCEPT !.response = entry.response, !.expires = entry.expires]]]
  /\ UNCHANGED <<area, now, taskVars, logs, keyVars>>

\* getCacheEntry: the map drops the entry it finds expired.
GetCacheEntry(k) ==
  /\ area = "cache" /\ cache.mem[k] # Null
  /\ cache' = [cache EXCEPT !.mem[k] = IF Live(@) THEN @ ELSE Null]
  /\ UNCHANGED <<area, now, taskVars, logs, keyVars>>

-----------------------------------------------------------------------------
(* Rows that are only added, the calibration row and the registration of a *)
(* key.                                                                    *)

\* Slip: the newest rows are dropped.
KeptHead(list) == IF Len(list) > MaxTelemetry THEN SubSeq(list, 1, Len(list) - Dropped) ELSE list

Kept(list) == IF Len(list) > MaxTelemetry THEN SubSeq(list, Dropped + 1, Len(list)) ELSE list

RecordTelemetry ==
  /\ area = "telemetry" /\ Len(telemetry.sql) < MaxRecords
  /\ telemetry' = [mem |-> Kept(Append(telemetry.mem, now)), sql |-> Append(telemetry.sql, now)]
  /\ UNCHANGED <<area, now, taskVars, cache, trace, calibration, keyVars>>

\* appendTrace, in the order the inserts arrive; the offset is the emitter's.
AppendTrace ==
  /\ area = "trace" /\ Len(trace.sql) < MaxPuts
  /\ \E offset \in 0..MaxTime :
       LET row == [msOffset |-> offset, created |-> now, nth |-> Len(trace.sql) + 1]
       IN  trace' = [mem |-> Append(trace.mem, row), sql |-> Append(trace.sql, row)]
  /\ UNCHANGED <<area, now, taskVars, cache, telemetry, calibration, keyVars>>

\* getCalibration: a neutral row where there is none.
Calibration(store) == IF calibration[store] = Null THEN 0 ELSE calibration[store]

\* upsertCalibration after getCalibration, one sample at a time.
UpsertCalibration ==
  /\ area = "calibration" /\ Calibration("sql") < MaxRecords
  /\ calibration' = [mem |-> Calibration("mem") + 1, sql |-> Calibration("sql") + 1]
  /\ UNCHANGED <<area, now, taskVars, cache, telemetry, trace, keyVars>>

\* Slip: a key that is found is created all the same.
FindKeyInVain(a) ==
  /\ area = "keys" /\ adding[a] = "look"
  /\ adding' = [adding EXCEPT ![a] = "create"]
  /\ overlap' = (overlap \/ (keys.sql = 0 /\ \E b \in Admins \ {a} : adding[b] = "create"))
  /\ UNCHANGED <<area, now, taskVars, cache, logs, keys>>

\* addKey: findProviderKeyByHash, and createProviderKey when nothing is found.
FindKey(a) ==
  /\ area = "keys" /\ adding[a] = "look"
  /\ adding' = [adding EXCEPT ![a] = IF keys.sql = 0 THEN "create" ELSE "done"]
  /\ overlap' = (overlap \/ (keys.sql = 0 /\ \E b \in Admins \ {a} : adding[b] = "create"))
  /\ UNCHANGED <<area, now, taskVars, cache, logs, keys>>

\* keyHash is unique in the table; the map does not look.
CreateKey(a) ==
  /\ adding[a] = "create" /\ adding' = [adding EXCEPT ![a] = "done"]
  /\ keys' = [mem |-> keys.mem + 1, sql |-> 1]
  /\ UNCHANGED <<area, now, taskVars, cache, logs, overlap>>

-----------------------------------------------------------------------------
Pipeline(r) ==
  \/ Begin(r) \/ Decompose(r) \/ Plan(r) \/ Assign(r) \/ Complete(r) \/ Fail(r)
  \/ \E n \in Nodes : RunNode(r, n)

Next ==
  \/ CreateTask \/ \E r \in 1..MaxRuns : Pipeline(r)
  \/ Tick
  \/ \E k \in CacheKeys : PutCacheEntry(k) \/ GetCacheEntry(k)
  \/ RecordTelemetry \/ AppendTrace \/ UpsertCalibration
  \/ \E a \in Admins : FindKey(a) \/ CreateKey(a)

Spec == Init /\ [][Next]_vars

-----------------------------------------------------------------------------
(* GET /tasks/:taskId.                                                     *)

\* What a read returns: getTask and listSubTasks; toTask, toSubTask.
Read(store, row) ==
  IF row = Null \/ store = "mem" THEN row ELSE [row EXCEPT !.status = lower(@)]

Task(store) == Read(store, task[store])
SubTask(store, n) == Read(store, subtask[store][n])

Result(row) ==
  IF row.output = Null THEN Null
  ELSE [output |-> row.output, format |-> IF row.format = Null THEN "markdown" ELSE row.format]

Summary(row) ==
  [status |-> row.status, error |-> row.error, result |-> Result(row), plan |-> row.plan]

Listed(row) ==
  IF row = Null THEN Null
  ELSE [status |-> row.status, provider |-> row.provider, error |-> row.error]

View(store) ==
  [summary |-> Summary(Task(store)), verification |-> Task(store).verification,
   subtasks |-> [n \in Nodes |-> Listed(SubTask(store, n))]]

-----------------------------------------------------------------------------
(* The lists the program asks for.                                         *)

Listable(store) == {k \in CacheKeys : Live(cache[store][k])}

\* listCacheEntriesByRole: the newest, as many as are scanned. Of equally old
\* ones either implementation may give any.
ByRole(store) ==
  {found \in SUBSET Listable(store) :
     /\ Cardinality(found) = Min({ScanLimit, Cardinality(Listable(store))})
     /\ \A k \in found, other \in Listable(store) \ found :
          cache[store][k].created >= cache[store][other].created}

\* listTelemetry for a report: the newest of the rows since then, which are the
\* last ones of the list.
ForReport(store) ==
  LET rows  == telemetry[store]
      since == { i \in DOMAIN rows : rows[i] >= now - Period }
      taken == Min({MaxTelemetry, Cardinality(since)})
  IN  SubSeq(rows, Len(rows) - taken + 1, Len(rows))

\* listTrace in the process: a stable sort by offset, the i-th row with i - 1
\* rows before it.
Before(r, q) == \/ r.msOffset < q.msOffset
                \/ r.msOffset = q.msOffset /\ r.nth < q.nth
TraceOf(list) ==
  [i \in DOMAIN list |->
     CHOOSE row \in ToSet(list) : Cardinality({ r \in ToSet(list) : Before(r, row) }) = i - 1]

\* The orders PostgreSQL may list the trace in: by offset, then by creation.
IsTraceOrder(list) ==
  \A i \in 1..(Len(list) - 1) :
    \/ list[i].msOffset < list[i + 1].msOffset
    \/ list[i].msOffset = list[i + 1].msOffset /\ list[i].created <= list[i + 1].created

-----------------------------------------------------------------------------
(* Properties. *)

TypeOK ==
  /\ area \in Areas /\ now \in 0..MaxTime
  /\ run \in [1..MaxRuns -> Stages]
  /\ doing \in [1..MaxRuns -> [Nodes -> BOOLEAN]]
  /\ task.mem \in Or(TaskRows(TaskStatus)) /\ task.sql \in Or(TaskRows(Uppers(TaskStatus)))
  /\ subtask.mem \in [Nodes -> Or(SubTaskRows(SubTaskStatus))]
  /\ subtask.sql \in [Nodes -> Or(SubTaskRows(Uppers(SubTaskStatus)))]
  /\ \A n \in Nodes : subtask.mem[n] = Null <=> subtask.sql[n] = Null
  /\ Len(telemetry.mem) <= MaxTelemetry /\ Len(telemetry.sql) <= MaxRecords
  /\ {Len(trace.mem), Len(trace.sql)} \subseteq 0..MaxPuts
  /\ adding \in [Admins -> {"look", "create", "done"}]
  /\ keys.sql \in 0..1 /\ keys.mem \in 0..Cardinality(Admins)

\* The rows of a task, written by one run or by two at once, tell a client the
\* same on both implementations (persistence.ts:136-140 and 447-487, with the
\* reader at tasks.ts:196-237). The one exception is named: a null verification
\* erases an earlier run's in the map only.
SummariesAgree ==
  task.mem # Null =>
    /\ Summary(Task("mem")) = Summary(Task("sql"))
    /\ Task("mem").verification \in {Null, Task("sql").verification}

\* A re-created SubTask row keeps in PostgreSQL what it had and starts over in
\* the map (persistence.ts:153-190 and 503-545): the rows differ in no column
\* that was written since.
SubtasksDifferOnlyWhereUnwritten ==
  \A n \in Nodes : subtask.mem[n] # Null =>
    \A column \in DOMAIN subtask.mem[n] \ unwritten[n] :
      SubTask("mem", n)[column] = SubTask("sql", n)[column]

\* The map drops expired entries when it meets them and replaces live ones, the
\* table keeps both (persistence.ts:295-316, 664-687): a cached answer and its
\* expiry are the same in both, and so are the candidates a similar prompt is
\* compared with, unless there are too many and one of them was put again.
CacheAnswersAgree ==
  /\ \A k \in CacheKeys :
       /\ Live(cache.mem[k]) <=> Live(cache.sql[k])
       /\ Live(cache.mem[k]) =>
            /\ cache.mem[k].response = cache.sql[k].response
            /\ cache.mem[k].expires = cache.sql[k].expires
  /\ \/ Cardinality(Listable("sql")) > ScanLimit /\ \E k \in Listable("sql") : Puts(k) > 1
     \/ ByRole("mem") = ByRole("sql")

\* The report counts the same rows on both (metrics.ts:100), but for the oldest
\* of more than the process keeps (persistence.ts:269).
ReportsAgree ==
  /\ \E n \in 0..Len(ForReport("sql")) :
       ForReport("mem") = SubSeq(ForReport("sql"), n + 1, Len(ForReport("sql")))
  /\ ForReport("mem") # ForReport("sql") => Len(telemetry.sql) > MaxTelemetry

\* addKey looks before it creates (manager.ts:81-88): without a unique hash the
\* map holds a key twice only if two registrations overlapped.
KeysAgree == keys.mem = keys.sql \/ overlap

\* What is only added: the report, the order a trace is listed in and what was
\* learnt are the same on both (persistence.ts:200-209, 262-296).
LogsAgree ==
  /\ ReportsAgree
  /\ IsTraceOrder(TraceOf(trace.mem))
  /\ Calibration("mem") = Calibration("sql")

\* Where the program must not be able to tell which implementation it has
\* (persistence.ts:39-77): cached answers, keys and logs.
ReadersSeeTheSame == CacheAnswersAgree /\ KeysAgree /\ LogsAgree

\* "implements the identical contract" (persistence.ts:5): the same calls, the
\* same answer to a client.
SameContract == task.mem # Null => View("mem") = View("sql")
=============================================================================
