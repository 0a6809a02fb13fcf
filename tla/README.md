# A formal model of ModelMesh

ModelMesh (Neural Forge) takes a task from a phone, decomposes it into a graph of
subtasks, and executes the graph against a pool of provider keys; "retries → rotates
keys → swaps models → re-plans" (README.md:91) is its promise under failure. These
TLA+ modules model the parts of it that keep state and meet concurrency or failure,
TLC checks them on small instances, and TLAPS proves the theorems listed below for every
instance. Paths are relative to `src/apps/api/src` unless they start with `src/`.

## 1. The system

### Components

| component | state | operations | what makes it correct |
|---|---|---|---|
| Scheduler and recovery (`core/orchestrator/scheduler.ts`, `recovery.ts`) | results, failed, skipped, the active plan, re-plans used | execute: groups, batches, ensembles, second chances, re-plans | one verdict per subtask, none forgotten, none before its dependencies, at most two runs of each, an end |
| Executor (`executor.ts`) | subtask rows, tried keys and models, attempts | `invoke` (route, call, record, rotate), `executeSubTask` | bounded attempts, rows that tell the verdict |
| DAG (`dag.ts`) | none | validate, findCycle, parallelGroups, descendants, latencies | exactly what the graph-theoretic definitions say |
| Planner (`planner.ts`) | none | buildPlan, select | a plan over the budget only when nothing requested fits, and owned up to |
| Key pool (`keys/manager.ts`, `keys/rotator.ts`) | key rows in the database; health index, cooldowns and outcomes in the KV store | bootstrap, addKey, getBestKey, recordSuccess / Failure, decrementHealth, markRateLimited | barred keys rest, usable keys are found, no quota is closed early |
| Router and ranking (`core/agents/router.ts`, `core/providers/registry.ts`) | none | route, rank | mock only when it stands alone |
| Pipeline (`core/pipeline.ts`) | the task row, the trace | fifteen stages, then the failure path | a terminal status that agrees with output and events |
| Queue, worker, server (`jobs/`, `server.ts`) | jobs, result cache | enqueue, run, stall, shut down | a task is run once, and an accepted task ends |
| Trace and streaming (`core/trace.ts`, `api/routes/stream.ts`) | rooms, SSE listeners, slots, trace rows | emit, subscribe, replay, disconnect | a client lacks only what was in no table when it read; slots are counted exactly |
| Rate limiter (`api/middleware/rate-limit.ts`) | counters with expiry in the KV store | count, expire, decide | bounded bursts, no counter that lives for ever |
| Context memory, semantic cache (`core/cache/`) | lists, hot and durable entries | recall, remember; get, findSimilar, set, warm | nothing lost but to a race of its own |
| Telemetry and calibration (`core/telemetry/`) | rows, one running mean per task type and role | recordSubtask, ingest | every sample counted once |
| Understanding (`core/intelligence/classifier.ts`, `decomposer.ts`) | none | classify, decompose, finalize | a graph `DAG.validate` accepts, or a reason it does not |
| Context slicer (`core/optimizer/context.ts`) | none | buildContextSlice | within the role's budget, and nothing left out while there was room |
| Aggregation and verification (`core/aggregator`, `core/verifier`) | none | detect, resolve, merge, verify, notes | a role pipeline's answer is written from every analysis, unless it is merged without a model; every disagreement reported, every issue told |
| Provider adapters (`core/providers`) | none | HTTP calls raising `ProviderError` kinds | - |
| Persistence (`infra/persistence.ts`) | the rows, in maps or in PostgreSQL | CRUD | both implementations tell a client the same |
| KV store (`infra/store.ts`) | values, counters, expiry, sorted sets, in a map or in Redis | get, set, setex, incrby, expire, z* | both implementations agree at any time, as the program uses its keys |
| Android repository and sync worker (`src/apps/android/.../data`) | one Room table | submit, refresh, history sync, recovery of unfinished tasks | rows catch up with the server, placeholders go |
| Android timeline and socket client | list of events, connection state | fold of replayed, live and polled events | polling stops for a reason, no event twice, none missing that was written and looks like no other |
| Android UI and preprocessing, dashboard, scripts | screens | - | - |

### How they interact

A `POST /tasks` creates the row, enqueues a job (or runs inline without Redis) and answers
202. The pipeline classifies, enhances, optimizes, decomposes and plans, and gives the
chosen plan to `WorkloadScheduler.execute`. Each node of a batch calls `executeSubTask`,
which calls `invoke`; `invoke` asks the router for a model and a key, calls the provider
under `withTimeout` and records the outcome on the key. The database and the KV store
are shared by every task, every process and every request, without transactions: each
update is a read, an await and a write. Events go to the socket room at once and to the
trace table without waiting. The phone folds a replayed history, live events and polled
traces into one timeline, and keeps tasks in a local table refreshed by several actors.

### What is hard about it

- One async function drives a plan through batches, second chances and re-plans while
  the clock moves between any two steps.
- Many invocations interleave on the same key; what they know of it is stale by the time
  they write it back. The row and its index entry are never written together, and the scan
  for a key awaits the row after it has looked at the cooldown.
- Any await may reject; some rejections are swallowed, some count as a failed call, some
  end the task.
- Deadline, attempt bound and re-plan budget are looked at in different places.

`PROJECT.json` lists each hazard at its line, with the properties that cover it
or why none does.

## 2. The plan

Done, in the order of importance: `Scheduler` with `SubtaskLedger`, `KeyPool`,
`Pipeline` with `TaskLife`, `DagAlgorithms` with `DagLoops`; then what surrounds them: `TraceStream`,
`SharedStores` over `HotStore`, `Persistence`, the thinking layers (`TaskLayers` over
`Decomposer`, `Planner` and `Answering`), the phone (`TaskSync`) and `ContextSlices`.

What the invariants promise is proved (section 5), but for the groups of `parallelGroups` and the
slices. Left, in this order:

1. The four hazards no property of a run covers: what still holds where the code does not keep
   its claim (the attempt loop past the deadline, a synthesis of nothing, a re-registered key, a
   failure after the answer).
2. The per-day counters of providers, and the enhancer's and the prompt optimizer's
   decisions (when a model is asked and when its text is thrown away).
3. `parallelGroups` as a loop machine, like the searches of `DagLoops`, so that what its groups
   promise can be proved.

## 3. The modules

### Scheduler

`Scheduler` is one run of `execute`. `pc` says where the async function stands: at the
head of the group loop (`next`), examining a group, waiting on `Promise.allSettled`
(`run`), going through `justFailed` (`recover`), waiting on one second chance
(`retry`), re-planning, or over. `exec[n]` says where node n's `executeSubTask` stands,
with the attempt of its `invoke` and the run it belongs to. A node of a batch and the
clock move freely against each other; everything else follows the code's order.

| action | code |
|---|---|
| `NextGroup`, `Finish` | the `for` over `parallelGroups`, by Kahn's queue of the active plan |
| `PassOver`, `SkipUnavailable`, `SkipPastDeadline`, `SkipOptional`, `MakeRunnable` | the body of the loop over a group's nodes |
| `LaunchBatch`, `SettleBatch` | the batch and its `Promise.allSettled` |
| `BeginSubTask`, `Answer`, `LoseResponse`, `RetryCall`, `GiveUp` | `executeSubTask` with `invoke` inside it |
| `AskSecondModel`, `KeepOnlyAnswer`, `LoseAnswer` | `executeEnsemble` after its first answer |
| `RecoverSwap`, `RecoverSkip`, `RecoverFail`, `RetrySettled`, `SecondChancesOver` | the second chance, by the decision of `handleSubTaskFailure` |
| `Replan`, `Abort` | `replan`; a rejection nothing in `execute` catches |

Database writes with `.catch(() => undefined)` may be lost (`WriteRow`). `execute` passes
a plain `Error` to recovery, so its RETRY and rate-limit branches cannot be reached and
are not in the model.

`SubtaskLedger` is what a schedule promises, without groups, batches or keys: a verdict
comes after the verdicts of all planned dependencies; success and skip are final; a
failure may be revised while nobody relies on it; the ledger closes only when complete.
`LedgerSpec` is the refinement, checked by TLC and proved.

### DagAlgorithms, DagLoops and TaskGraph

`TaskGraph` defines validity, descendants and Kahn's queue over sets; `Scheduler` and
`TaskLayers` take these for what the class computes. `DagAlgorithms` has `validate` and
`parallelGroups`, the latter as a function recursive in the state its loop carries. `DagLoops`
has the two searches, turn by turn: `calls` is the stack of `visit`, with `looked` how far
each call is in its loop, `colour` and `path` are the maps and lists of `findCycle`; `stack`, `scanned`
and `stranded` are what `descendants` carries. They run alone; they are steps so that what a
search keeps to can be stated and proved.

| action | code |
|---|---|
| `VisitNext`, `visit` | the loop over the list, and `visit` up to its loop |
| `LookAtNext`, `Return` | one turn of that loop, and its end; a cycle is returned by all calls at once |
| `PopNext`, `ScanNext` | `stack.pop()`, and one node of the loop over the map |

Ids may be repeated or unknown and graphs circular: `descendants` and `validate` meet them.
`readySet` and `topologicalOrder` have no callers in the program.

### KeyPool

`KeyPool` is the pool with several `invoke` calls in flight. `known`, `active`,
`quotaUsed` and `health` are columns of the rows; `index`, `cooling` and `history` live in the KV
store; `caller[c]` is where invocation c stands, with the row it has read (`seen`). `ReadRecord`,
`WriteRecord` and `IndexRecord` are the three awaits of `recordSuccess`, `recordFailure` and
`decrementHealth`: other callers, `addKey` and restarts come in between. `standing` and
`answered` are history variables for the properties.

| action | code |
|---|---|
| `Survey`, `Rank` | `getAvailableProviders` and the ranking of models |
| `NextCandidate`, `LookAtCooldown`, `LookAtRow`, `Deactivate`, `Drop` | `route` over its candidates, and in each the loop of `getBestKey`: the ranking, `exists` of the cooldown, the row, a key that cannot be decrypted, `zrem` |
| `HitCache`, `AnswerCall`, `FailCall`, `AfterFailure` | a turn of the attempt loop of `invoke`, with the rotator's decision |
| `ReadRecord`, `WriteRecord`, `IndexRecord`, `CoolDown` | what the outcome does to the key |
| `AddKey`, `ReAddKey`, `IndexAdded`, `Restart` | registration and bootstrap |

The scan that hands out a key is every await of it: between `LookAtCooldown` and `LookAtRow`
another invocation may set the cooldown, and the key is handed out all the same. So
`BarredKeyRests` lets a cooling key go to those only that had looked before (`Past`); that it is
handed out at all is `CoolingKeyRests` of `KeyPoolClaims`. Two reads are taken as one step: the
survey of providers, whose answer is used only after these awaits, and a row together with its
outcomes. Redis orders keys of equal score by name and the map by insertion; `Rankings` allows
any order of them. A key is recorded at one use per answer; the code adds tokens.
`HealthWindow`, 100 in the code, is 1 in the run; health is in twentieths.

### Pipeline

`Pipeline` follows a task from `POST /tasks` to its verdict. `request` is where its POST
stands; `job`, `holder` and `stalls` are the BullMQ job, the slot with its lock and how
often it stalled; `row`, `subtasks` and `told` are the task row, the subtask rows and the
verdicts in the trace; `run[s].at` names the await at which the run in slot s stands. A
slot is a place for one run, in the API process or in the standalone worker.

| action | code |
|---|---|
| `CreateTask`, `RunInline`, `AddJob` | the route and `TaskQueue.enqueue` |
| `TakeJob`, `Settle` | the worker's processor, `runTask` and the standalone one |
| `Receive`, `Report`, `Decompose`, `Assign`, `StartSubtask`, `Execute`, `Aggregate`, `Complete`, `Remember`, `Tell`, `Fail` | `TaskPipeline.run`, one action per await that changes a store |
| `Drain`, `CloseQueue`, `Exit`, `Restart` | SIGTERM and `close` |
| `Stall`, `Crash` | external: BullMQ takes a job back, a process dies |

A rejected update (`Await`) may or may not have been applied. What `execute` does is in
`Scheduler`; here it has no result or some. The subtask rows of a task are open while it runs,
also those that a first run settled (`StartSubtask`), and in the end settled, or `left`: some stay
`running` because the deadline had passed when they began or their writes, which swallow their
errors, were lost. `createSubTasks` may put rows of an earlier run back to pending (the map) or
not (PostgreSQL). `EventsNeverAhead` says of them what is left to say: under a `completed` they tell
of a schedule that is over, until a re-run begins. Rows outlive the
processes, as with PostgreSQL; with `MemoryPersistence` a crash forgets the tasks and with
them the question. `mode` is chosen once: a queue if Redis is there, inline otherwise.
BullMQ re-runs a stalled job `MaxStalls` times, 1 by its default, which the code keeps.

`TaskLife` is the promise: a task is begun at most `MaxStalls + 1` times; begun once, its
row only moves forward and an ended task stays ended. `GivenUp` names the three ways in
which an accepted task is lost all the same: its verdict could not be written, the run was
killed outside the queue (inline, or after its lock was lost), or it stalled too often.

### TraceStream

One task's trace, its server and its clients. `emitted`, `flight`, `table` and `lost`
say where each event is: broadcast, on its way to the table, in it, rejected. `watcher[w]`
is a phone: its socket (`link`), the replays it still expects (`asks`: it is subscribed once by
its query and once by its first message), its polling and its timeline. `viewer[v]` is a
request to the SSE route between its read and its listener. `slots` is the counter of the
middleware, `ghosts` are the connections it still counts after the phone lost them.

| action | code |
|---|---|
| `Emit`, `Insert`, `EndTask` | `createEmitter`: broadcast, then an insert nobody waits for; the row ends before `completed` |
| `Connect`, `Refuse`, `Replay`, `Cut`, `Disconnect` | the middleware, the join, the history and `disconnect` of `stream.ts` |
| `ConnectError`, `SocketUnusable`, `PollStatus`, `PollUnknown`, `PollEvents`, `PollFails` | `traceSignals` and the polling of `TaskRepositoryImpl` |
| `ReadHistory`, `AddListener`, `CloseView` | the SSE route |

`InOrder` lists the rows of the table as a client receives them. `excused[c]` is a history
variable: what was in no table when the history of client c was read. `Order` is the order in which
the events are emitted, by position in the table's order of offsets: a second run of a task counts
from zero again. `Identity` is what the phone tells events apart by, their name, offset and
subtask: events that agree in all three - two `aggregating` of one millisecond, or a second run's
`task_received` - are one to it. `MissingWasUnwritten` therefore speaks of identities on a phone; that
no event is lost this way is `EveryWrittenEventShown` of `TraceStreamClaims`, which fails. `known` is
whether the server has the task: polling ends for good when it has not. Phones and viewers are
different clients (`StreamAssumption`).

Client libraries (when a socket reconnects, when the server notices) are external.

### SharedStores and HotStore

`HotStore` is the KV store: the map of `MemoryStore`, which sweeps an entry when it meets it
expired (`live`), next to Redis, which forgets by itself; every call is made on both. `set` keeps
a key's time to live in the map and drops it in Redis. The program sets only keys without one
(the outcomes of a provider key, `ReadHealth` and `PushHealth`), so in `SharedStores` both hold the
same (`StoresAgree`); under `AnyCaller`, who calls everything on every key, they do not
(`IdenticalSemantics`, by hand with `HotStoreAnyCaller`). The clock counts whole seconds, so
how parts of one are rounded is left out.
`SharedStores` is what requests and task runs do to them between two awaits: `at[c]` names
the next await, `held[c]` what was read before it. `Count`, `Cap`, `Decide` are
`checkRateLimit`; `Lookup`, `LookupDurable`, `Warm`, `FindSimilar`, `Put`, `PutHot` the cache
around a subtask, run twice by an ensemble; `ReadSample`, `Upsert` are `ingest`;
`ReadMemory`, `Remember` the session's memory. `Reject` is a rejected call at any of them.
Requests and runs never touch the same key, so a behaviour has one kind of them only.

### Persistence

The two implementations get the same calls, in the order in which the program makes them; a
method touches one table, so a behaviour drives one area of tables. A row in PostgreSQL
has its enums in the table's form, JSON columns that a null does not overwrite, and an upsert that
leaves columns alone; a row of the map is replaced or spread. `unwritten[n]` is a history
variable: the columns nobody wrote since `createSubTasks` met the row of n; `overlap` is another,
two registrations that looked for a key before either created it.

Telemetry is recorded in the order of time, so the rows since a time are the last ones of a
list, and a report takes the last of those (`ForReport`). `TraceOf` is the process's stable sort,
each row at the place given by how many come before it; PostgreSQL, which sorts by offset and
creation, may break ties as it likes (`IsTraceOrder`).

### TaskLayers: Decomposer, Planner, Answering

`TaskLayers` is one pass of `pipeline.run` through classification, decomposition, planning,
execution (any non-empty part of the plan has a result), conflicts, aggregation and
verification; an action is the code between two awaits of a model, and models answer
anything of a set. The three modules it extends are the pure functions of its stages.
A text is what it says on one question (`affirms`, `denies`, `prose`); prices and tokens are small
numbers in the order of the code's; ids are cleaned as `slug` does, so two raw ids
may become one. The sections appended to a merged answer - its conflicts and the critic's review - are
read by the output optimizer with the rest: unless the answer is JSON it deletes a section that
uses the words of one above it. Which (`copies`) is chosen freely, since it depends on wording.
What the code collects in lists it reads as sets - analyses, conflicts, issues -
is a set here, by the places of the nodes where their order matters; `verification` holds the
one verification made, or nothing. A `filter` is `AtPlaces`, what a list has at some of its places, in
order; `idMap` is the keys of the map after each entry.

### ContextSlices

`buildContextSlice` on a context given by the lengths and scores of its paragraphs. Lengths
are in characters, tokens by `countTokens` of prose or of code; the head, the walk by
score, the joints and marks put back between chunks, and the final cut at a paragraph break are
the code's. `MCDagAlgorithms` grows contexts paragraph by paragraph.

### TaskSync

The phone's rows under their server ids (`row`) and placeholders (`local`), and the coroutines
that write them: `submit[t]` (`SubmitTask`, `Accept`, `SubmitReturns`, `Place`), `screen`
(`OpenTask`, `ShowTask`), `history` (`ListTasks`, `MergeList`, `WriteList`) and `worker`
(`StartWork`, `AskNext`, `TakeAnswer`, `GiveUpOffline`). Every read and write of the database or
the server is a step of its own. The server runs tasks on, runs them again, or forgets them
when it has no database and restarts; the network goes and the app is killed.

### Slips

An operator commented "Slip" is not part of the specification. It is a definition of
the module with one plausible bug; used in place of the real one it makes TLC find a
counterexample to one property, listed under `mutants`.

## 4. What is checked

| run | bounds | shows |
|---|---|---|
| `scheduler` | six plan shapes of up to four nodes (as the decomposer builds them: draft, premium with ensemble and optional critique, chains, flat plans narrower than their width, a synthesis that is not the sink), two attempts, one infrastructure fault | five invariants, `TwoRunsAtMost`, `LedgerSpec`, `Terminates` (560,410 states) |
| `dag` | lists of three subtasks with up to three dependency entries of any kind (repeated, dangling, circular, own id), of four with up to four different edges between different nodes, and with a repeated id; widths none, 1, 2; contexts of up to four paragraphs of prose or code | searches and groups compute their definitions; slices are within their budget in prose, and leave out only what had no room (358,744 states) |
| `keypool` | two invocations, one that retries and one that does not; two keys, one of them registered during the run and one with a quota of one use; mock behind; two registrations, restarts, undecryptable keys or store faults | `QuotaNeverOverstated`, `ActiveKeysIndexed`, `BarredKeyRests`, `InvocationsEnd` (549,775 states) |
| `pipeline` | one task with a session (tasks share only slots and the result cache), two slots in the API process and one in the standalone worker, one re-run after a stall, two crashes, shutdowns or lost locks and two rejected store operations in any order | `NoneForgotten`, `EventsNeverAhead`, `RerunOnlyForStall`, `LifeSpec`, `AcceptedTasksEnd` (677,478 states) |
| `stream` | a phone and an SSE viewer on four events of a task that is run twice, two of which look alike, and which the server may not know; two slots, two cuts, two errors before polling, one lost insert | `MissingWasUnwritten`, `SlotsCounted`, `PollingStopsForAReason` (1,090,538 states) |
| `shared` | four requests against a limit of one in a window of two ticks; two runs, one an ensemble, on two models and three prompts; memory of two entries; one outcome of a provider key; one rejected call | `StoresAgree`, `BurstBounded`, `CounterExpires`, `ConversationKept`, `SamplesCounted` (670,040 states) |
| `persistence` | two runs of a task of two nodes; two cache keys of which one is scanned, put three times; nine telemetry rows where four are kept; three trace rows; two registrations of one key | `ReadersSeeTheSame` (`CacheAnswersAgree`, `KeysAgree`, `LogsAgree`), `SummariesAgree`, `SubtasksDifferOnlyWhereUnwritten` (964,998 states) |
| `layers` | six task types at four complexities, three strategies, four budgets, models that are as quick as cheap ones or slower; model decompositions of two and three subtasks with repeated, unknown and circular ids; verification on | `OnlyCyclesAndTwinsRejected`, `OverBudgetIsOwnedUp`, `EveryAnalysisGiven`, `DisagreementReported`, `IssuesReachReader` (2,059,897 states) |
| `tasksync` | two tasks, one of which the server may forget; one per run of the worker; one refresh of each screen and one trouble | `PlaceholderMeansPending`, `RowsCatchUp` (146,947 states) |

Why these bounds are enough: a second chance, a second opinion and both re-plans all
happen in four nodes (a flat plan of three failing analyses with a width of one has more
failures than re-plans); two attempts separate "retry" from "give up"; one fault shows each
unprotected await. In the pool, two callers suffice for every lost or stale update of one
key, two keys for rotation, two troubles for a loss followed by a restart. In the
pipeline, three slots let a run that lost its lock meet its re-run in the same or in the other
process; the second trouble kills either of them, and the second fault hits the catch block of
a run that the first one failed. Phones share nothing but slots, and two slots of which cuts
take both refuse a single phone; four events separate the history, what is in flight and what
is live, with a second run's `task_received` that looks like the first one's, and the first run's last
event behind it in the table. Four requests fill a window twice at a limit of one; two runs are what it takes to
lose an update. A second run over the rows of the first is all `MaxStalls` allows. One
unended task that fills a run of the worker and one behind it show starvation.

The type invariants of `Scheduler` and `Pipeline` are proved (section 5). `TypeOK` of the other
modules is not in the runs; adding it to a configuration's INVARIANTS checks it.

### Where the code does not do what is said of it

Three runs state what the repository says and TLC finds otherwise:

| run | said | found |
|---|---|---|
| `pipeline_unwritten` | server.ts:66 "The pipeline has already persisted the failure and emitted `failed`" | the first update stands outside the `try` |
| `plan_over_budget` | planner.ts:64 a plan over the budget "is not eligible" | a slow draft is chosen although the balanced plan fits |
| `persistence_contract` | persistence.ts:5 "implements the identical contract" | the second `createSubTasks` keeps columns in PostgreSQL and resets them in the map |

More configurations do the same and are run by hand
(`tlc -config <cfg> <MC module>`; those that state several claims with `-workers 1 -continue`, and, where
two of them are temporal, each with the other left out):

| configuration | said | found |
|---|---|---|
| `SchedulerClaims` | executor.ts:72 "after which no new provider call should start"; recovery.ts:90 "there is nothing to synthesize"; README.md:39 "what it actually spent" | the attempt loop looks at the deadline once; the re-planned synthesis runs on nothing; the loser of an ensemble is in no report |
| `KeyPoolClaims` | manager.ts:112 "Highest-health key that is not rate-limited, quota-exhausted, or excluded" | a re-registered key is removed from the index; a cooldown set while the scan awaits the row is not seen, and the cooling key is handed out |
| `KeyPoolQuota` | keys.test.ts:114 "stops handing out a key that has exhausted its quota" | concurrent answers lose a use; needs three callers and a quota of two |
| `PipelineAnswered` | pipeline.ts:40 "Only a failure that leaves nothing to answer with fails the task" | a store error after the answer was written fails it |
| `TraceStreamClaims` | stream.ts:76 "then live events continue in order"; TaskRepositoryImpl.kt:193 "Nothing more will arrive for a finished task."; ExecutionTimeline.kt:78-79 "an event can legitimately arrive twice" | late inserts and replays land behind newer events; the last poll may precede the last insert; an event that looks like an earlier one is dropped as its copy |
| `SharedStoresEnsemble` | scheduler.ts:212 "run the node on two different models" | both runs can be answered by the semantic cache, with an older answer of one and the same model |
| `HotStoreAnyCaller` (module `HotStore`) | store.ts:5 "An in-process implementation with identical semantics" | `set` keeps a time to live in the map and drops it in Redis; the program never does both on one key |
| `TaskLayersClaims` | decomposer.ts:22 "repaired rather than trusted"; synthesizer.ts:22-26, the answer is merged from what came back; synthesizer.ts:237 "a reason to be less confident"; output.ts:6-8 "without touching evidence" | circles and repeated ids fail the task; the added synthesis of a model's decomposition sees the roots only; open conflicts cost no more than settled ones; the optimizer may delete the list of conflicts |
| `TaskSyncClaims` | TaskRepositoryImpl.kt:76 "never invisible while the request is in flight"; RecoverUnfinishedTasksUseCase.kt:11 "how the user gets the answer they already paid tokens for"; TaskSyncWorker.kt:19, the worker ends every stuck row | the worker purges placeholders of live submissions; a row that ended without its output is not read again; a newer task the server forgot takes the older one's place in every run |
| `DagAlgorithmsDense` | a slice keeps to its role's budget | in code, whose tokens are shorter than the four characters a cut assumes, it exceeds it by up to a quarter |

`RowsTellVerdict` leaves out two cases the code gets wrong, and says so: a node rejected at the
deadline keeps a `running` row (executor.ts:320-323), and an ensemble row holds
whatever its second run wrote.

### Fairness

`Scheduler` assumes weak fairness of `Progress`: every await settles (provider calls run
under `withTimeout`, stores answer or reject) and the event loop resumes what settled.
Nothing is assumed of the clock, so `Terminates` does not lean on the deadline.
`KeyPool` assumes weak fairness of each invocation's own steps, for the same reason.
`Pipeline` assumes weak fairness of each run's stages, of a worker taking a job, of BullMQ
finding a job whose holder is gone, and of shutdown and restart going on; nothing is
assumed of clients. `TaskSync` assumes that tasks end on the server (which `Pipeline` shows
under its own assumptions), that submissions settle, that WorkManager keeps running its
periodic worker, and that the network comes back; nobody has to open a screen. The other
modules make no promise that needs time to pass.

`Scheduler`, `TaskLayers` and the searches of `DagLoops` are checked for deadlock. Elsewhere everything may be over (all
invocations returned, all tasks ended, a list full), which is no fault.

## 5. What is proved

`SchedulerProofs` proves, for every set of nodes, every set of valid plans, every attempt
bound and every number of faults, from `NodesAssumption`, `BoundsAssumption` and
`PlansAssumption` (the pipeline validates each decomposition before planning):

| theorem | |
|---|---|
| `TypeCorrect` | `[]TypeOK`, with it the bounds on attempts and re-plans |
| `VerdictsStayExclusive` | `[]VerdictsExclusive` |
| `NodesAccountedFor` | `[]EveryNodeAccountedFor` |
| `OrderRespected` | `[]DependenciesDecidedFirst` |
| `CancellationsJustified` | `[]CancelledOnlyByUpstream` |
| `ImplementsLedger` | `LedgerSpec`: every step is a ledger step or a stutter |
| `NeverAThirdRun` | `TwoRunsAtMost` |
| `RowsAlwaysTellVerdict` | `[]RowsTellVerdict` |

None of these is inductive alone. `Parts` is what they rest on: *Coverage* (whatever
left the active plan is decided, whatever was batched is decided or in hand), *Stages*
(what each stage of the loop leaves empty), *Reached* (a node in hand has all planned
dependencies decided), *Unrelied* (nothing downstream of a failure that may still be revised
has been reached) and *Forgotten* (a re-plan drops only dependencies on final failures).
`NextGroup` needs `Forgotten` with Kahn's queue to give `Reached`; the end of the loop
needs acyclicity of the active graph to give `EveryNodeAccountedFor` - an undecided
remainder would have a node with no dependency in it, which is in the queue. `Turning`
numbers the runs of a node for `TwoRunsAtMost`. `RowsTell` says what the row of a node holds
once it is decided and, before that, once its run has settled in the batch; `OneRun`, that outside
an ensemble this is the node's first run, so that the answer written is the answer kept.

`PipelineProofs` proves, from `PipelineAssumption` alone, for any number of tasks and slots,
any concurrency and any number of crashes, shutdowns, stalls and faults:

| theorem | |
|---|---|
| `TypesHold` | `[]TypeOK`, with it the limits on stalls and on the result cache |
| `OnlyStallsRerun` | `[]RerunOnlyForStall` |
| `ImplementsLife` | `LifeSpec`: every step is a step of `TaskLife` or a stutter |
| `TraceNeverAhead` | `[]EventsNeverAhead` |
| `NoTaskForgotten` | `[]NoneForgotten` |

`IInv` ties the queue to the runs: *JobsCounted* (a job to be taken was taken back once for
every run begun), *RowsPrecedeWork* (a row exists before anything is queued, and is
`received` until a run begins), *RunsBegun* (two runs of a task were begun separately) and
*RowFollowsRun* (a task's only run finds its row not ended while it works). The last is what
makes a stage a step forward for `TaskLife`; `Effect` says once what all stages share. `StoresAhead` adds what is
stored when a run has come to a stage; answers and plans are never taken back, and subtask rows are
only by a second run, so it cannot break what the first one told of the task, and a task whose
trace says `completed` has no schedule going on but by a re-run (`QuietOnceTold`). `Owed` strengthens
`NoneForgotten`: a run past its last write, and the job it holds, do not count as having the
task in hand, since they will let go of it without another write; `HoldersActive` ensures
that a killed run leaves an active job for BullMQ to find.

`KeyPoolProofs` proves, from `KeysAssumption` and `KeyBoundsAssumption`, for any number of keys,
invocations, registrations, restarts and faults:

| theorem | |
|---|---|
| `BarredKeysRest` | `BarredKeyRests` |
| `ActiveKeysStayIndexed` | `[]ActiveKeysIndexed` |
| `QuotasNeverOverstated` | `[]QuotaNeverOverstated` |

`KeysInv` relates a key's standing to its row (a rejected key is not active, a fresh one
is) and to the index; `CallersInv` says what an invocation between its read and its writes
still knows: of a fresh key, that it is active, however stale the row it read. Only that makes
`IndexRecord` safe. `LookAtRow` hands a key out by its row alone, which no rejected or exhausted
key passes; a cooling one passes it only under an invocation that is past the cooldown already. `QuotaInv` counts the answers not recorded yet (`Pending`) with the recorded
use, and bounds by the same count what each invocation has read and will write back.

`SharedStoresProofs` proves, from `SharedAssumption` and HotStore's own assumption:

| theorem | |
|---|---|
| `StoresAlwaysAgree` | `[]StoresAgree` |
| `CounterAlwaysExpires` | `[]CounterExpires` |
| `SamplesAlwaysCounted` | `[]SamplesCounted` |
| `ConversationAlwaysKept` | `[]ConversationKept` |
| `BurstsAlwaysBounded` | `[]BurstBounded` |

`IInv` is `StoreInv` (each call keeps the live part of the map equal to Redis, whatever the map
has swept, and a key that is `set` has no time to live) with `CallerInv` (which await a caller can stand at with what in hand).
`SampleInv` says of a caller about to write the calibration row that what it read is the row,
or that the row was raced; `MemoryInv` says the same of a session's list, whose stored form and
every form in hand are ends of what was written. `BurstBounded` speaks of the past: `PassersInv`
bounds who passed since the counter now alive was begun by the counter itself, who passed in
the window before by the limit, and every span by twice the limit; a request counted but not yet
decided is a passer already.

`TraceStreamProofs` proves, from `StreamAssumption`, for any number of phones, viewers, events
and connections:

| theorem | |
|---|---|
| `SlotsAlwaysCounted` | `[]SlotsCounted` |
| `PollingAlwaysStopsForAReason` | `PollingStopsForAReason` |
| `MissingWasAlwaysUnwritten` | `[]MissingWasUnwritten` |

`SlotsInv` counts sockets held and ghosts, so that `Released` never meets a count
of zero, and remembers that a poll that has ended saw the task over. `LackInv` adds to the property
the types of what it speaks of - a timeline is a sequence, and only emitted events are stored or
on their way - so that a step that reads a history is seen to excuse exactly what is missing. `InOrderLists` shows that rows put in
order are those rows, which takes a bijection between the rows and their places.

`PersistenceProofs` proves, from `PersistenceAssumption` and `NullAssumption` (null is no row and no
value of a column), for any number of runs, nodes, cache keys, registrations and rows:

| theorem | |
|---|---|
| `SummariesAlwaysAgree` | `[]SummariesAgree` |
| `SubtasksAlwaysAgreeWhereWritten` | `[]SubtasksDifferOnlyWhereUnwritten` |
| `CacheAnswersAlwaysAgree` | `[]CacheAnswersAgree` |
| `KeysAlwaysAgree` | `[]KeysAgree` |
| `LogsAlwaysAgree` | `[]LogsAgree` |
| `ReadersAlwaysSeeTheSame` | `[]ReadersSeeTheSame`, the three above together |

`TaskInv` and `SubTaskInv` relate the two rows column by column; `UpdatedSame` and
`PatchedSame` show that a patch keeps the relation, and no action has to be looked at
further. `CacheInv` relates the entries: what the map has dropped has expired in the table, and
an entry put once has one age in both. `KeyInv` says that until
two registrations look at once whoever is about to create a key is alone and there is none. `ReportInv` says that the list of the process is the table's without its first rows, and
that any are gone only when more were recorded than it keeps; a report takes no more rows
from what is left than from all (an injection of their places), and they are the last ones.
`LogInv` says that trace rows are numbered in the order of their creation, so that the stable
sort, whose places are a bijection, lists them in an order PostgreSQL may give.

`TaskLayersProofs` proves, from `LayersAssumption` (replies are lists of entries that list their
dependencies, the numbers of questions are numbers) and the assumptions of `Decomposer` and `Planner`:

| theorem | |
|---|---|
| `IssuesAlwaysReachReader` | `[]IssuesReachReader` |
| `OverBudgetAlwaysOwnedUp` | `[]OverBudgetIsOwnedUp` |
| `EveryAnalysisAlwaysGiven` | `[]EveryAnalysisGiven` |
| `DisagreementAlwaysReported` | `[]DisagreementReported` |
| `OnlyCyclesAndTwinsAlwaysRejected` | `[]OnlyCyclesAndTwinsRejected` |

`LayoutInv` says how nodes are laid out from planning on: a list of records, in which, unless a
model laid it out, every synthesis depends on every analysis (`Gathers`), for every pipeline
and width. `EveryAnalysisGiven` rests on it; planning and execution must be shown to keep it. `DisagreementInv` follows a disagreement from the results through the rules, the
model's own list, the merge of both and the resolutions to the conflicts reported, and the list of
them until the optimizer reads it; `ENABLE_VERIFICATION` may have either value.
`RejectInv` rests on two facts about lists. The code's own layouts are `Ordered`: ids differ and a
node depends on earlier ones only, so the first node of any part depends on none of it, and there
is no circle. `Normalized` says that a model's decomposition is never empty, that what its
nodes depend on are nodes, and that it has a synthesis when it has several nodes.
`LeastOfSome` (a set of numbers that is not empty has a least one) takes the place of
inductions on lists.

The same module proves of `DagLoops`, from `LoopsAssumption` (lists of nodes that list what they
depend on), for lists of any length with any ids:

| theorem | |
|---|---|
| `FindsCyclesExactly` | `[]CycleFoundExactly` |
| `ValidatesExactly` | `[]ValidateExact` |
| `FindsDescendantsExactly` | `[]DescendantsExact` |

`SearchInv` is what a depth-first search with colours keeps to: the path is what is being
visited, each id once, each depending on the next; what is done depends on done nodes only
and is acyclic; what a call has looked at is done or next on the path. A dependency on a node of
the path closes a circle; when all is done the list is acyclic. `FollowInv` says that what
`descendants` found is inside every closed set and that whoever depends on an id no longer on
the stack has been found, or is still to be scanned in this turn. The theorems say what the
searches have found when they end; that they end is not stated (every turn raises `visited`,
`looked` or `scanned`, or takes an id off a stack to which each comes once).

`TaskSyncProofs` proves `PlaceholdersPending` (`[]PlaceholderMeansPending`) for any set of tasks; with
the types of submissions the property is inductive.

Model-checked only:

- liveness (`Terminates`, `InvocationsEnd`, `AcceptedTasksEnd`, `RowsCatchUp`), which the provers
  do not do;
- `GroupsAreKahn` and `SliceBestEffort`: each says what a function recursive in its data computes
  for every input, which needs an induction the provers cannot instantiate; `parallelGroups`
  also sorts and concatenates, which they do not expand.

## 6. What is not modelled

By choice: prompts, summaries, titles and wording; the enhancer's and profiler's text; model
scores (an order of candidates instead); HTTP, authentication and validation of requests; the
adapters of providers (the kinds of errors they raise are the environment of `KeyPool`);
the database engine and Redis themselves (what the code relies on is in `Persistence` and
`HotStore`); the dashboard, the phone's screens and OCR, and scripts. What the plan has left
is in section 2. `PROJECT.json` gives the reason per component.
