------------------------------ MODULE TaskSync ------------------------------
(***************************************************************************)
(* The tasks of one phone: the rows of its database, the coroutines that   *)
(* write them (a submission, an open screen, the history list, the         *)
(* periodic worker) and the task rows of the server they read over HTTP.   *)
(*                                                                         *)
(* Every read of the database or the server and every write are steps of   *)
(* their own: a coroutine suspends at each, and nothing orders two of      *)
(* them. Tasks are numbered in the order of their creation.                *)
(***************************************************************************)
EXTENDS Integers, FiniteSetsExt, SequencesExt

CONSTANTS
  Tasks,
  Forgettable,   \* tasks a restart of a server without a database forgets
  MaxPerRun,     \* MAX_TASKS_PER_RUN
  MaxScreens,    \* bound: refreshes of an open task and of the history
  MaxTroubles    \* bound: tasks run again, networks lost, submissions cut, apps killed

ASSUME SyncAssumption ==
  /\ IsFiniteSet(Tasks) /\ Tasks \subseteq Nat /\ Forgettable \subseteq Tasks
  /\ MaxPerRun \in Nat \ {0}
  /\ {MaxScreens, MaxTroubles} \subseteq Nat

VARIABLES
  server,    \* what GET /tasks/:taskId answers per task
  row,       \* the phone's row under the task's server id
  local,     \* tasks with a placeholder row, local-<uuid>
  submit,    \* where the submission of each task is
  screen,    \* the refresh of the open task
  history,   \* the refresh of the history list
  worker,    \* the run of TaskSyncWorker
  online,
  used       \* bounds: refreshes and troubles so far

vars == <<server, row, local, submit, screen, history, worker, online, used>>

\* A row, and an answer of the server: its status and whether it has output.
\* "running" is every status from received to verifying.
Absent == [status |-> "absent", output |-> FALSE]
Ends == {"completed", "failed"}
Rows == [status : {"absent", "running"} \cup Ends, output : BOOLEAN]

Ended(snapshot) == snapshot.status \in Ends
Unended(snapshot) == snapshot.status = "running"

NoAnswer == [status |-> "none", output |-> FALSE]
NoTask == 0

\* One refreshTask: the task it asked for and the answer on its way.
Refresh == [task : Tasks \cup {NoTask}, answer : Rows \cup {NoAnswer}]
NoRefresh == [task |-> NoTask, answer |-> NoAnswer]

\* One syncHistory: nothing, the list on its way, the merged rows.
Sync == [at : {"idle", "listed", "merged"}, rows : [Tasks -> Rows]]
NoSync == [at |-> "idle", rows |-> [t \in Tasks |-> Absent]]

\* One doWork: the ids still to refresh and the answer for the first.
Work == [left : BoundedSeq(Tasks, MaxPerRun), answer : Rows \cup {NoAnswer}]
NoWork == [left |-> <<>>, answer |-> NoAnswer]

Init ==
  /\ server = [t \in Tasks |-> Absent]
  /\ row = [t \in Tasks |-> Absent]
  /\ local = {}
  /\ submit = [t \in Tasks |-> "none"]
  /\ screen = NoRefresh /\ history = NoSync /\ worker = NoWork
  /\ online = TRUE
  /\ used = [screens |-> 0, troubles |-> 0]

Spend(what, most) == used[what] < most /\ used' = [used EXCEPT ![what] = @ + 1]

-----------------------------------------------------------------------------
(* The server: a task runs on whether or not the phone looks. *)

EndTask(t) ==
  /\ server[t].status = "running"
  /\ \E end \in Ends :
       server' = [server EXCEPT ![t].status = end, ![t].output = @ \/ end = "completed"]
  /\ UNCHANGED <<row, local, submit, screen, history, worker, online, used>>

\* A stalled job is run again, over the row of the first run.
Rerun(t) ==
  /\ Ended(server[t]) /\ Spend("troubles", MaxTroubles)
  /\ server' = [server EXCEPT ![t].status = "running"]
  /\ UNCHANGED <<row, local, submit, screen, history, worker, online>>

\* MemoryPersistence starts empty: the id is answered with TASK_NOT_FOUND.
Forget(t) ==
  /\ t \in Forgettable /\ server[t] # Absent
  /\ server' = [server EXCEPT ![t] = Absent]
  /\ UNCHANGED <<row, local, submit, screen, history, worker, online, used>>

-----------------------------------------------------------------------------
(* submit. *)

\* The placeholder is there before the request is.
SubmitTask(t) ==
  /\ submit[t] = "none" /\ \A u \in Tasks : u < t => submit[u] # "none"
  /\ local' = local \cup {t}
  /\ submit' = [submit EXCEPT ![t] = "sent"]
  /\ UNCHANGED <<server, row, screen, history, worker, online, used>>

\* POST /tasks has listed and enqueued the task; the 202 is on its way.
Accept(t) ==
  /\ submit[t] = "sent" /\ online
  /\ server' = [server EXCEPT ![t].status = "running"]
  /\ submit' = [submit EXCEPT ![t] = "accepted"]
  /\ UNCHANGED <<row, local, screen, history, worker, online, used>>

\* Slip: the placeholder goes only with an answer.
SubmitReturnsSuccess(t) ==
  /\ \/ submit[t] = "accepted" /\ submit' = [submit EXCEPT ![t] = "placing"] /\ local' = local \ {t}
     \/ submit[t] = "sent" /\ submit' = [submit EXCEPT ![t] = "over"] /\ UNCHANGED local
  /\ UNCHANGED <<server, row, screen, history, worker, online, used>>

\* The placeholder goes whatever the call returned: the answer, a refusal
\* of the server or an IOException.
SubmitReturns(t) ==
  /\ \/ submit[t] = "accepted" /\ submit' = [submit EXCEPT ![t] = "placing"]
     \/ submit[t] = "sent" /\ submit' = [submit EXCEPT ![t] = "over"]
     \/ submit[t] = "accepted" /\ ~online /\ submit' = [submit EXCEPT ![t] = "over"]
  /\ local' = local \ {t}
  /\ UNCHANGED <<server, row, screen, history, worker, online, used>>

\* toInitialEntity, written over whatever row the id has by now.
Place(t) ==
  /\ submit[t] = "placing"
  /\ row' = [row EXCEPT ![t] = [status |-> "running", output |-> FALSE]]
  /\ submit' = [submit EXCEPT ![t] = "over"]
  /\ UNCHANGED <<server, local, screen, history, worker, online, used>>

\* The screen's scope is cancelled: apiCall rethrows, nothing is deleted.
AbandonSubmit(t) ==
  /\ submit[t] \in {"sent", "accepted", "placing"} /\ Spend("troubles", MaxTroubles)
  /\ submit' = [submit EXCEPT ![t] = "cut"]
  /\ UNCHANGED <<server, row, local, screen, history, worker, online>>

-----------------------------------------------------------------------------
(* refreshTask and syncHistory, launched by an open screen. *)

\* Slip: an insert that ignores a conflict in place of the upsert.
RefreshedIgnoring(t, answer) ==
  IF answer = Absent \/ row[t] # Absent THEN row ELSE [row EXCEPT ![t] = answer]

\* refreshTask writes a found task's snapshot; anything else is a failure.
Refreshed(t, answer) == IF answer = Absent THEN row ELSE [row EXCEPT ![t] = answer]

OpenTask(t) ==
  /\ screen = NoRefresh /\ online /\ row[t] # Absent /\ Spend("screens", MaxScreens)
  /\ screen' = [task |-> t, answer |-> server[t]]
  /\ UNCHANGED <<server, row, local, submit, history, worker, online>>

ShowTask ==
  /\ screen # NoRefresh
  /\ row' = Refreshed(screen.task, screen.answer)
  /\ screen' = NoRefresh
  /\ UNCHANGED <<server, local, submit, history, worker, online, used>>

ListTasks ==
  /\ history = NoSync /\ online /\ Spend("screens", MaxScreens)
  /\ history' = [at |-> "listed", rows |-> server]
  /\ UNCHANGED <<server, row, local, submit, screen, worker, online>>

\* withListItem for a row the phone has, toEntity for one it has not.
Merged(t) ==
  IF history.rows[t] = Absent THEN Absent
  ELSE [status |-> history.rows[t].status, output |-> row[t].output]

MergeList ==
  /\ history.at = "listed"
  /\ history' = [at |-> "merged", rows |-> [t \in Tasks |-> Merged(t)]]
  /\ UNCHANGED <<server, row, local, submit, screen, worker, online, used>>

\* upsertAll; tasks the list did not name keep their rows.
WriteList ==
  /\ history.at = "merged"
  /\ row' = [t \in Tasks |-> IF history.rows[t] = Absent THEN row[t] ELSE history.rows[t]]
  /\ history' = NoSync
  /\ UNCHANGED <<server, local, submit, screen, worker, online, used>>

\* The screen is closed, or its call fails: the refresh ends without a write.
LeaveTask ==
  /\ screen # NoRefresh
  /\ screen' = NoRefresh
  /\ UNCHANGED <<server, row, local, submit, history, worker, online, used>>

LeaveHistory ==
  /\ history # NoSync
  /\ history' = NoSync
  /\ UNCHANGED <<server, row, local, submit, screen, worker, online, used>>

-----------------------------------------------------------------------------
(* TaskSyncWorker. *)

\* getUnfinished, newest first.
Unfinished == {t \in Tasks : Unended(row[t])}

NewestFirst(tasks) == SetToSortSeq(tasks, >)

TakeFirst(seq) == SubSeq(seq, 1, Min({MaxPerRun, Len(seq)}))

\* unfinishedTasks purges every placeholder, then doWork takes its first ids.
\* WorkManager starts the worker only while there is a network.
StartWork ==
  /\ worker = NoWork /\ online
  /\ worker' = [NoWork EXCEPT !.left = TakeFirst(NewestFirst(Unfinished))]
  /\ local' = {}
  /\ UNCHANGED <<server, row, submit, screen, history, online, used>>

AskNext ==
  /\ worker.left # <<>> /\ worker.answer = NoAnswer /\ online
  /\ worker' = [worker EXCEPT !.answer = server[Head(worker.left)]]
  /\ UNCHANGED <<server, row, local, submit, screen, history, online, used>>

\* Only OFFLINE ends the run early; any other failure goes on to the next id.
TakeAnswer ==
  /\ worker.answer # NoAnswer
  /\ row' = Refreshed(Head(worker.left), worker.answer)
  /\ worker' = [left |-> Tail(worker.left), answer |-> NoAnswer]
  /\ UNCHANGED <<server, local, submit, screen, history, online, used>>

GiveUpOffline ==
  /\ worker.left # <<>> /\ ~online
  /\ worker' = NoWork
  /\ UNCHANGED <<server, row, local, submit, screen, history, online, used>>

-----------------------------------------------------------------------------
(* Network and process. *)

LoseNetwork ==
  /\ online /\ Spend("troubles", MaxTroubles)
  /\ online' = FALSE
  /\ UNCHANGED <<server, row, local, submit, screen, history, worker>>

FindNetwork ==
  /\ ~online /\ online' = TRUE
  /\ UNCHANGED <<server, row, local, submit, screen, history, worker, used>>

\* Rows are on disk; every coroutine of the app is gone.
KillApp ==
  /\ Spend("troubles", MaxTroubles)
  /\ submit' = [t \in Tasks |-> IF submit[t] \in {"sent", "accepted", "placing"} THEN "cut" ELSE submit[t]]
  /\ screen' = NoRefresh /\ history' = NoSync /\ worker' = NoWork
  /\ UNCHANGED <<server, row, local, online>>

Submission(t) == SubmitTask(t) \/ Accept(t) \/ SubmitReturns(t) \/ Place(t)
Working == StartWork \/ AskNext \/ TakeAnswer \/ GiveUpOffline

Next ==
  \/ \E t \in Tasks :
       \/ EndTask(t) \/ Rerun(t) \/ Forget(t)
       \/ Submission(t) \/ AbandonSubmit(t) \/ OpenTask(t)
  \/ ShowTask \/ LeaveTask \/ ListTasks \/ MergeList \/ WriteList \/ LeaveHistory
  \/ Working
  \/ LoseNetwork \/ FindNetwork \/ KillApp

\* Tasks end on the server, HTTP calls return, WorkManager runs the periodic
\* worker, and the network comes back. Nobody has to open a screen.
Fairness ==
  /\ \A t \in Tasks : WF_vars(EndTask(t)) /\ WF_vars(SubmitReturns(t)) /\ WF_vars(Place(t))
  /\ WF_vars(Working)
  /\ WF_vars(FindNetwork)

Spec == Init /\ [][Next]_vars
FairSpec == Spec /\ Fairness

-----------------------------------------------------------------------------
(* Properties. *)

TypeOK ==
  /\ server \in [Tasks -> Rows] /\ row \in [Tasks -> Rows]
  /\ local \subseteq Tasks
  /\ submit \in [Tasks -> {"none", "sent", "accepted", "placing", "over", "cut"}]
  /\ screen \in Refresh /\ history \in Sync /\ worker \in Work
  /\ online \in BOOLEAN
  /\ used \in [screens : 0..MaxScreens, troubles : 0..MaxTroubles]

\* A placeholder outlives its submission only when the submission was cut off
\* (TaskRepositoryImpl.kt:90-92): no answer, refusal or lost network leaves a
\* task in the history nobody can open.
PlaceholderMeansPending ==
  \A t \in local : submit[t] \in {"sent", "accepted", "cut"}

\* "without this worker the row stays on "executing" until the user happens
\* to open it again" (TaskSyncWorker.kt:19-20): with it every unended row
\* comes to an end, whatever stale answers, history lists and restarts wrote
\* over it, unless the server has forgotten the task; and the placeholder of a
\* cut submission is purged by its next run (TaskRepositoryImpl.kt:261-265).
RowsCatchUp ==
  \A t \in Tasks :
    /\ Unended(row[t]) ~> (Ended(row[t]) \/ server[t] = Absent)
    /\ (t \in local) ~> (t \notin local)

\* "so the task is never invisible while the request is in flight"
\* (TaskRepositoryImpl.kt:76-77).
VisibleInFlight ==
  \A t \in Tasks : submit[t] \in {"sent", "accepted"} => t \in local \/ row[t] # Absent

\* "re-reading it is how the user gets the answer they already paid tokens
\* for" (RecoverUnfinishedTasksUseCase.kt:11-12).
AnswersArrive ==
  \A t \in Tasks :
    (row[t] # Absent /\ server[t].output) ~> (row[t].output \/ server[t] = Absent)
=============================================================================
