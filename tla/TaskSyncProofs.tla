--------------------------- MODULE TaskSyncProofs ---------------------------
(* Proofs about TaskSync, for any tasks, bounds and size of a run.         *)
EXTENDS TaskSync, TLAPS

\* What the actions read of submissions and placeholders: a placeholder whose
\* submission is still to start or already over is what must not exist.
SubmitType == submit \in [Tasks -> {"none", "sent", "accepted", "placing", "over", "cut"}]

PendingInv == SubmitType /\ local \subseteq Tasks /\ PlaceholderMeansPending

USE DEF PendingInv, SubmitType, PlaceholderMeansPending

\* A submission's own steps: it writes its placeholder before it is sent and
\* takes it away with whatever the call returned.
LEMMA SubmissionKeepsPending ==
  ASSUME NEW t \in Tasks, PendingInv, Submission(t) \/ AbandonSubmit(t) PROVE PendingInv'
<1>1. CASE SubmitTask(t)
  BY <1>1 DEF SubmitTask
<1>2. CASE Accept(t)
  BY <1>2 DEF Accept
<1>3. CASE SubmitReturns(t)
  BY <1>3 DEF SubmitReturns
<1>4. CASE Place(t)
  BY <1>4 DEF Place
<1>5. CASE AbandonSubmit(t)
  BY <1>5 DEF AbandonSubmit
<1>6. QED BY <1>1, <1>2, <1>3, <1>4, <1>5 DEF Submission

\* What leaves submissions and placeholders alone.
LEMMA OthersKeepPending ==
  ASSUME PendingInv, UNCHANGED <<submit, local>> PROVE PendingInv'
OBVIOUS

\* The worker purges every placeholder; a killed app cuts what was pending.
LEMMA WorkerAndKillKeepPending ==
  ASSUME PendingInv, StartWork \/ KillApp PROVE PendingInv'
BY DEF StartWork, KillApp

\* Every step of the phone and of the server keeps the invariant.
LEMMA StepKeepsPending ==
  ASSUME PendingInv, [Next]_vars PROVE PendingInv'
<1>1. ASSUME NEW t \in Tasks, EndTask(t) \/ Rerun(t) \/ Forget(t) \/ OpenTask(t)
      PROVE  UNCHANGED <<submit, local>>
  BY <1>1 DEF EndTask, Rerun, Forget, OpenTask
<1>2. ASSUME ShowTask \/ LeaveTask \/ ListTasks \/ MergeList \/ WriteList \/ LeaveHistory
             \/ AskNext \/ TakeAnswer \/ GiveUpOffline \/ LoseNetwork \/ FindNetwork
      PROVE  UNCHANGED <<submit, local>>
  BY <1>2 DEF ShowTask, LeaveTask, ListTasks, MergeList, WriteList, LeaveHistory,
              AskNext, TakeAnswer, GiveUpOffline, LoseNetwork, FindNetwork
<1>3. CASE UNCHANGED vars
  BY <1>3, OthersKeepPending DEF vars
<1>4. CASE Next
  BY <1>1, <1>2, <1>4, OthersKeepPending, SubmissionKeepsPending, WorkerAndKillKeepPending
     DEF Next, Working
<1>5. QED BY <1>3, <1>4

\* On a phone with any number of tasks, a placeholder in the history belongs to
\* a submission that is under way or was cut off, however its call ended
\* (TaskRepositoryImpl.kt:75-94, 261-265).
THEOREM PlaceholdersPending == Spec => []PlaceholderMeansPending
<1>1. Init => PendingInv
  BY DEF Init
<1>2. PendingInv /\ [Next]_vars => PendingInv'
  BY StepKeepsPending
<1>3. PendingInv => PlaceholderMeansPending
  OBVIOUS
<1>4. QED BY <1>1, <1>2, <1>3, PTL DEF Spec
=============================================================================
