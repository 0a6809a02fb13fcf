--------------------------- MODULE SubtaskLedger ---------------------------
(***************************************************************************)
(* What the scheduler promises about a plan, whatever models, keys and     *)
(* clocks do: a ledger with one verdict per subtask.                       *)
(*                                                                         *)
(*   - a subtask is run to a verdict only after every subtask it was       *)
(*     planned to depend on has one;                                       *)
(*   - success and skip are final; failure may be revised by the second    *)
(*     chance, but only while nothing downstream was decided on it;        *)
(*   - the ledger closes only with a verdict for the whole plan.           *)
(***************************************************************************)
CONSTANTS
  Nodes,    \* every subtask id
  Plans     \* the plans a task may be given

VARIABLES
  plan,     \* the plan this task was given, fixed
  verdict,  \* [Nodes -> Verdicts]
  phase     \* "open", "closed" with an outcome, or "aborted" without one

Verdicts == {"pending", "succeeded", "failed", "skipped"}

Init ==
  /\ plan \in Plans
  /\ verdict = [n \in Nodes |-> "pending"]
  /\ phase = "open"

Decided(n) == verdict[n] # "pending"

\* The dependents of n are still free to take its next verdict into account.
NobodyReliesOn(n) ==
  \A m \in plan.nodes : n \in plan.deps[m] => ~Decided(m)

MayBecome(n, v) ==
  \/ v = verdict[n]
  \/ verdict[n] = "pending" /\ v \in Verdicts
                            /\ \A d \in plan.deps[n] : Decided(d)
  \/ verdict[n] = "failed"  /\ v \in {"succeeded", "skipped"}
                            /\ NobodyReliesOn(n)

\* A batch settles: some subtasks get a verdict at once.
Decide ==
  /\ phase = "open"
  /\ verdict' \in [Nodes -> Verdicts]
  /\ \A n \in Nodes : MayBecome(n, verdict'[n])
  /\ UNCHANGED <<plan, phase>>

Close ==
  /\ phase = "open"
  /\ \A n \in plan.nodes : Decided(n)
  /\ phase' = "closed"
  /\ UNCHANGED <<plan, verdict>>

\* An infrastructure error escapes the schedule: there is no outcome.
Abort ==
  /\ phase = "open"
  /\ phase' = "aborted"
  /\ UNCHANGED <<plan, verdict>>

Next == Decide \/ Close \/ Abort

Spec == Init /\ [][Next]_<<plan, verdict, phase>>
=============================================================================
