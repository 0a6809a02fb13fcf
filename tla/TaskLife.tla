------------------------------ MODULE TaskLife ------------------------------
(***************************************************************************)
(* What the service promises about the life of a task, whatever stores,    *)
(* workers and processes do.                                               *)
(*                                                                         *)
(*   - a run is begun at most MaxRuns times;                               *)
(*   - while only one was begun the row moves in one direction, from       *)
(*     received through work to an end, and an ended task stays ended;     *)
(*   - only a second run may reopen a task.                                *)
(***************************************************************************)
EXTENDS Naturals

CONSTANTS Tasks, MaxRuns

VARIABLES
  phase,   \* [Tasks -> Phases], what the row tells
  begun    \* [Tasks -> 0..MaxRuns], runs begun

Phases == {"absent", "received", "working", "ended"}

Init ==
  /\ phase = [t \in Tasks |-> "absent"]
  /\ begun = [t \in Tasks |-> 0]

List(t) ==
  /\ phase[t] = "absent"
  /\ phase' = [phase EXCEPT ![t] = "received"]
  /\ UNCHANGED begun

Begin(t) ==
  /\ phase[t] # "absent" /\ begun[t] < MaxRuns
  /\ begun' = [begun EXCEPT ![t] = @ + 1]
  /\ UNCHANGED phase

Forward(t) ==
  /\ begun[t] > 0
  /\ \/ phase[t] = "received" /\ phase' = [phase EXCEPT ![t] = "working"]
     \/ phase[t] \in {"received", "working"} /\ phase' = [phase EXCEPT ![t] = "ended"]
  /\ UNCHANGED begun

\* Rows of a task that was begun again go wherever its runs take them.
Redo(t) ==
  /\ begun[t] > 1
  /\ \E p \in Phases \ {"absent"} : phase' = [phase EXCEPT ![t] = p]
  /\ UNCHANGED begun

Next == \E t \in Tasks : List(t) \/ Begin(t) \/ Forward(t) \/ Redo(t)

Spec == Init /\ [][Next]_<<phase, begun>>
=============================================================================
