------------------------------ MODULE DagLoops ------------------------------
(***************************************************************************)
(* The two searches of core/orchestrator/dag.ts, turn by turn: findCycle,  *)
(* by which DAG.validate knows a circular list, and descendants, by which  *)
(* the scheduler knows what a failure strands.  Nothing runs between two   *)
(* of their turns; they are steps so that what they keep from turn to turn *)
(* can be stated.  What they come to is compared with TaskGraph's sets,    *)
(* which Scheduler and TaskLayers take in their place.                     *)
(***************************************************************************)
EXTENDS DagAlgorithms

CONSTANTS
  NodeLists,   \* lists of nodes the class may be given
  Origins,     \* ids whose descendants may be asked for
  Settled      \* sets of ids that may be satisfied before a list is planned

\* Lists, of nodes that list what they depend on.
ASSUME LoopsAssumption ==
  \A nodes \in NodeLists :
    /\ nodes \in Seq(Range(nodes))
    /\ \A i \in DOMAIN nodes : nodes[i].dependencies \in Seq(Range(nodes[i].dependencies))

VARIABLES
  subtasks,   \* the list of nodes
  origin,     \* {} in findCycle; {id} in descendants(id)
  colour,     \* `state', with "new" for an id it does not have
  visited,    \* how many nodes of the list findCycle has visited
  calls,      \* the ids whose `visit' has not returned, the outermost first
  looked,     \* per id, how many of its dependencies its `visit' has looked at
  path,
  cycle,      \* what `visit' returns: <<>> until a cycle is found
  stack,
  current,    \* {} before the first turn, then {id} for the id popped last
  scanned,    \* how many nodes of the list its turn has scanned
  stranded    \* `found'

circle == <<colour, visited, calls, looked, path, cycle>>
downstream == <<stack, current, scanned, stranded>>
loopVars == <<subtasks, origin, circle, downstream>>

LoopInit ==
  /\ subtasks \in NodeLists
  /\ origin \in {{}} \cup { {id} : id \in Origins }
  /\ colour = [id \in Known(subtasks) |-> "new"]
  /\ visited = 0 /\ calls = <<>> /\ path = <<>> /\ cycle = <<>>
  /\ looked = [id \in Known(subtasks) |-> 0]
  /\ stack \in [1..Cardinality(origin) -> origin]
  /\ current = {} /\ scanned = Len(subtasks) /\ stranded = {}

-----------------------------------------------------------------------------
(* findCycle.  A cycle that is found is returned by every call at once.    *)

Searching == origin = {} /\ cycle = <<>>

\* visit(id), up to its loop over the dependencies.
visit(id) ==
  \/ colour[id] = "done" /\ UNCHANGED <<colour, calls, path, cycle>>
  \/ /\ colour[id] = "visiting"
     /\ LET from == CHOOSE i \in DOMAIN path : path[i] = id
        IN  cycle' = Append(SubSeq(path, from, Len(path)), id)
     /\ UNCHANGED <<colour, calls, path>>
  \/ /\ colour[id] = "new"
     /\ colour' = [colour EXCEPT ![id] = "visiting"]
     /\ calls' = Append(calls, id) /\ path' = Append(path, id)
     /\ UNCHANGED cycle

VisitNext ==
  /\ Searching /\ calls = <<>> /\ visited < Len(subtasks)
  /\ visited' = visited + 1
  /\ visit(subtasks[visited + 1].id)
  /\ UNCHANGED <<subtasks, origin, looked, downstream>>

\* One turn of the innermost call's loop; an unknown id is passed over.
LookAtNext ==
  /\ Searching /\ calls # <<>>
  /\ LET id   == Last(calls)
         deps == NodeOf(subtasks, id).dependencies
     IN  /\ looked[id] < Len(deps)
         /\ looked' = [looked EXCEPT ![id] = @ + 1]
         /\ \/ deps[looked[id] + 1] \in Known(subtasks) /\ visit(deps[looked[id] + 1])
            \/ /\ deps[looked[id] + 1] \notin Known(subtasks)
               /\ UNCHANGED <<colour, calls, path, cycle>>
  /\ UNCHANGED <<subtasks, origin, visited, downstream>>

\* Slip: path.pop() is forgotten.
ReturnWithoutPop ==
  /\ Searching /\ calls # <<>>
  /\ looked[Last(calls)] = Len(NodeOf(subtasks, Last(calls)).dependencies)
  /\ colour' = [colour EXCEPT ![Last(calls)] = "done"]
  /\ calls' = Front(calls)
  /\ UNCHANGED <<subtasks, origin, visited, looked, path, cycle, downstream>>

\* The innermost call has looked at everything.
Return ==
  /\ Searching /\ calls # <<>>
  /\ looked[Last(calls)] = Len(NodeOf(subtasks, Last(calls)).dependencies)
  /\ colour' = [colour EXCEPT ![Last(calls)] = "done"]
  /\ calls' = Front(calls) /\ path' = Front(path)
  /\ UNCHANGED <<subtasks, origin, visited, looked, cycle, downstream>>

Searched ==
  origin = {} /\ (cycle # <<>> \/ (calls = <<>> /\ visited = Len(subtasks)))

-----------------------------------------------------------------------------
(* descendants.  Its inner loop goes over the values of the map; the list  *)
(* has each of them at least once, and again is to no effect.              *)

PopNext ==
  /\ origin # {} /\ scanned = Len(subtasks) /\ stack # <<>>
  /\ current' = {Last(stack)} /\ stack' = Front(stack)
  /\ scanned' = 0
  /\ UNCHANGED <<subtasks, origin, circle, stranded>>

\* Slip: what is found is not pushed, so only direct dependents are seen.
ScanNextShallow ==
  /\ origin # {} /\ scanned < Len(subtasks)
  /\ scanned' = scanned + 1
  /\ LET id == subtasks[scanned + 1].id
     IN  stranded' = IF current \cap DepSets(subtasks)[id] # {} THEN stranded \cup {id}
                     ELSE stranded
  /\ UNCHANGED <<subtasks, origin, circle, stack, current>>

ScanNext ==
  /\ origin # {} /\ scanned < Len(subtasks)
  /\ scanned' = scanned + 1
  /\ LET id  == subtasks[scanned + 1].id
         hit == current \cap DepSets(subtasks)[id] # {} /\ id \notin stranded
     IN  \/ hit /\ stranded' = stranded \cup {id} /\ stack' = Append(stack, id)
         \/ ~hit /\ UNCHANGED <<stranded, stack>>
  /\ UNCHANGED <<subtasks, origin, circle, current>>

Followed == origin # {} /\ scanned = Len(subtasks) /\ stack = <<>>

-----------------------------------------------------------------------------
Finished == (Searched \/ Followed) /\ UNCHANGED loopVars

LoopNext == VisitNext \/ LookAtNext \/ Return \/ PopNext \/ ScanNext \/ Finished

LoopSpec == LoopInit /\ [][LoopNext]_loopVars

-----------------------------------------------------------------------------
(* Properties.                                                             *)

\* Each id depends on the next, and only the ends repeat.
IsCycle(seq) ==
  LET n == Len(seq)
  IN  /\ n > 1 /\ seq[1] = seq[n]
      /\ \A i, j \in 1..(n - 1) : seq[i] = seq[j] => i = j
      /\ \A i \in 1..(n - 1) :
           seq[i] \in Known(subtasks) /\ seq[i + 1] \in DepSets(subtasks)[seq[i]]

\* findCycle comes back with a cycle exactly when there is one, and with a real
\* one, whatever is repeated, missing or shared below two nodes (dag.ts:70-100).
CycleFoundExactly ==
  Searched => /\ cycle # <<>> <=> Circular(subtasks)
              /\ cycle # <<>> => IsCycle(cycle)

\* validate accepts exactly the valid graphs whose ids are distinct, whatever
\* was settled before (dag.ts:23-68).
ValidateExact ==
  Searched =>
    \A known \in Settled :
      validate(subtasks, known, cycle # <<>>) = {} <=>
        /\ ValidGraph(Known(subtasks), DepSets(subtasks), known)
        /\ Cardinality(Known(subtasks)) = Len(subtasks)

\* descendants finds everything a failure strands and nothing else, on circular
\* lists too (dag.ts:165-182).
DescendantsExact ==
  Followed =>
    \A id \in origin : stranded = Descendants(Known(subtasks), DepSets(subtasks), id)
=============================================================================
