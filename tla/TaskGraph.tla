----------------------------- MODULE TaskGraph -----------------------------
(***************************************************************************)
(* The subtask graph of core/orchestrator/dag.ts, as sets.  A graph is a   *)
(* set of node ids and a function `deps' from a node to the ids it depends *)
(* on; an id outside the set is work that was settled before this graph    *)
(* was planned.  The class computes these with loops over maps; here each  *)
(* result is stated by what it is.  DagLoops.tla has the searches, and     *)
(* DagAlgorithms.tla the loop over groups, that compute these sets.        *)
(***************************************************************************)
EXTENDS Naturals, FiniteSets

(***************************************************************************)
(* No cycle among `nodes': every non-empty part of the graph has a node    *)
(* that depends on nothing inside that part.                               *)
(***************************************************************************)
Acyclic(nodes, deps) ==
  \A part \in SUBSET nodes :
    part # {} => \E n \in part : deps[n] \cap part = {}

(***************************************************************************)
(* DAG.validate returns no error.  Ids are the keys of a set, so           *)
(* DUPLICATE_ID cannot arise here.                                         *)
(***************************************************************************)
ValidGraph(nodes, deps, known) ==
  /\ nodes # {}
  /\ \A n \in nodes : deps[n] \subseteq nodes \cup known
  /\ Acyclic(nodes, deps)

(***************************************************************************)
(* Everything downstream of id: the least set that holds each node with a  *)
(* dependency on id or on a member.                                        *)
(***************************************************************************)
Descendants(nodes, deps, id) ==
  LET closed == { part \in SUBSET nodes :
                    \A n \in nodes :
                      deps[n] \cap (part \cup {id}) # {} => n \in part }
  IN  { n \in nodes : \A part \in closed : n \in part }

(***************************************************************************)
(* The queue of Kahn's algorithm once the nodes of `emitted' are in        *)
(* earlier groups: in-degree zero, counting only dependencies inside the   *)
(* graph.                                                                  *)
(***************************************************************************)
KahnQueue(nodes, deps, emitted) ==
  { n \in nodes \ emitted : deps[n] \cap nodes \subseteq emitted }

(***************************************************************************)
(* One group of parallelGroups: the front of the queue, at most `width'    *)
(* nodes of it.  Priority orders the queue; it decides which nodes wait,   *)
(* never whether one may run, so any choice of that size is allowed.       *)
(***************************************************************************)
IsGroup(group, queue, width) ==
  /\ group \subseteq queue
  /\ group # {}
  /\ Cardinality(group) <= width
  /\ Cardinality(group) = width \/ group = queue
=============================================================================
