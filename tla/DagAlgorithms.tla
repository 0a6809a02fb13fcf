--------------------------- MODULE DagAlgorithms ---------------------------
(***************************************************************************)
(* core/orchestrator/dag.ts on a list of nodes, each with its id and the   *)
(* ids it depends on; these may repeat an id or name one outside the list. *)
(* What the class finds in a graph by searching it, a cycle or what is     *)
(* downstream of a node, is stated here by what it is: DagLoops.tla has    *)
(* the searches.  parallelGroups is here loop by loop, with the planner's  *)
(* latency sum over its groups.                                            *)
(***************************************************************************)
EXTENDS TaskGraph, SequencesExt

Ids(nodes) == [i \in DOMAIN nodes |-> nodes[i].id]
Known(nodes) == Range(Ids(nodes))

\* new Map(...) keeps the last node of an id.
NodeOf(nodes, id) ==
  nodes[CHOOSE i \in DOMAIN nodes :
          nodes[i].id = id /\ \A j \in DOMAIN nodes : nodes[j].id = id => j <= i]

DepSets(nodes) == [id \in Known(nodes) |-> Range(NodeOf(nodes, id).dependencies)]

\* What findCycle finds out.
Circular(nodes) == ~Acyclic(Known(nodes), DepSets(nodes))

Repeated(nodes) == \E i, j \in DOMAIN nodes : i # j /\ nodes[i].id = nodes[j].id

\* Slip: ids settled before this graph count as unknown.
MissingEvenIfKnown(nodes, known) ==
  \E i \in DOMAIN nodes : ~(Range(nodes[i].dependencies) \subseteq Known(nodes))

Missing(nodes, known) ==
  \E i \in DOMAIN nodes : ~(Range(nodes[i].dependencies) \subseteq Known(nodes) \cup known)

\* DAG.validate, as the set of error codes it returns; `circular' is whether
\* findCycle came back with a cycle.
validate(nodes, known, circular) ==
  IF nodes = <<>> THEN {"EMPTY"}
  ELSE    (IF Repeated(nodes) THEN {"DUPLICATE_ID"} ELSE {})
     \cup (IF Missing(nodes, known) THEN {"MISSING_DEPENDENCY"} ELSE {})
     \cup (IF circular THEN {"CYCLE"} ELSE {})

-----------------------------------------------------------------------------
(* A dag is what the constructor keeps of the list: [nodes |-> the keys of *)
(* the map, dependencies |-> [id -> Seq(id)], priority |-> [id -> Nat],    *)
(* latency |-> [id -> Nat]].                                               *)

\* The keys, in the order of their first occurrence.
Distinct(seq) ==
  FoldLeft(LAMBDA kept, x : IF x \in Range(kept) THEN kept ELSE Append(kept, x),
           <<>>, seq)

DagOf(nodes, latency) ==
  [nodes |-> Distinct(Ids(nodes)),
   dependencies |-> [id \in Known(nodes) |-> NodeOf(nodes, id).dependencies],
   priority |-> [id \in Known(nodes) |-> NodeOf(nodes, id).priority],
   latency |-> [id \in Known(nodes) |-> latency]]

Keys(dag) == Range(dag.nodes)
Edges(dag, n) == SelectSeq(dag.dependencies[n], LAMBDA d : d \in Keys(dag))

-----------------------------------------------------------------------------
(* parallelGroups: Kahn's algorithm, cut into batches.                     *)

\* Array.sort by descending priority, which is stable.
ByPriority(dag, seq) ==
  LET top == Max({0} \cup { dag.priority[n] : n \in Range(seq) })
  IN  FlattenSeq([i \in 1..(top + 1) |->
                    SelectSeq(seq, LAMBDA n : dag.priority[n] = top + 1 - i)])

\* The dependents of a batch, in the order their last decrement comes.
dependents(dag, batch) ==
  FlattenSeq([i \in DOMAIN batch |->
                SelectSeq(dag.nodes, LAMBDA n :
                  LET mentioned == { j \in DOMAIN batch :
                                       batch[j] \in Range(dag.dependencies[n]) }
                  IN  i \in mentioned /\ i = Max(mentioned))])

\* Slip: a repeated dependency is counted once.
InDegreesDistinct(dag) == [n \in Keys(dag) |-> Cardinality(Range(Edges(dag, n)))]

InDegrees(dag) == [n \in Keys(dag) |-> Len(Edges(dag, n))]

\* The in-degrees once a batch is emitted: one less for every mention.
Lowered(dag, batch, inDegree) ==
  [n \in Keys(dag) |->
     inDegree[n] - Cardinality({ i \in DOMAIN dag.dependencies[n] :
                                   dag.dependencies[n][i] \in Range(batch) })]

\* The groups from one turn of the loop on; `rest' gives those of the turns
\* after it, and width 0 stands for no maxGroupSize.
Batches(dag, rest, queue, inDegree, emitted, width) ==
  IF queue = <<>> THEN <<>>
  ELSE LET cut      == IF width > 0 /\ width < Len(queue) THEN width ELSE Len(queue)
           batch    == SubSeq(queue, 1, cut)
           deferred == SubSeq(queue, cut + 1, Len(queue))
           done     == emitted \cup Range(batch)
           lowered  == Lowered(dag, batch, inDegree)
           free     == SelectSeq(dependents(dag, batch), LAMBDA n :
                                   lowered[n] = 0 /\ n \notin done)
       IN  <<batch>> \o rest[ByPriority(dag, Distinct(deferred \o free)), lowered, done]

parallelGroups(dag, width) ==
  LET batches[queue \in Seq(Keys(dag)), degrees \in [Keys(dag) -> Int],
              emitted \in SUBSET Keys(dag)] ==
        Batches(dag, batches, queue, degrees, emitted, width)
      inDegree == InDegrees(dag)
  IN  batches[ByPriority(dag, SelectSeq(dag.nodes, LAMBDA n : inDegree[n] = 0)), inDegree, {}]

-----------------------------------------------------------------------------
(* Latencies.                                                              *)

Slowest(values) == FoldLeft(LAMBDA most, v : IF v > most THEN v ELSE most, 0, values)
Total(values) == FoldLeft(LAMBDA sum, v : sum + v, 0, values)

\* `cost' of a node, from those of its dependencies; the memo changes what it
\* costs, not what it is.
criticalPathMs(dag) ==
  LET cost[id \in Keys(dag)] ==
        dag.latency[id] + Slowest([i \in DOMAIN dag.dependencies[id] |->
          LET d == dag.dependencies[id][i] IN IF d \in Keys(dag) THEN cost[d] ELSE 0])
  IN  Slowest([i \in DOMAIN dag.nodes |-> cost[dag.nodes[i]]])

sequentialMs(dag) ==
  Total([i \in DOMAIN dag.nodes |-> dag.latency[dag.nodes[i]]])

\* planner.ts: a group costs its slowest member, the plan the sum of groups.
calculateDAGLatency(dag, groups) ==
  Total([i \in DOMAIN groups |->
           Slowest([j \in DOMAIN groups[i] |-> dag.latency[groups[i][j]]])])
=============================================================================
