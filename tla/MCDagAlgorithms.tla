-------------------------- MODULE MCDagAlgorithms --------------------------
(***************************************************************************)
(* The pure algorithms on every small input.  DagLoops and parallelGroups  *)
(* against TaskGraph on lists of subtasks: a decomposition names           *)
(* dependencies one by one, repeated, dangling or circular ones included.  *)
(* ContextSlices on contexts that grow paragraph by paragraph.             *)
(***************************************************************************)
EXTENDS DagLoops, ContextSlices

CONSTANTS
  n1, n2, n3, n4, out,   \* ids; `out' is never in a list
  MaxDeps,               \* bound on one `dependencies' array
  MaxEdges,              \* bound on all of them together
  ParagraphLengths, Scores, ExtractLengths,
  MaxChunks              \* bound on the paragraphs of a context

AnyId == {n1, n2, n3, n4, out}

\* Every id may be named in a list of three, again and again; of a list of four
\* only its other nodes, once each; and of one with a repeated id what tells the
\* two apart.
Shapes == {[ids |-> <<n1, n2, n3>>,     ends |-> {n1, n2, n3, out}, again |-> TRUE],
           [ids |-> <<n4, n1, n2, n3>>, ends |-> {n1, n2, n3, n4},  again |-> FALSE],
           [ids |-> <<n2, n1, n2>>,     ends |-> {n1, n2, out},     again |-> TRUE]}

Priorities == {[n \in AnyId |-> 0], (n1 :> 1) @@ (n2 :> 2) @@ (n3 :> 3) @@ [n \in AnyId |-> 2]}

Latency == (n1 :> 5) @@ (n2 :> 1) @@ (n3 :> 2) @@ [n \in AnyId |-> 3]

\* Whose the first, second, ... edge is, in the order of the list.
Owners(edges, width) ==
  { owner \in [1..edges -> 1..width] :
      /\ \A k \in 2..edges : owner[k - 1] <= owner[k]
      /\ \A i \in 1..width : Cardinality({ k \in 1..edges : owner[k] = i }) <= MaxDeps }

Dependencies(ends, owner, i) ==
  SubSeq(ends, Cardinality({ k \in DOMAIN owner : owner[k] < i }) + 1,
         Cardinality({ k \in DOMAIN owner : owner[k] <= i }))

\* The lists of a shape; one more edge where each is there at most once.
ListsOf(shape, edges) ==
  LET Asks(ends, owner) ==
        shape.again \/ \A k \in 1..edges :
          /\ ends[k] # shape.ids[owner[k]]
          /\ \A l \in 1..(k - 1) : ends[k] # ends[l] \/ owner[k] # owner[l]
      node(i, priority, deps) ==
        [id |-> shape.ids[i], priority |-> priority[shape.ids[i]], dependencies |-> deps]
  IN  { [i \in DOMAIN shape.ids |-> node(i, of[1], Dependencies(of[2][1], of[2][2], i))] :
          of \in Priorities \X { pair \in [1..edges -> shape.ends] \X Owners(edges, Len(shape.ids)) :
                                Asks(pair[1], pair[2]) } }

MCNodeLists ==
  {<<>>} \cup UNION { UNION { ListsOf(shape, edges) :
    edges \in 0..(IF shape.again THEN MaxEdges ELSE MaxEdges + 1) } : shape \in Shapes }

MCSettled == {{}, {out}}

\* maxGroupSize, 0 for none.
Widths == {0, 1, 2}

VARIABLE context     \* of a subtask; it grows beside the empty list only
vars == <<loopVars, context>>

Init ==
  /\ LoopInit
  /\ context \in [chunks : {<<>>}, dense : BOOLEAN, extracted : ExtractLengths]
  /\ subtasks # <<>> \/ origin # {} => ~context.dense /\ context.extracted = 0

AddParagraph(length, score) ==
  /\ subtasks = <<>> /\ origin = {} /\ Len(context.chunks) < MaxChunks
  /\ context' = [context EXCEPT !.chunks = Append(@, [chars |-> length, score |-> score])]
  /\ UNCHANGED loopVars

Next ==
  \/ LoopNext /\ UNCHANGED context
  \/ \E length \in ParagraphLengths, score \in Scores : AddParagraph(length, score)
Spec == Init /\ [][Next]_vars

-----------------------------------------------------------------------------
\* What parallelGroups is asked of a list that is not searched yet.
Grouped == origin = {} /\ visited = 0
Dag == [DagOf(subtasks, 0) EXCEPT !.latency = [n \in Known(subtasks) |-> Latency[n]]]

\* No grouping beats the longest chain, none is slower than one at a time,
\* and a width of one is exactly that (planner.ts:193-201).
LatencyBracketed ==
  Grouped /\ ~Circular(subtasks) =>
    \A width \in Widths :
      LET ms == calculateDAGLatency(Dag, parallelGroups(Dag, width))
      IN  /\ criticalPathMs(Dag) <= ms /\ ms <= sequentialMs(Dag)
          /\ width = 1 => ms = sequentialMs(Dag)

\* parallelGroups emits what Scheduler's NextGroup may choose: each group is
\* a front of Kahn's queue of the right size, without repetitions and by
\* priority, it stops only when the queue is empty, and what the groups take
\* in time is bracketed.
GroupsAreKahn ==
  /\ LatencyBracketed
  /\ Grouped => \A width \in Widths :
       LET groups == parallelGroups(Dag, width)
           before(i) == UNION { Range(groups[j]) : j \in 1..(i - 1) }
           queue(i) == KahnQueue(Known(subtasks), DepSets(subtasks), before(i))
       IN  /\ queue(Len(groups) + 1) = {}
           /\ \A i \in DOMAIN groups :
                /\ IsGroup(Range(groups[i]), queue(i),
                           IF width = 0 THEN Cardinality(Known(subtasks)) ELSE width)
                /\ Cardinality(Range(groups[i])) = Len(groups[i])
                /\ \A n \in Range(groups[i]), m \in queue(i) \ Range(groups[i]) :
                     Dag.priority[n] >= Dag.priority[m]

\* What a subtask is given of a context it cannot have whole fits its role, has
\* the best paragraphs there is room for, and has them in full but for one
\* (context.ts:129-233, text.ts:17-25).
SliceBestEffort == context.chunks # <<>> => BestEffort(context)

\* "cuts a large context down to the role budget" (tests/unit/optimizer.test.ts:122).
WithinBudget ==
  context.chunks # <<>> =>
    countTokens(buildContextSlice(context), context.dense) <= MaxTokens
=============================================================================
