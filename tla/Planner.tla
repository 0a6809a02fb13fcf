------------------------------ MODULE Planner ------------------------------
(***************************************************************************)
(* Layer 8, core/orchestrator/planner.ts: three costed plans from one list *)
(* of nodes, and the choice among them.  Estimates are small numbers: a    *)
(* prompt costs PromptTokens, the material a node is handed ContextTokens, *)
(* and a model answers in `speed' units of time.                           *)
(***************************************************************************)
EXTENDS Decomposer

CONSTANTS
  PromptTokens, ContextTokens,
  MaxParallelSubtasks       \* config.execution.maxParallelSubtasks
ASSUME PlannerAssumption == /\ PromptTokens \in Nat /\ ContextTokens \in Nat
                            /\ MaxParallelSubtasks \in Nat \ {0}

Unlimited == 0   \* an absent bound of a TaskBudget

\* CONTEXT_BUDGET, in percent.
ContextBudget == [draft |-> 55, balanced |-> 100, premium |-> 100]

\* Ceiling of a percentage.
Percent(share, whole) == (share * whole + 99) \div 100

\* estimateNode, over all nodes: a prompt each, and the material for those
\* that read it themselves.
PlanTokens(nodes, strategy) ==
  LET reading == { i \in DOMAIN nodes : nodes[i].source }
  IN  Len(nodes) * PromptTokens
        + Cardinality(reading) * Percent(ContextBudget[strategy], ContextTokens)

maxGroupSize == [draft |-> 1, balanced |-> MaxParallelSubtasks,
                 premium |-> Max({MaxParallelSubtasks, 6})]

Routed(nodes, strategy) ==
  [i \in DOMAIN nodes |->
     [nodes[i] EXCEPT !.requiresEnsemble = strategy = "premium" /\ @]]

\* Each node on the strategy's best model; `speed' is that model's.
buildPlan(nodes, strategy, speed) ==
  LET dag == DagOf(nodes, speed)
  IN  [strategy |-> strategy,
       nodes    |-> Routed(nodes, strategy),
       tokens   |-> PlanTokens(nodes, strategy),
       latency  |-> calculateDAGLatency(dag, parallelGroups(dag, maxGroupSize[strategy]))]

generatePlans(nodes, speeds) == [s \in Strategies |-> buildPlan(nodes, s, speeds[s])]

-----------------------------------------------------------------------------
\* The bounds of its budget a plan breaks: budgetViolations, by strategy.
Broken(plan, budget) ==
  (IF budget.maxTokens # Unlimited /\ plan.tokens > budget.maxTokens THEN {"tokens"} ELSE {})
  \cup
  (IF budget.maxLatency # Unlimited /\ plan.latency > budget.maxLatency THEN {"latency"} ELSE {})

Feasible(plans, budget) == { s \in Strategies : Broken(plans[s], budget) = {} }

\* What is tried when the requested strategy does not fit.
fallbackOrder == [premium |-> <<"balanced", "draft">>, balanced |-> <<"draft">>, draft |-> <<>>]

\* The first of the strategies in `order' that is in a set.
FirstIn(order, some) == order[Min({ i \in DOMAIN order : order[i] \in some })]

\* Array.sort is stable: of the plans that cost least, the first generated.
Cheapest(plans) ==
  FirstIn(<<"draft", "balanced", "premium">>,
          { s \in Strategies : \A t \in Strategies : plans[s].tokens <= plans[t].tokens })

\* Slip: the last fallback is the fastest plan, not the cheapest.
ChosenOrFastest(plans, strategy, budget) ==
  LET fits == Feasible(plans, budget)
  IN  IF strategy \in fits THEN strategy
      ELSE IF ToSet(fallbackOrder[strategy]) \cap fits # {} THEN FirstIn(fallbackOrder[strategy], fits)
      ELSE CHOOSE s \in Strategies : \A t \in Strategies : plans[s].latency <= plans[t].latency

Chosen(plans, strategy, budget) ==
  LET fits == Feasible(plans, budget)
  IN  IF strategy \in fits THEN strategy
      ELSE IF ToSet(fallbackOrder[strategy]) \cap fits # {} THEN FirstIn(fallbackOrder[strategy], fits)
      ELSE Cheapest(plans)

select(plans, strategy, budget) ==
  LET chosen == Chosen(plans, strategy, budget)
  IN  [selected |-> chosen,
       downgradedFrom |-> IF chosen = strategy THEN "none" ELSE strategy,
       budgetViolations |-> [s \in Strategies |-> Broken(plans[s], budget)]]
=============================================================================
