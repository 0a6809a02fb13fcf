----------------------------- MODULE TaskLayers -----------------------------
(***************************************************************************)
(* One pass of pipeline.run through the layers that think: classification, *)
(* decomposition, planning, then, once the scheduler has brought results,  *)
(* aggregation and verification.  Each action is the code between two      *)
(* awaits of a model; what the models say is chosen freely.  Rows, events, *)
(* faults and re-runs of the same pass are in Pipeline, the scheduler in   *)
(* Scheduler: of its outcome this module takes that it is any non-empty    *)
(* part of the plan, since a re-plan strips failed dependencies.           *)
(*                                                                         *)
(* A local of run() that is not read again is set back to `Unset', which   *)
(* keeps the states few.                                                   *)
(***************************************************************************)
EXTENDS Planner, Answering

CONSTANTS
  RuleClasses,   \* classifications the rules may come to
  CloudTypes,    \* task types the cloud classifier may answer
  RawReplies,    \* decompositions an LLM may answer, <<>> when it has none
  QuestionCounts,\* how many questions extractQuestions may find
  Speeds,        \* how long each strategy's model may take for a node
  Budgets,       \* budgets of requests
  Unset

\* A reply is a list of entries with lists of dependencies, and questions are
\* counted.
ASSUME LayersAssumption ==
  /\ \A raw \in RawReplies :
       /\ raw \in Seq(Range(raw))
       /\ \A i \in DOMAIN raw : raw[i].dependencies \in Seq(Range(raw[i].dependencies))
  /\ QuestionCounts \subseteq Nat

VARIABLES
  stage,            \* where run() is
  strategy,         \* as requested; the selected plan's from planning on
  budget,
  classification,
  decomposition,    \* nodes and decomposedBy
  rejected,         \* errors of DAG.validate
  plans,            \* the three candidates and the selection
  results,          \* outcome.results
  conflicts,        \* as detected, then as resolved
  aggregated,       \* the answer before verification
  verification,     \* the critic's reply and what became of it, if it was asked
  notes             \* what the notes under the answer list

vars == <<stage, strategy, budget, classification, decomposition, rejected, plans, results,
          conflicts, aggregated, verification, notes>>

-----------------------------------------------------------------------------
\* classifier.ts, estimateSubtasks.
estimateSubtasks(taskType, complexity) ==
  IF complexity = "simple" THEN 1
  ELSE IF HasPipeline(taskType)
  THEN Len(ROLE_PIPELINES[taskType].parallel) + Len(ROLE_PIPELINES[taskType].then)
  ELSE IF complexity = "very_complex" THEN 4 ELSE 2

Estimated(class) ==
  [taskType |-> class.taskType, complexity |-> class.complexity,
   requiresVision |-> class.requiresVision, requiresCode |-> class.requiresCode,
   audio |-> class.audio,
   estimatedSubtasks |-> estimateSubtasks(class.taskType, class.complexity)]

Init ==
  /\ \E class \in RuleClasses :
       classification = [rules |-> Estimated(class), sure |-> class.sure]
  /\ strategy \in Strategies
  /\ budget \in Budgets
  /\ stage = "classify"
  /\ decomposition = Unset /\ rejected = {} /\ plans = Unset /\ results = Unset
  /\ conflicts = {} /\ aggregated = Unset /\ verification = {} /\ notes = {}

\* classifyByRules was enough, or the cloud classifier is not asked or fails.
ClassifyByRules ==
  /\ stage = "classify"
  /\ classification' = classification.rules
  /\ stage' = "decompose"
  /\ UNCHANGED <<strategy, budget, decomposition, rejected, plans, results, conflicts,
                 aggregated, verification, notes>>

\* The cloud's type and complexity replace the rules'; the number of subtasks
\* it may leave out stays the one of the rules' type and complexity.
ClassifyInCloud ==
  /\ stage = "classify" /\ ~classification.sure /\ strategy # "draft"
  /\ \E taskType \in CloudTypes, complexity \in Complexities, vision, code \in BOOLEAN,
        counted \in {classification.rules.estimatedSubtasks, 3} :
       classification' = [classification.rules EXCEPT
         !.taskType = taskType, !.complexity = complexity,
         !.requiresVision = @ \/ vision, !.requiresCode = @ \/ code,
         !.estimatedSubtasks = Max({1, Min({8, counted})})]
  /\ stage' = "decompose"
  /\ UNCHANGED <<strategy, budget, decomposition, rejected, plans, results, conflicts,
                 aggregated, verification, notes>>

\* Layers 5 to 7 and DAG.validate; the type only feeds estimates from here on.
Decompose ==
  /\ stage = "decompose"
  /\ \E questions \in QuestionCounts, raw \in RawReplies :
       LET skeleton == buildSkeleton(classification, strategy, questions, raw)
           nodes    == finalize(skeleton.nodes)
           errors   == validate(nodes, {}, Circular(nodes))
       IN  /\ decomposition' = [nodes |-> nodes, by |-> skeleton.by]
           /\ rejected' = errors
           /\ stage' = IF errors = {} THEN "plan" ELSE "failed"
  /\ classification' = Unset
  /\ UNCHANGED <<strategy, budget, plans, results, conflicts, aggregated, verification, notes>>

\* Layer 8: generatePlans and select.
Plan ==
  /\ stage = "plan"
  /\ \E speeds \in Speeds :
       LET candidates == generatePlans(decomposition.nodes, speeds)
           selection  == select(candidates, strategy, budget)
       IN  plans' = [candidates |-> [s \in Strategies |->
                                       [tokens |-> candidates[s].tokens, latency |-> candidates[s].latency]],
                     requested |-> strategy, selection |-> selection]
  /\ strategy' = plans'.selection.selected
  /\ decomposition' = [decomposition EXCEPT !.nodes = Routed(@, strategy')]
  /\ stage' = "planned"
  /\ UNCHANGED <<budget, classification, rejected, results, conflicts, aggregated,
                 verification, notes>>

\* The plan is taken over by the scheduler.
StartExecution ==
  /\ stage = "planned"
  /\ stage' = "execute"
  /\ plans' = Unset /\ budget' = Unset
  /\ UNCHANGED <<strategy, classification, decomposition, rejected, results, conflicts,
                 aggregated, verification, notes>>

Outcomes(ids, contents) == UNION { [done -> contents] : done \in SUBSET ids }

\* Layers 9 to 12; no result at all fails the task.
Execute ==
  /\ stage = "execute"
  /\ LET nodes   == ToSet(decomposition.nodes)
         merging == { n.id : n \in { m \in nodes : m.role \in Merging } }
     IN  \E found \in Outcomes({ n.id : n \in nodes } \ merging, Stands),
            written \in Outcomes(merging, Texts) :
           /\ results' = found @@ written
           /\ stage' = IF DOMAIN results' = {} THEN "failed" ELSE "aggregate"
  /\ UNCHANGED <<strategy, budget, classification, decomposition, rejected, plans, conflicts,
                 aggregated, verification, notes>>

AnalysesDone == Analyses(decomposition.nodes, results)

\* What the conflict call may come back with: nothing, or one disagreement,
\* with its claims in either order.
ConflictReplies ==
  {[failed |-> TRUE, conflicts |-> {}], [failed |-> FALSE, conflicts |-> {}]} \cup
  { [failed |-> FALSE, conflicts |-> {Conflict(pair[1], pair[2])}] :
      pair \in { two \in Range(AnalysesDone) \X Range(AnalysesDone) :
                   {results[two[1]], results[two[2]]} = {"affirms", "denies"} } }

\* ConflictDetector.detect; a result alone needs no merge.
DetectConflicts ==
  /\ stage = "aggregate"
  /\ \E reply \in ConflictReplies :
       conflicts' = IF NeedsMerge(decomposition.nodes, results)
                    THEN detect(AnalysesDone, results, strategy, reply) ELSE {}
  /\ stage' = "resolve"
  /\ UNCHANGED <<strategy, budget, classification, decomposition, rejected, plans, results,
                 aggregated, verification, notes>>

\* resolve, one call per conflict, the merge, its sections, and the output
\* optimizer over all of it, which may delete sections; none of a JSON answer.
Aggregate ==
  /\ stage = "resolve"
  /\ \E verdicts \in [conflicts -> Resolutions], llm, defect \in BOOLEAN,
        copies \in SUBSET Appended(decomposition.nodes, results, conflicts) :
       LET settled == Resolved(conflicts, verdicts)
           body    == Body(decomposition.nodes, results, llm)
           alone   == ~NeedsMerge(decomposition.nodes, results)
       IN  \E lost \in {{}} \cup { {id} : id \in IF defect \/ alone THEN {} ELSE body.given } :
             /\ conflicts' = settled
             /\ aggregated' =
                  [by         |-> body.by,
                   given      |-> body.given,
                   reflected  |-> body.given \ lost,
                   defect     |-> defect,
                   sections   |-> Appended(decomposition.nodes, results, conflicts) \ copies,
                   copies     |-> copies,
                   duplicates |-> IF alone THEN 0
                                  ELSE DuplicatesRemoved(AnalysesDone, results) + Cardinality(copies),
                   confidence |-> IF alone THEN OverallConfidence(results)
                                  ELSE Adjusted(OverallConfidence(results), settled)]
  /\ stage' = "verify"
  /\ UNCHANGED <<strategy, budget, classification, decomposition, rejected, plans, results,
                 verification, notes>>

Found == Inconsistencies(AnalysesDone, aggregated.reflected, aggregated.defect)

NeedsVerification ==
  shouldVerify(aggregated.confidence, conflicts, strategy) \/ Found # {}

\* Layer 14, where it is warranted.
Verify ==
  /\ stage = "verify" /\ NeedsVerification
  /\ \E reply \in Replies :
       /\ verification' = {[reply |-> reply, verdict |-> WithStructure(verify(reply), Found)]}
       /\ notes' = Notes(WithStructure(verify(reply), Found))
  /\ stage' = "done"
  /\ UNCHANGED <<strategy, budget, classification, decomposition, rejected, plans, results,
                 conflicts, aggregated>>

SkipVerification ==
  /\ stage = "verify" /\ ~NeedsVerification
  /\ stage' = "done"
  /\ UNCHANGED <<strategy, budget, classification, decomposition, rejected, plans, results,
                 conflicts, aggregated, verification, notes>>

Over == stage \in {"done", "failed"} /\ UNCHANGED vars

Next == \/ ClassifyByRules \/ ClassifyInCloud \/ Decompose \/ Plan
        \/ StartExecution \/ Execute
        \/ DetectConflicts \/ Aggregate \/ Verify \/ SkipVerification \/ Over

Spec == Init /\ [][Next]_vars

-----------------------------------------------------------------------------
(* Properties.                                                             *)

\* Of what a model proposes, DAG.validate has only circles and repeated ids
\* left to reject, and it never rejects a shape the code laid out itself: the
\* normalizer lets no dependency point outside the list or at its own node,
\* and several nodes always have a synthesis (decomposer.ts:282-336).
OnlyCyclesAndTwinsRejected ==
  /\ rejected \subseteq {"CYCLE", "DUPLICATE_ID"}
  /\ rejected # {} => decomposition.by = "llm"
  /\ decomposition # Unset /\ decomposition.by = "llm" /\ Len(decomposition.nodes) > 1 =>
       \E i \in DOMAIN decomposition.nodes : decomposition.nodes[i].role = "synthesizer"

\* decomposer.ts:22-24: "bad ids, cycles, and missing synthesis are repaired
\* rather than trusted", so a model's reply does not fail the task.
ReplyIsRepaired == rejected = {}

\* A plan that breaks the budget is selected only when neither the requested
\* strategy nor a lower one fits, no plan costs less, its breach is reported,
\* and a change of strategy is reported exactly when there is one.
OverBudgetIsOwnedUp ==
  stage = "planned" =>
    LET chosen == plans.selection.selected
        tried  == {plans.requested} \cup ToSet(fallbackOrder[plans.requested])
    IN  /\ (plans.selection.downgradedFrom # "none") <=> (chosen # plans.requested)
        /\ Broken(plans.candidates[chosen], budget) # {} =>
             /\ \A s \in tried : Broken(plans.candidates[s], budget) # {}
             /\ \A s \in Strategies : plans.candidates[chosen].tokens <= plans.candidates[s].tokens
             /\ plans.selection.budgetViolations[chosen] # {}

\* planner.ts:64: "a plan that violates the caller's budget is not 'the chosen
\* plan with a warning', it is not eligible", as long as another plan fits.
IneligibleNeverChosen ==
  stage = "planned" =>
    (Feasible(plans.candidates, budget) # {} =>
       plans.selection.selected \in Feasible(plans.candidates, budget))

\* A task laid out by a role pipeline is answered from every analysis that
\* came back, whether its synthesis node wrote the answer or, when that
\* failed, another model merged the results (synthesizer.ts:22-26).
EveryAnalysisGiven ==
  stage = "verify" /\ decomposition.by # "llm" /\ aggregated.by # "deterministic" =>
    Range(AnalysesDone) \subseteq aggregated.given

\* The same for a decomposition by a model, whose added synthesis depends on
\* the nodes without dependencies only (decomposer.ts:328).
EveryBranchGiven ==
  stage = "verify" /\ aggregated.by # "deterministic" =>
    Range(AnalysesDone) \subseteq aggregated.given

\* Two analyses of which the earlier affirms what the later denies are among
\* the conflicts reported in the task's trace (pipeline.ts:283), with both
\* their names, whatever the models asked about it reply or fail to.  The
\* answer is verified unless verification is off, and keeps its list of
\* conflicts unless the optimizer took the list for a copy (output.ts:60).
DisagreementReported ==
  stage = "done" =>
    \A i, j \in DOMAIN AnalysesDone :
      i < j /\ results[AnalysesDone[i]] = "affirms" /\ results[AnalysesDone[j]] = "denies" =>
        /\ \E c \in conflicts :
             c.sourceA = AnalysesDone[i] /\ c.sourceB = AnalysesDone[j]
        /\ ENABLE_VERIFICATION => verification # {}
        /\ "conflicts" \in aggregated.sections \cup aggregated.copies

\* output.ts:6-8: the optimizer works "without touching evidence", so the list
\* of conflicts stays in the answer.
ConflictsListed ==
  stage = "done" /\ conflicts # {} => "conflicts" \in aggregated.sections

\* Whatever the consistency check or the critic found wrong is listed under
\* the answer, and an answer with anything found wrong is never verified.
IssuesReachReader ==
  stage = "done" =>
    /\ Found # {} => verification # {}
    /\ \A made \in verification :
         LET wrong == Found \cup made.reply.issues
         IN  wrong \subseteq notes /\ (wrong # {} => ~made.verdict.verified)

\* synthesizer.ts:237: "Unresolved disagreement is a reason to be less
\* confident, not more": an open conflict costs more than a settled one.
OpenConflictsCost ==
  aggregated # Unset /\ NeedsMerge(decomposition.nodes, results) =>
    LET open == Cardinality({ c \in conflicts : c.resolution = "open" })
    IN  aggregated.confidence <=
          Max({10, OverallConfidence(results) - 8 * open - 5 * Cardinality(conflicts)})
=============================================================================
