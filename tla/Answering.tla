----------------------------- MODULE Answering -----------------------------
(***************************************************************************)
(* Layers 13 to 15: core/aggregator (collector, conflict, deduplicator,    *)
(* synthesizer) and core/verifier (consistency, critic).  What an analysis *)
(* found is its stand on one question: it makes a claim, `affirms' or      *)
(* `denies' it, in a list item, or writes prose without findings.  A       *)
(* synthesis or a critique is text or empty.  Confidences are percentages. *)
(***************************************************************************)
EXTENDS Integers, SequencesExt

CONSTANT ENABLE_VERIFICATION    \* config.features.verification
ASSUME VerificationAssumption == ENABLE_VERIFICATION \in BOOLEAN

Stands  == {"affirms", "denies", "prose"}
Texts   == {"text", "empty"}
Merging == {"synthesizer", "critic"}

\* ResultCollector.collect: the places of the plan's nodes that have a result,
\* whose order is the order of the results.
Collected(nodes, results) == { i \in DOMAIN nodes : nodes[i].id \in DOMAIN results }
OfRole(nodes, results, role) == { i \in Collected(nodes, results) : nodes[i].role = role }

\* The analyses among them, the id of each at its place.
Analyses(nodes, results) ==
  [i \in { k \in Collected(nodes, results) : nodes[k].role \notin Merging } |-> nodes[i].id]

\* The node whose result is taken for that of a role: the first one's.
FirstOf(nodes, results, role) == nodes[Min(OfRole(nodes, results, role))].id
WrittenBy(nodes, results, role) ==
  OfRole(nodes, results, role) # {} /\ results[FirstOf(nodes, results, role)] = "text"

\* A task with one result, an analysis, has nothing to merge.
NeedsMerge(nodes, results) ==
  LET analyses == Analyses(nodes, results)
  IN  ~ \E i \in DOMAIN analyses : DOMAIN analyses = {i} /\ DOMAIN results = {analyses[i]}

ConfidenceOf == [affirms |-> 90, denies |-> 90, prose |-> 50, text |-> 80, empty |-> 40]

\* calculateOverallConfidence, every result weighing the same: three quarters
\* the mean, one quarter the weakest.
OverallConfidence(results) ==
  LET ids   == DOMAIN results
      sum   == MapThenSumSet(LAMBDA id : ConfidenceOf[results[id]], ids)
      least == Min({ ConfidenceOf[results[id]] : id \in ids })
  IN  ((3 * sum) \div Cardinality(ids) + least) \div 4

-----------------------------------------------------------------------------
(* ConflictDetector.                                                       *)

Conflict(a, b) == [sourceA |-> a, sourceB |-> b, resolution |-> "none"]

\* detectByRules looks for the affirmation in the earlier of two results and
\* for the denial in the later one.
RuleConflicts(analyses, results) ==
  LET clash == { pair \in (DOMAIN analyses) \X (DOMAIN analyses) :
                   /\ pair[1] < pair[2]
                   /\ results[analyses[pair[1]]] = "affirms"
                   /\ results[analyses[pair[2]]] = "denies" }
  IN  { Conflict(analyses[pair[1]], analyses[pair[2]]) : pair \in clash }

\* mergeConflicts compares the claims, A with A and B with B; a reply names
\* one disagreement at most.
SameClaims(c, d, results) ==
  results[c.sourceA] = results[d.sourceA] /\ results[c.sourceB] = results[d.sourceB]

mergeConflicts(byRule, byLlm, results) ==
  byRule \cup { c \in byLlm : \A d \in byRule : ~SameClaims(d, c, results) }

AsksForConflicts(analyses, strategy) ==
  strategy # "draft" /\ \E i, j \in DOMAIN analyses : i # j

\* Slip: a failed call throws the rules' conflicts away.
DetectedUnlessFailed(analyses, results, strategy, reply) ==
  IF ~AsksForConflicts(analyses, strategy) THEN RuleConflicts(analyses, results)
  ELSE IF reply.failed THEN {}
  ELSE mergeConflicts(RuleConflicts(analyses, results), reply.conflicts, results)

detect(analyses, results, strategy, reply) ==
  IF ~AsksForConflicts(analyses, strategy) \/ reply.failed THEN RuleConflicts(analyses, results)
  ELSE mergeConflicts(RuleConflicts(analyses, results), reply.conflicts, results)

\* resolve: an answer settles a conflict or leaves it open, and a failed call
\* leaves it open; each of them fills `resolution' in.
Resolutions == {"settled", "open"}
Resolved(conflicts, verdicts) == { [c EXCEPT !.resolution = verdicts[c]] : c \in conflicts }

\* adjustConfidenceForConflicts: 8 off for a conflict without a resolution, 5
\* for a severe one, and these claims are (is secure, is vulnerable).
Adjusted(confidence, conflicts) ==
  LET unresolved == Cardinality({ c \in conflicts : c.resolution = "none" })
  IN  Max({10, confidence - 8 * unresolved - 5 * Cardinality(conflicts)})

-----------------------------------------------------------------------------
(* ResultAggregator.aggregate.                                             *)

\* The results a node was built from: its dependencies among them, theirs...,
\* the least set that holds the dependencies of `id' and of its own members.
BuiltFrom(nodes, results, id) ==
  LET have == DOMAIN results
      upstream(ids) ==
        have \cap UNION { ToSet(nodes[i].dependencies) : i \in { k \in DOMAIN nodes : nodes[k].id \in ids } }
      direct == upstream({id})
      closed == { more \in SUBSET (have \ direct) :
                    upstream(direct \cup more) \subseteq direct \cup more }
  IN  direct \cup { one \in have : \A more \in closed : one \in more }

WithFindings(analyses, results) == { one \in Range(analyses) : results[one] # "prose" }

\* The analyses that reach a deterministic merge: those with findings, and the
\* raw outputs only when nobody has any.
Merged(analyses, results) ==
  IF WithFindings(analyses, results) = {} THEN Range(analyses)
  ELSE WithFindings(analyses, results)

\* deduplicate: results with the same claim are one finding of several roles.
DuplicatesRemoved(analyses, results) ==
  LET found == WithFindings(analyses, results)
  IN  Cardinality(found) - Cardinality({ results[one] : one \in found })

\* Which results the body of the answer was written from, and by whom; `llm'
\* is whether the fallback merge by a model comes back with text.
Body(nodes, results, llm) ==
  LET analyses == Analyses(nodes, results)
  IN  IF ~NeedsMerge(nodes, results)
      THEN [by |-> "plan_node", given |-> Range(analyses)]
      ELSE IF WrittenBy(nodes, results, "synthesizer")
      THEN LET synthesis == FirstOf(nodes, results, "synthesizer")
           IN  [by |-> "plan_node", given |-> {synthesis} \cup BuiltFrom(nodes, results, synthesis)]
      ELSE IF llm /\ DOMAIN analyses # {}
      THEN [by |-> "llm", given |-> Range(analyses)]
      ELSE [by |-> "deterministic", given |-> Merged(analyses, results)]

\* The sections appended to a merged answer before the output optimizer reads
\* it.  Unless the answer is JSON, the optimizer deletes each that it takes
\* for a copy of a section above it, by the words the two are made of.
Appended(nodes, results, conflicts) ==
  { "conflicts" : c \in conflicts }
  \cup (IF NeedsMerge(nodes, results) /\ WrittenBy(nodes, results, "critic")
        THEN {"review"} ELSE {})

-----------------------------------------------------------------------------
(* Verification.                                                           *)

shouldVerify(confidence, conflicts, strategy) ==
  /\ ENABLE_VERIFICATION
  /\ \/ conflicts # {}
     \/ strategy = "premium"
     \/ strategy = "balanced" /\ confidence < 70

\* ConsistencyChecker.check: each substantive analysis the answer does not
\* reflect, and a defect of the text itself (too short, cut off, empty part).
Inconsistencies(analyses, reflected, defect) ==
  { <<"missing", one>> : one \in Range(analyses) \ reflected }
  \cup (IF defect THEN {<<"defect">>} ELSE {})

Replies == [failed : {FALSE}, verified : BOOLEAN, issues : SUBSET {<<"critic">>}, corrections : BOOLEAN]
             \cup {[failed |-> TRUE, verified |-> TRUE, issues |-> {}, corrections |-> FALSE]}

\* Critic.verify: a list of issues outweighs "verified: true", and a critic
\* that cannot be reached verifies.
verify(reply) ==
  [verified    |-> reply.verified /\ reply.issues = {},
   issues      |-> reply.issues,
   corrections |-> reply.corrections,
   confidence  |-> IF reply.failed THEN 70 ELSE IF reply.verified /\ reply.issues = {} THEN 85 ELSE 60,
   by          |-> IF reply.failed THEN "skipped" ELSE "critic"]

\* Slip: the structural issues are listed and the verdict is kept.
WithStructureListed(verification, found) ==
  [verification EXCEPT !.issues = @ \cup found]

\* pipeline.ts:312-319.
WithStructure(verification, found) ==
  IF found = {} THEN verification
  ELSE [verification EXCEPT !.verified = FALSE, !.issues = @ \cup found]

\* applyToOutput: what the notes under the answer list.
Notes(verification) ==
  IF verification.verified THEN {} ELSE verification.issues
=============================================================================
