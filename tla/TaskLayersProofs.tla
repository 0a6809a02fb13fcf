-------------------------- MODULE TaskLayersProofs --------------------------
(* Proofs about TaskLayers, for any models: whatever they classify,        *)
(* decompose, disagree about, merge and criticise.  At the end, proofs     *)
(* about the searches of DagLoops, for any list of nodes: the first part   *)
(* needs of DAG.validate what the last shows that it finds.                *)
EXTENDS TaskLayers, DagLoops, FiniteSetTheorems, SequenceTheorems, WellFoundedInduction, TLAPS

-----------------------------------------------------------------------------
(* What the answer lists.                                                  *)

\* The critic is asked once, in the last step.
AskedAtTheEnd == stage # "done" => verification = {}

IssuesInv == AskedAtTheEnd /\ IssuesReachReader

\* What a critic's reply and the structure's faults make of an answer.
LEMMA WrongIsNoted ==
  ASSUME NEW reply \in Replies, NEW found
  PROVE  LET verdict == WithStructure(verify(reply), found)
             wrong   == found \cup reply.issues
         IN  wrong \subseteq Notes(verdict) /\ (wrong # {} => ~verdict.verified)
<1> DEFINE verdict == WithStructure(verify(reply), found)
<1>1. reply.verified \in BOOLEAN
  <2> DEFINE answers == [failed : {FALSE}, verified : BOOLEAN, issues : SUBSET {<<"critic">>},
                         corrections : BOOLEAN]
             silence == [failed |-> TRUE, verified |-> TRUE, issues |-> {}, corrections |-> FALSE]
  <2>1. reply \in answers \/ reply = silence
    BY DEF Replies
  <2>2. \A r \in answers : r.verified \in BOOLEAN
    OBVIOUS
  <2>3. silence.verified \in BOOLEAN
    OBVIOUS
  <2> HIDE DEF answers, silence
  <2>4. QED BY <2>1, <2>2, <2>3
<1>2. verify(reply).issues = reply.issues
      /\ verify(reply).verified = (reply.verified /\ reply.issues = {})
  BY DEF verify
<1>3. CASE found = {}
  <2>1. verdict = verify(reply)
    BY <1>3 DEF WithStructure
  <2>2. QED BY <2>1, <1>1, <1>2, <1>3 DEF Notes
<1>4. CASE found # {}
  <2>1. verdict.verified = FALSE /\ verdict.issues = reply.issues \cup found
    BY <1>4, <1>2 DEF WithStructure, verify
  <2>2. QED BY <2>1 DEF Notes
<1>5. QED BY <1>3, <1>4

\* Nothing an earlier layer leaves behind is touched by the last step.
LEMMA LastStepKeepsFound ==
  ASSUME UNCHANGED <<decomposition, results, aggregated>>
  PROVE  Found' = Found /\ AnalysesDone' = AnalysesDone
BY DEF Found, AnalysesDone

LEMMA StepKeepsIssues ==
  ASSUME IssuesInv, [Next]_vars
  PROVE  IssuesInv'
<1>1. CASE Verify
  <2>1. PICK reply \in Replies :
          /\ verification' = {[reply |-> reply, verdict |-> WithStructure(verify(reply), Found)]}
          /\ notes' = Notes(WithStructure(verify(reply), Found))
    BY <1>1 DEF Verify
  <2>2. Found' = Found
    BY <1>1, LastStepKeepsFound DEF Verify
  <2> DEFINE made == [reply |-> reply, verdict |-> WithStructure(verify(reply), Found)]
  <2>3. made.reply = reply /\ made.verdict = WithStructure(verify(reply), Found)
    OBVIOUS
  <2>4. verification' = {made}
    BY <2>1
  <2> HIDE DEF made
  <2>5. LET wrong == Found' \cup made.reply.issues
        IN  wrong \subseteq notes' /\ (wrong # {} => ~made.verdict.verified)
    BY <2>1, <2>2, <2>3, WrongIsNoted
  <2>6. stage' = "done"
    BY <1>1 DEF Verify
  <2>7. QED BY <2>4, <2>5, <2>6 DEF IssuesInv, AskedAtTheEnd, IssuesReachReader
<1>2. CASE SkipVerification
  <2>1. Found = {} /\ verification' = {} /\ Found' = Found /\ stage' = "done"
    BY <1>2, LastStepKeepsFound
    DEF SkipVerification, NeedsVerification, IssuesInv, AskedAtTheEnd
  <2>2. QED BY <2>1 DEF IssuesInv, AskedAtTheEnd, IssuesReachReader
<1>3. CASE Over \/ UNCHANGED vars
  <2>1. UNCHANGED vars
    BY <1>3 DEF Over
  <2>2. QED BY <2>1, LastStepKeepsFound DEF IssuesInv, AskedAtTheEnd, IssuesReachReader, vars
<1>4. CASE \/ ClassifyByRules \/ ClassifyInCloud \/ Decompose \/ Plan
           \/ StartExecution \/ Execute \/ DetectConflicts \/ Aggregate
  <2>1. stage # "done" /\ stage' # "done" /\ verification' = verification
    <3>1. CASE ClassifyByRules BY <3>1 DEF ClassifyByRules
    <3>2. CASE ClassifyInCloud BY <3>2 DEF ClassifyInCloud
    <3>3. CASE Decompose BY <3>3 DEF Decompose
    <3>4. CASE Plan BY <3>4 DEF Plan
    <3>5. CASE StartExecution BY <3>5 DEF StartExecution
    <3>6. CASE Execute BY <3>6 DEF Execute
    <3>7. CASE DetectConflicts BY <3>7 DEF DetectConflicts
    <3>8. CASE Aggregate BY <3>8 DEF Aggregate
    <3>9. QED BY <1>4, <3>1, <3>2, <3>3, <3>4, <3>5, <3>6, <3>7, <3>8
  <2>2. QED BY <2>1 DEF IssuesInv, AskedAtTheEnd, IssuesReachReader
<1>5. QED BY <1>1, <1>2, <1>3, <1>4 DEF Next

\* Whatever the consistency check or the critic finds wrong is listed under the
\* answer, and an answer with anything found wrong is never verified.
THEOREM IssuesAlwaysReachReader == Spec => []IssuesReachReader
<1>1. Init => IssuesInv
  BY DEF Init, IssuesInv, AskedAtTheEnd, IssuesReachReader
<1>2. IssuesInv /\ [Next]_vars => IssuesInv'
  BY StepKeepsIssues
<1>3. IssuesInv => IssuesReachReader
  BY DEF IssuesInv
<1>4. QED BY <1>1, <1>2, <1>3, PTL DEF Spec

-----------------------------------------------------------------------------
(* What the layers before execution lay out.                               *)

IsList(s) == \E n \in Nat : s = [i \in 1..n |-> s[i]]

\* A node has its seven fields, whatever is in them.
NodeFields == {"id", "role", "dependencies", "priority", "source", "requiresEnsemble",
               "optional"}
IsNode(node) == node = [f \in NodeFields |-> node[f]]
NodeList(nodes) == IsList(nodes) /\ \A i \in DOMAIN nodes : IsNode(nodes[i])

\* Every synthesis waits for every analysis.
Gathers(nodes) ==
  \A s, i \in DOMAIN nodes :
    nodes[s].role = "synthesizer" /\ nodes[i].role \notin Merging =>
      nodes[i].id \in ToSet(nodes[s].dependencies)

LaidOut(planned) ==
  /\ planned = [nodes |-> planned.nodes, by |-> planned.by]
  /\ NodeList(planned.nodes)
  /\ planned.by # "llm" => Gathers(planned.nodes)

Later == {"plan", "planned", "execute", "aggregate", "resolve", "verify", "done"}

\* From planning on there is a list of nodes, in which an answer that no model
\* laid out is built on every analysis.
LayoutInv ==
  /\ strategy \in Strategies
  /\ stage \in Later => LaidOut(decomposition)

LEMMA ListLen ==
  ASSUME NEW n \in Nat, NEW s, s = [i \in 1..n |-> s[i]]
  PROVE  /\ s \in Seq({s[i] : i \in 1..n})
         /\ Len(s) = n
         /\ DOMAIN s = 1..n
OBVIOUS

LEMMA SequencesAreLists ==
  ASSUME NEW S, NEW s \in Seq(S)
  PROVE  IsList(s)
BY DEF IsList

LEMMA AppendIsList ==
  ASSUME NEW s, IsList(s), NEW one
  PROVE  IsList(Append(s, one))
<1>1. PICK n \in Nat : s = [i \in 1..n |-> s[i]]
  BY DEF IsList
<1> DEFINE S == {s[i] : i \in 1..n} \cup {one}
<1>2. s \in Seq(S)
  BY <1>1
<1>3. Append(s, one) \in Seq(S)
  BY <1>2
<1>4. QED BY <1>3, SequencesAreLists

LEMMA NodeIsMade ==
  ASSUME NEW id, NEW role, NEW dependencies, NEW priority
  PROVE  LET node == makeNode(id, role, dependencies, priority)
         IN  /\ IsNode(node)
             /\ node.id = id /\ node.role = role /\ node.dependencies = dependencies
BY DEF makeNode, IsNode, NodeFields

\* Setting one of the flags of a node.
LEMMA FlagSet ==
  ASSUME NEW node, IsNode(node), NEW flag \in {"source", "requiresEnsemble", "optional"},
         NEW value
  PROVE  LET set == [node EXCEPT ![flag] = value]
         IN  /\ IsNode(set)
             /\ set.id = node.id /\ set.role = node.role /\ set.dependencies = node.dependencies
<1>1. node = [f \in NodeFields |-> node[f]]
  BY DEF IsNode
<1>2. QED BY <1>1 DEF IsNode, NodeFields

LEMMA AppendNode ==
  ASSUME NEW nodes, NodeList(nodes), NEW node, IsNode(node)
  PROVE  /\ NodeList(Append(nodes, node))
         /\ \A i \in DOMAIN Append(nodes, node) :
              \/ Append(nodes, node)[i] = node
              \/ i \in DOMAIN nodes /\ Append(nodes, node)[i] = nodes[i]
<1>1. PICK n \in Nat : nodes = [i \in 1..n |-> nodes[i]]
  BY DEF IsList, NodeList
<1>2. nodes \in Seq({nodes[i] : i \in 1..n} \cup {node}) /\ Len(nodes) = n
  BY <1>1
<1>3. \A i \in DOMAIN Append(nodes, node) :
        \/ Append(nodes, node)[i] = node
        \/ i \in DOMAIN nodes /\ Append(nodes, node)[i] = nodes[i]
  <2>1. /\ DOMAIN Append(nodes, node) = 1..(n + 1)
        /\ \A i \in 1..(n + 1) : Append(nodes, node)[i] = IF i = n + 1 THEN node ELSE nodes[i]
    BY <1>2
  <2>2. DOMAIN nodes = 1..n
    BY <1>1
  <2> DEFINE longer == Append(nodes, node)
  <2>3. /\ DOMAIN longer = 1..(n + 1)
        /\ \A i \in 1..(n + 1) : longer[i] = IF i = n + 1 THEN node ELSE nodes[i]
    BY <2>1
  <2> HIDE DEF longer
  <2>4. \A i \in DOMAIN longer : longer[i] = node \/ (i \in DOMAIN nodes /\ longer[i] = nodes[i])
    BY <2>2, <2>3
  <2>5. QED BY <2>4 DEF longer
<1>4. IsList(Append(nodes, node))
  BY AppendIsList DEF NodeList
<1>5. QED BY <1>3, <1>4 DEF NodeList

\* Some numbers have a least one.
LEMMA LeastOfSome ==
  ASSUME NEW places, places \subseteq Nat, places # {}
  PROVE  Min(places) \in places /\ \A other \in places : Min(places) <= other
<1>1. PICK least \in places : \A other \in places : <<other, least>> \notin OpToRel(<, Nat)
  BY WFMin, NatLessThanWellFounded
<1>2. \A other \in places : ~(other < least)
  BY <1>1 DEF OpToRel
<1>3. \A other \in places : least <= other
  BY <1>2
<1>4. QED BY <1>3 DEF Min

\* One of some places in a list comes after any number of them that there are.
LEMMA PlaceOfRank ==
  ASSUME NEW n \in Nat, NEW places \in SUBSET (1..n),
         NEW k \in 1..Cardinality(places)
  PROVE  \E i \in places : RankIn(places, i) = k
<1> DEFINE upTo(i) == { j \in places : j <= i }
           enough  == { i \in 0..n : Cardinality(upTo(i)) >= k }
<1>1. IsFiniteSet(places)
  <2>1. IsFiniteSet(1..n)
    BY FS_Interval
  <2>2. QED BY <2>1, FS_Subset
<1>2. Cardinality(places) \in Nat /\ k \in Nat /\ k >= 1 /\ k <= Cardinality(places)
  BY <1>1, FS_CardinalityType
<1>3. \A i : IsFiniteSet(upTo(i)) /\ Cardinality(upTo(i)) \in Nat
  <2>1. \A i : upTo(i) \subseteq places
    OBVIOUS
  <2> HIDE DEF upTo
  <2>2. \A i : IsFiniteSet(upTo(i))
    BY <1>1, <2>1, FS_Subset
  <2>3. QED BY <2>2, FS_CardinalityType
<1>4. upTo(0) = {} /\ upTo(n) = places
  <2>1. \A j \in places : j <= n /\ ~(j <= 0)
    OBVIOUS
  <2>2. QED BY <2>1
<1>5. \A i \in 1..n : \/ i \in places /\ upTo(i) = upTo(i - 1) \cup {i} /\ i \notin upTo(i - 1)
                      \/ i \notin places /\ upTo(i) = upTo(i - 1)
  <2>1. SUFFICES ASSUME NEW i \in 1..n
                 PROVE  \/ i \in places /\ upTo(i) = upTo(i - 1) \cup {i} /\ i \notin upTo(i - 1)
                        \/ i \notin places /\ upTo(i) = upTo(i - 1)
    OBVIOUS
  <2>2. \A j \in places : j <= i <=> j <= i - 1 \/ j = i
    OBVIOUS
  <2>3. ~(i <= i - 1)
    OBVIOUS
  <2>4. QED BY <2>2, <2>3
<1> HIDE DEF upTo
<1>6. Cardinality(upTo(0)) = 0
  BY <1>4, FS_EmptySet
<1>7. Min(enough) \in enough /\ \A m \in enough : Min(enough) <= m
  <2>1. n \in enough
    BY <1>2, <1>4
  <2>2. enough \subseteq Nat
    OBVIOUS
  <2> HIDE DEF enough
  <2>3. QED BY <2>1, <2>2, LeastOfSome
<1> DEFINE i == Min(enough)
<1>8. i \in 1..n /\ i - 1 \in 0..n /\ Cardinality(upTo(i)) >= k
  <2>1. i \in 0..n /\ Cardinality(upTo(i)) >= k
    BY <1>7
  <2>2. i # 0
    BY <1>2, <1>6, <2>1
  <2> HIDE DEF i
  <2>3. QED BY <2>1, <2>2
<1>9. i - 1 \notin enough
  <2>1. \A m \in enough : i <= m
    BY <1>7
  <2> HIDE DEF enough
  <2>2. ASSUME i - 1 \in enough PROVE FALSE
    <3>1. i <= i - 1
      BY <2>1, <2>2
    <3> HIDE DEF i
    <3>2. QED BY <1>8, <3>1
  <2>3. QED BY <2>2
<1>10. ~(Cardinality(upTo(i - 1)) >= k)
  BY <1>8, <1>9
<1> HIDE DEF i, enough
<1>11. i \in places /\ upTo(i) = upTo(i - 1) \cup {i} /\ i \notin upTo(i - 1)
  BY <1>5, <1>8, <1>10
<1>12. Cardinality(upTo(i)) = Cardinality(upTo(i - 1)) + 1
  BY <1>3, <1>11, FS_AddElement
<1>13. Cardinality(upTo(i)) = k
  <2>1. Cardinality(upTo(i)) \in Nat /\ Cardinality(upTo(i - 1)) \in Nat
    BY <1>3
  <2> DEFINE before == Cardinality(upTo(i - 1))
             now == Cardinality(upTo(i))
  <2>2. before \in Nat /\ now = before + 1 /\ now >= k /\ ~(before >= k)
    BY <1>8, <1>10, <1>12, <2>1
  <2> HIDE DEF before, now
  <2>3. now = k
    BY <1>2, <2>2
  <2>4. QED BY <2>3 DEF now
<1>14. QED BY <1>11, <1>13 DEF upTo, RankIn

\* What is picked from a list at some of its places is in the list at one of
\* them, and something is when there is a place.
LEMMA PlacesAreInside ==
  ASSUME NEW n \in Nat, NEW places \in SUBSET (1..n), NEW seq
  PROVE  /\ IsList(AtPlaces(seq, places))
         /\ places # {} => 1 \in DOMAIN AtPlaces(seq, places)
         /\ \A k \in DOMAIN AtPlaces(seq, places) :
              AtPlaces(seq, places)[k] \in { seq[i] : i \in places }
<1> DEFINE at(k) == seq[CHOOSE i \in places : RankIn(places, i) = k]
<1>1. IsFiniteSet(places)
  <2>1. IsFiniteSet(1..n)
    BY FS_Interval
  <2>2. QED BY <2>1, FS_Subset
<1>2. Cardinality(places) \in Nat /\ (places # {} => Cardinality(places) # 0)
  BY <1>1, FS_CardinalityType, FS_EmptySet
<1>3. ASSUME NEW k \in 1..Cardinality(places)
      PROVE  \E i \in places : at(k) = seq[i]
  <2>1. \E i \in places : RankIn(places, i) = k
    BY PlaceOfRank
  <2>2. QED BY <2>1
<1>4. AtPlaces(seq, places) = [k \in 1..Cardinality(places) |-> at(k)]
  BY DEF AtPlaces
<1> HIDE DEF at
<1>5. QED BY <1>2, <1>3, <1>4 DEF IsList

LEMMA RepliesAreLists ==
  ASSUME NEW raw \in RawReplies
  PROVE  /\ Len(raw) \in Nat /\ DOMAIN raw = 1..Len(raw) /\ (raw = <<>> <=> Len(raw) = 0)
         /\ \A i \in DOMAIN raw :
              LET deps == raw[i].dependencies
              IN  Len(deps) \in Nat /\ DOMAIN deps = 1..Len(deps)
<1>1. raw \in Seq(Range(raw))
  BY LayersAssumption
<1>2. \A i \in DOMAIN raw : raw[i].dependencies \in Seq(Range(raw[i].dependencies))
  BY LayersAssumption
<1>3. Len(raw) \in Nat /\ DOMAIN raw = 1..Len(raw) /\ (raw = <<>> <=> Len(raw) = 0)
  BY <1>1
<1>4. QED BY <1>2, <1>3

\* Whatever list a model answers, its first part without repetitions is one.
LEMMA CleanedIsList ==
  ASSUME NEW raw \in RawReplies
  PROVE  IsList(cleanedEntries(raw))
<1> DEFINE idMap == CHOOSE idMap : idMap =
                      [i \in 0..Len(raw) |->
                         IF i = 0 THEN {}
                         ELSE idMap[i - 1] \cup (IF Clean[raw[i].id] \in idMap[i - 1] THEN {}
                                                 ELSE {raw[i].id})]
           places == { i \in DOMAIN raw : Clean[raw[i].id] \notin idMap[i - 1] }
<1>1. DOMAIN raw = 1..Len(raw) /\ Len(raw) \in Nat
  BY RepliesAreLists
<1>2. places \in SUBSET (1..Len(raw))
  BY <1>1
<1>3. cleanedEntries(raw) = AtPlaces(raw, places)
  BY DEF cleanedEntries
<1> HIDE DEF places
<1>4. QED BY <1>1, <1>2, <1>3, PlacesAreInside

LEMMA NormalizedIsList ==
  ASSUME NEW raw \in RawReplies
  PROVE  NodeList(normalizeLlmNodes(raw))
<1> DEFINE cleaned == cleanedEntries(raw)
           names   == { Clean[cleaned[i].id] : i \in DOMAIN cleaned }
           deps(i) == ValidDeps(cleaned[i], names)
           node(i) == makeNode(Id(Clean[cleaned[i].id]), cleaned[i].role,
                               [k \in DOMAIN deps(i) |-> Id(deps(i)[k])], 11 - i)
           nodes   == [i \in DOMAIN cleaned |-> node(i)]
           roots   == AtPlaces(nodes, { i \in DOMAIN nodes : nodes[i].dependencies = <<>> })
           merging == makeNode(Id("synthesis"), "synthesizer", Ids(roots), 5)
<1>1. normalizeLlmNodes(raw) \in {nodes, Append(nodes, merging)}
  BY DEF normalizeLlmNodes
<1>2. PICK n \in Nat : cleaned = [i \in 1..n |-> cleaned[i]]
  BY CleanedIsList DEF IsList
<1>3. nodes = [i \in 1..n |-> node(i)]
  BY <1>2
<1>4. (\A i : IsNode(node(i))) /\ IsNode(merging)
  BY NodeIsMade
<1> HIDE DEF node, merging, cleaned
<1>5. NodeList(nodes)
  BY <1>3, <1>4 DEF IsList, NodeList
<1>6. NodeList(Append(nodes, merging))
  BY <1>4, <1>5, AppendNode
<1>7. QED BY <1>1, <1>5, <1>6

\* The stages of a task type: analyses, and after them at most one node, a
\* researcher only where none has been before.
Analysts == {"security_analyzer", "coder", "performance_analyzer", "architect",
             "code_reviewer", "summarizer", "researcher", "vision_analyzer",
             "audio_transcriber"}
Afterwards == {<<>>, <<"synthesizer">>, <<"researcher">>}
IsPipeline(pipeline) ==
  /\ IsList(pipeline.parallel) /\ 1 \in DOMAIN pipeline.parallel
  /\ \A i \in DOMAIN pipeline.parallel :
       pipeline.parallel[i] \in Analysts /\ pipeline.parallel[i] \notin Merging
  /\ pipeline.then \in Afterwards
  /\ pipeline.then = <<"researcher">> =>
       \A i \in DOMAIN pipeline.parallel : pipeline.parallel[i] # "researcher"

LEMMA StagesArePipelines ==
  ASSUME NEW roles \in Seq(Analysts), 1 \in DOMAIN roles, NEW then \in Afterwards,
         then = <<"researcher">> => \A i \in DOMAIN roles : roles[i] # "researcher"
  PROVE  IsPipeline(Stages(roles, then))
<1>1. \A i \in DOMAIN roles : roles[i] \in Analysts /\ roles[i] \notin Merging
  BY DEF Merging, Analysts
<1>2. IsList(roles)
  BY SequencesAreLists
<1>3. Stages(roles, then).parallel = roles /\ Stages(roles, then).then = then
  BY DEF Stages
<1>4. QED BY <1>1, <1>2, <1>3 DEF IsPipeline

LEMMA PipelineShape ==
  ASSUME NEW type \in DOMAIN ROLE_PIPELINES
  PROVE  IsPipeline(ROLE_PIPELINES[type])
<1>1. Afterwards = {<<>>, <<"synthesizer">>, <<"researcher">>}
  BY DEF Afterwards
<1>2. /\ "architect" \in Analysts
      /\ "audio_transcriber" \in Analysts
      /\ "code_reviewer" \in Analysts
      /\ "coder" \in Analysts
      /\ "performance_analyzer" \in Analysts
      /\ "researcher" \in Analysts
      /\ "security_analyzer" \in Analysts
      /\ "summarizer" \in Analysts
      /\ "vision_analyzer" \in Analysts
  BY DEF Analysts
<1>3. \A r \in Analysts, then \in Afterwards :
        (then = <<"researcher">> => r # "researcher") => IsPipeline(Stages(<<r>>, then))
  <2>1. \A r \in Analysts : /\ <<r>> \in Seq(Analysts) /\ 1 \in DOMAIN <<r>>
                            /\ \A i \in DOMAIN <<r>> : <<r>>[i] = r
    OBVIOUS
  <2>2. QED BY <2>1, StagesArePipelines
<1>4. IsPipeline(ROLE_PIPELINES["DOCUMENT_QA"])
  <2>1. ROLE_PIPELINES["DOCUMENT_QA"] = Stages(<<"researcher">>,
            <<>>)
    BY DEF ROLE_PIPELINES
  <2>2. QED BY <2>1, <1>1, <1>2, <1>3
<1>5. IsPipeline(ROLE_PIPELINES["IMAGE_ANALYSIS"])
  <2>1. ROLE_PIPELINES["IMAGE_ANALYSIS"] = Stages(<<"vision_analyzer">>,
            <<"researcher">>)
    BY DEF ROLE_PIPELINES
  <2>2. QED BY <2>1, <1>1, <1>2, <1>3
<1>6. IsPipeline(ROLE_PIPELINES["VISUAL_QA"])
  <2>1. ROLE_PIPELINES["VISUAL_QA"] = Stages(<<"vision_analyzer">>,
            <<>>)
    BY DEF ROLE_PIPELINES
  <2>2. QED BY <2>1, <1>1, <1>2, <1>3
<1>7. IsPipeline(ROLE_PIPELINES["OCR"])
  <2>1. ROLE_PIPELINES["OCR"] = Stages(<<"vision_analyzer">>,
            <<>>)
    BY DEF ROLE_PIPELINES
  <2>2. QED BY <2>1, <1>1, <1>2, <1>3
<1>8. IsPipeline(ROLE_PIPELINES["AUDIO_TRANSCRIPTION"])
  <2>1. ROLE_PIPELINES["AUDIO_TRANSCRIPTION"] = Stages(<<"audio_transcriber">>,
            <<>>)
    BY DEF ROLE_PIPELINES
  <2>2. QED BY <2>1, <1>1, <1>2, <1>3
<1>9. IsPipeline(ROLE_PIPELINES["AUDIO_ANALYSIS"])
  <2>1. ROLE_PIPELINES["AUDIO_ANALYSIS"] = Stages(<<"audio_transcriber">>,
            <<"researcher">>)
    BY DEF ROLE_PIPELINES
  <2>2. QED BY <2>1, <1>1, <1>2, <1>3
<1>10. IsPipeline(ROLE_PIPELINES["SUMMARIZATION"])
  <2>1. ROLE_PIPELINES["SUMMARIZATION"] = Stages(<<"summarizer">>,
            <<>>)
    BY DEF ROLE_PIPELINES
  <2>2. QED BY <2>1, <1>1, <1>2, <1>3
<1>11. IsPipeline(ROLE_PIPELINES["SIMPLE_QA"])
  <2>1. ROLE_PIPELINES["SIMPLE_QA"] = Stages(<<"researcher">>,
            <<>>)
    BY DEF ROLE_PIPELINES
  <2>2. QED BY <2>1, <1>1, <1>2, <1>3
<1>12. \A r, q \in Analysts : IsPipeline(Stages(<<r, q>>, <<"synthesizer">>))
  <2>1. \A r, q \in Analysts : <<r, q>> \in Seq(Analysts) /\ 1 \in DOMAIN <<r, q>>
    OBVIOUS
  <2>2. <<"synthesizer">> \in Afterwards /\ <<"synthesizer">> # <<"researcher">>
    BY DEF Afterwards
  <2>3. QED BY <2>1, <2>2, StagesArePipelines
<1>13. IsPipeline(ROLE_PIPELINES["BUG_FIX"])
  <2>1. ROLE_PIPELINES["BUG_FIX"] = Stages(<<"coder", "code_reviewer">>,
            <<"synthesizer">>)
    BY DEF ROLE_PIPELINES
  <2>2. QED BY <2>1, <1>1, <1>2, <1>12
<1>14. IsPipeline(ROLE_PIPELINES["CODE_GENERATION"])
  <2>1. ROLE_PIPELINES["CODE_GENERATION"] = Stages(<<"architect", "coder">>,
            <<"synthesizer">>)
    BY DEF ROLE_PIPELINES
  <2>2. QED BY <2>1, <1>1, <1>2, <1>12
<1>15. IsPipeline(ROLE_PIPELINES["DOCUMENT_ANALYSIS"])
  <2>1. ROLE_PIPELINES["DOCUMENT_ANALYSIS"] = Stages(<<"summarizer", "researcher">>,
            <<"synthesizer">>)
    BY DEF ROLE_PIPELINES
  <2>2. QED BY <2>1, <1>1, <1>2, <1>12
<1>16. IsPipeline(ROLE_PIPELINES["DATA_ANALYSIS"])
  <2>1. ROLE_PIPELINES["DATA_ANALYSIS"] = Stages(<<"researcher", "performance_analyzer">>,
            <<"synthesizer">>)
    BY DEF ROLE_PIPELINES
  <2>2. QED BY <2>1, <1>1, <1>2, <1>12
<1>17. IsPipeline(ROLE_PIPELINES["COMPLEX_REASONING"])
  <2>1. ROLE_PIPELINES["COMPLEX_REASONING"] = Stages(<<"researcher", "architect">>,
            <<"synthesizer">>)
    BY DEF ROLE_PIPELINES
  <2>2. QED BY <2>1, <1>1, <1>2, <1>12
<1>18. \A r, q, p \in Analysts : IsPipeline(Stages(<<r, q, p>>, <<"synthesizer">>))
  <2>1. \A r, q, p \in Analysts : <<r, q, p>> \in Seq(Analysts) /\ 1 \in DOMAIN <<r, q, p>>
    OBVIOUS
  <2>2. <<"synthesizer">> \in Afterwards /\ <<"synthesizer">> # <<"researcher">>
    BY DEF Afterwards
  <2>3. QED BY <2>1, <2>2, StagesArePipelines
<1>19. IsPipeline(ROLE_PIPELINES["CODE_REVIEW"])
  <2>1. ROLE_PIPELINES["CODE_REVIEW"] = Stages(<<"coder", "code_reviewer", "security_analyzer">>,
            <<"synthesizer">>)
    BY DEF ROLE_PIPELINES
  <2>2. QED BY <2>1, <1>1, <1>2, <1>18
<1>20. IsPipeline(ROLE_PIPELINES["RESEARCH"])
  <2>1. ROLE_PIPELINES["RESEARCH"] = Stages(<<"researcher", "researcher", "researcher">>,
            <<"synthesizer">>)
    BY DEF ROLE_PIPELINES
  <2>2. QED BY <2>1, <1>1, <1>2, <1>18
<1>21. \A r, q, p, o \in Analysts : IsPipeline(Stages(<<r, q, p, o>>, <<"synthesizer">>))
  <2>1. \A r, q, p, o \in Analysts : <<r, q, p, o>> \in Seq(Analysts) /\ 1 \in DOMAIN <<r, q, p, o>>
    OBVIOUS
  <2>2. <<"synthesizer">> \in Afterwards /\ <<"synthesizer">> # <<"researcher">>
    BY DEF Afterwards
  <2>3. QED BY <2>1, <2>2, StagesArePipelines
<1>22. IsPipeline(ROLE_PIPELINES["CODE_ANALYSIS"])
  <2>1. ROLE_PIPELINES["CODE_ANALYSIS"] =
          Stages(<<"security_analyzer", "coder", "performance_analyzer", "architect">>,
                 <<"synthesizer">>)
    BY DEF ROLE_PIPELINES
  <2>2. QED BY <2>1, <1>1, <1>2, <1>21
<1>23. type \in {"CODE_ANALYSIS", "CODE_REVIEW", "BUG_FIX", "CODE_GENERATION", "DOCUMENT_ANALYSIS",
      "DOCUMENT_QA", "IMAGE_ANALYSIS", "VISUAL_QA", "OCR", "AUDIO_TRANSCRIPTION",
      "AUDIO_ANALYSIS", "RESEARCH", "SUMMARIZATION", "DATA_ANALYSIS", "COMPLEX_REASONING",
      "SIMPLE_QA"}
  BY DEF ROLE_PIPELINES
<1>24. QED BY <1>4, <1>5, <1>6, <1>7, <1>8, <1>9, <1>10, <1>11, <1>13, <1>14, <1>15, <1>16,
              <1>17, <1>19, <1>20, <1>22, <1>23

\* The nodes after the analyses: each waits for all of them, or is a critique.
After(tail, then, analyses) ==
  \A k \in DOMAIN tail :
    \/ tail[k].role = "critic"
    \/ k \in DOMAIN then /\ tail[k].role = then[k] /\ tail[k].dependencies = Ids(analyses)

LEMMA TailIsAfter ==
  ASSUME NEW then \in Afterwards, NEW analyses
  PROVE  /\ NodeList(AfterAnalyses(then, analyses))
         /\ After(AfterAnalyses(then, analyses), then, analyses)
<1> DEFINE tail == AfterAnalyses(then, analyses)
           name(i) == IF then[i] = "synthesizer" THEN Id("synthesis") ELSE <<then[i], "stage">>
           node(i) == makeNode(name(i), then[i], Ids(analyses), 6 - i)
<1>1. tail = [i \in DOMAIN then |-> node(i)]
  BY DEF AfterAnalyses
<1> HIDE DEF name
<1>2. \A i : /\ IsNode(node(i))
             /\ node(i).role = then[i] /\ node(i).dependencies = Ids(analyses)
  BY NodeIsMade
<1>3. PICK n \in Nat : DOMAIN then = 1..n
  <2>1. DOMAIN then = 1..0 \/ DOMAIN then = 1..1
    BY DEF Afterwards
  <2>2. QED BY <2>1
<1> HIDE DEF node
<1>4. tail = [i \in 1..n |-> node(i)]
  BY <1>1, <1>3
<1> HIDE DEF tail
<1>5. NodeList(tail)
  BY <1>2, <1>4 DEF IsList, NodeList
<1>6. After(tail, then, analyses)
  BY <1>2, <1>3, <1>4 DEF After
<1>7. QED BY <1>5, <1>6 DEF tail

LEMMA CritiquedIsAfter ==
  ASSUME NEW then, NEW analyses, NEW tail, NodeList(tail), After(tail, then, analyses),
         NEW complexity
  PROVE  /\ NodeList(Critiqued(tail, complexity))
         /\ After(Critiqued(tail, complexity), then, analyses)
<1> DEFINE twice == [tail EXCEPT ![Len(tail)].requiresEnsemble = complexity = "very_complex"]
           made == makeNode(Id("critique"), "critic", <<tail[Len(tail)].id>>, 1)
           critique == [made EXCEPT !["optional"] = TRUE]
<1>1. Critiqued(tail, complexity) = Append(twice, critique)
  BY DEF Critiqued
<1>2. IsNode(critique) /\ critique.role = "critic"
  <2>1. IsNode(made) /\ made.role = "critic"
    BY NodeIsMade
  <2> HIDE DEF made
  <2>2. QED BY <2>1, FlagSet
<1>3. PICK n \in Nat : tail = [i \in 1..n |-> tail[i]]
  BY DEF IsList, NodeList
<1>4. twice = [i \in 1..n |-> twice[i]] /\ DOMAIN twice = DOMAIN tail
  BY <1>3
<1>5. ASSUME NEW i \in 1..n
      PROVE  /\ IsNode(twice[i])
             /\ twice[i].role = tail[i].role /\ twice[i].dependencies = tail[i].dependencies
  <2> DEFINE value == complexity = "very_complex"
  <2>1. twice[i] \in {tail[i], [tail[i] EXCEPT !["requiresEnsemble"] = value]}
    BY <1>3
  <2>2. IsNode(tail[i])
    BY <1>3 DEF NodeList
  <2> DEFINE flagged(node) == [node EXCEPT !["requiresEnsemble"] = value]
  <2>3. \A node : IsNode(node) =>
          /\ IsNode(flagged(node))
          /\ flagged(node).role = node.role /\ flagged(node).dependencies = node.dependencies
    BY FlagSet
  <2> HIDE DEF twice, value
  <2>4. twice[i] = tail[i] \/ twice[i] = flagged(tail[i])
    BY <2>1
  <2> HIDE DEF flagged
  <2>5. QED BY <2>2, <2>3, <2>4
<1> HIDE DEF twice, critique
<1>6. NodeList(twice)
  BY <1>4, <1>5 DEF NodeList, IsList
<1>7. After(twice, then, analyses)
  BY <1>3, <1>4, <1>5 DEF After
<1>8. QED BY <1>1, <1>2, <1>6, <1>7, AppendNode DEF After

\* Analyses, and after them what waits for them, are a list in which every
\* synthesis waits for every analysis.
LEMMA TwoStages ==
  ASSUME NEW n \in Nat, NEW analyses, analyses = [i \in 1..n |-> analyses[i]],
         \A i \in 1..n : IsNode(analyses[i]) /\ analyses[i].role \notin Merging,
         NEW then \in Afterwards, NEW tail, NodeList(tail), After(tail, then, analyses)
  PROVE  NodeList(analyses \o tail) /\ Gathers(analyses \o tail)
<1>1. PICK m \in Nat : tail = [i \in 1..m |-> tail[i]]
  BY DEF NodeList, IsList
<1> DEFINE S == {analyses[i] : i \in 1..n} \cup {tail[i] : i \in 1..m}
           nodes == analyses \o tail
<1>2. analyses \in Seq(S) /\ tail \in Seq(S) /\ Len(analyses) = n /\ Len(tail) = m
  BY <1>1
<1>3. /\ nodes \in Seq(S)
      /\ DOMAIN nodes = 1..(n + m)
      /\ \A i \in 1..(n + m) : nodes[i] = IF i <= n THEN analyses[i] ELSE tail[i - n]
  <2> HIDE DEF S
  <2>1. QED BY <1>2
<1> HIDE DEF nodes
<1>4. ASSUME NEW i \in 1..(n + m)
      PROVE  \/ i \in 1..n /\ nodes[i] = analyses[i]
             \/ i - n \in 1..m /\ nodes[i] = tail[i - n]
  <2>1. i \in 1..n \/ (i - n \in 1..m /\ ~(i <= n))
    OBVIOUS
  <2>2. QED BY <2>1, <1>3
<1>5. \A k \in 1..m : IsNode(tail[k])
  BY <1>1 DEF NodeList
<1>6. NodeList(nodes)
  <2>1. IsList(nodes)
    BY <1>3, SequencesAreLists
  <2>2. ASSUME NEW i \in 1..(n + m)
        PROVE  IsNode(nodes[i])
    BY <1>4, <1>5
  <2>3. QED BY <2>1, <2>2, <1>3 DEF NodeList
<1>7. ASSUME NEW s \in DOMAIN nodes, NEW i \in DOMAIN nodes,
             nodes[s].role = "synthesizer", nodes[i].role \notin Merging
      PROVE  nodes[i].id \in ToSet(nodes[s].dependencies)
  <2>1. "synthesizer" \in Merging /\ "critic" \in Merging
    BY DEF Merging
  <2>2. PICK k \in 1..m : nodes[s] = tail[k]
    BY <1>3, <1>4, <1>7, <2>1
  <2>3. k \in DOMAIN then /\ tail[k].role = then[k] /\ tail[k].dependencies = Ids(analyses)
    <3>1. k \in DOMAIN tail
      BY <1>1
    <3>2. QED BY <3>1, <1>7, <2>2 DEF After
  <2>4. then = <<"synthesizer">>
    BY <1>7, <2>2, <2>3 DEF Afterwards
  <2>5. i \in 1..n /\ nodes[i] = analyses[i]
    <3>1. ASSUME NEW j \in 1..m
          PROVE  tail[j].role \in Merging
      <4>1. j \in DOMAIN tail
        BY <1>1
      <4>2. tail[j].role = "critic" \/ (j \in DOMAIN then /\ tail[j].role = then[j])
        BY <4>1 DEF After
      <4>3. \A x \in DOMAIN then : then[x] = "synthesizer"
        BY <2>4
      <4>4. QED BY <2>1, <4>2, <4>3
    <3>2. QED BY <1>3, <1>4, <1>7, <3>1
  <2>6. Ids(analyses) = [j \in 1..n |-> analyses[j].id]
    BY DEF Ids
  <2>7. QED BY <2>2, <2>3, <2>5, <2>6 DEF ToSet
<1>8. Gathers(nodes)
  BY <1>7 DEF Gathers
<1>9. QED BY <1>6, <1>8 DEF nodes

LEMMA PipelineGathers ==
  ASSUME NEW pipeline, IsPipeline(pipeline), NEW complexity, NEW mode \in Strategies
  PROVE  NodeList(fromPipeline(pipeline, complexity, mode))
         /\ Gathers(fromPipeline(pipeline, complexity, mode))
<1> DEFINE roles == IF mode = "draft"
                    THEN SubSeq(pipeline.parallel, 1, Min({2, Len(pipeline.parallel)}))
                    ELSE pipeline.parallel
           nth(i) == Cardinality({ j \in 1..i : roles[j] = roles[i] })
           analysis(i) == makeNode(<<roles[i], nth(i)>>, roles[i], <<>>, 11 - i)
           analyses == [i \in DOMAIN roles |-> analysis(i)]
           tail == AfterAnalyses(pipeline.then, analyses)
           last == IF mode = "premium" /\ tail # <<>> /\ complexity # "medium"
                   THEN Critiqued(tail, complexity) ELSE tail
<1>1. fromPipeline(pipeline, complexity, mode) = analyses \o last
  BY DEF fromPipeline
<1>2. PICK n \in Nat : DOMAIN roles = 1..n /\ \A i \in 1..n : roles[i] \notin Merging
  <2>1. PICK m \in Nat : pipeline.parallel = [i \in 1..m |-> pipeline.parallel[i]]
    BY DEF IsPipeline, IsList
  <2> DEFINE width == Min({2, m})
             cut == SubSeq(pipeline.parallel, 1, width)
  <2>2. width \in 0..2 /\ width <= m
    BY DEF Min
  <2>3. Len(pipeline.parallel) = m /\ DOMAIN pipeline.parallel = 1..m
    BY <2>1
  <2> HIDE DEF width
  <2>4. DOMAIN cut = 1..width /\ \A i \in 1..width : cut[i] = pipeline.parallel[i]
    BY <2>2, <2>3
  <2>5. roles = pipeline.parallel \/ roles = cut
    BY <2>3 DEF width
  <2> HIDE DEF cut
  <2>6. \A i \in 1..m : pipeline.parallel[i] \notin Merging
    BY <2>3 DEF IsPipeline
  <2> HIDE DEF roles
  <2>7. CASE roles = cut
    BY <2>7, <2>2, <2>4, <2>6
  <2>8. CASE roles = pipeline.parallel
    BY <2>8, <2>3, <2>6
  <2>9. QED BY <2>5, <2>7, <2>8
<1> HIDE DEF nth, roles
<1>3. \A i : IsNode(analysis(i)) /\ analysis(i).role = roles[i]
  BY NodeIsMade
<1> HIDE DEF analysis
<1>4. analyses = [i \in 1..n |-> analyses[i]]
      /\ \A i \in 1..n : IsNode(analyses[i]) /\ analyses[i].role \notin Merging
  BY <1>2, <1>3
<1> HIDE DEF analyses
<1>5. pipeline.then \in Afterwards
  BY DEF IsPipeline
<1>6. NodeList(tail) /\ After(tail, pipeline.then, analyses)
  BY <1>5, TailIsAfter
<1> HIDE DEF tail
<1>7. NodeList(last) /\ After(last, pipeline.then, analyses)
  BY <1>6, CritiquedIsAfter
<1> HIDE DEF last
<1>8. QED BY <1>1, <1>4, <1>5, <1>7, TwoStages

\* Any list without a synthesis, and any list with one at its end.
LEMMA ResearchGathers ==
  ASSUME NEW questions \in Nat, NEW mode \in Strategies
  PROVE  NodeList(decomposeResearch(questions, mode))
         /\ Gathers(decomposeResearch(questions, mode))
<1> DEFINE asked == Min({questions, QuestionLimit[mode]})
           researcher(i) == makeNode(<<"research", i>>, "researcher", <<>>, 11 - i)
           researchers == [i \in 1..asked |-> researcher(i)]
           synthesis == makeNode(Id("synthesis"), "synthesizer", Ids(researchers), 5)
           nodes == Append(researchers, synthesis)
<1>1. decomposeResearch(questions, mode) = nodes
  BY DEF decomposeResearch
<1>2. asked \in Nat
  <2>1. QuestionLimit[mode] \in Nat
    BY DEF QuestionLimit, Strategies
  <2>2. QED BY <2>1 DEF Min
<1> HIDE DEF asked
<1>3. \A i : IsNode(researcher(i)) /\ researcher(i).role = "researcher"
  BY NodeIsMade
<1> HIDE DEF researcher
<1>4. \A i \in 1..asked : researchers[i] = researcher(i)
  OBVIOUS
<1>5. NodeList(researchers) /\ DOMAIN researchers = 1..asked
  BY <1>2, <1>3, <1>4 DEF NodeList, IsList
<1>6. /\ IsNode(synthesis) /\ synthesis.role = "synthesizer"
      /\ synthesis.dependencies = Ids(researchers)
  BY NodeIsMade
<1>7. Ids(researchers) = [i \in 1..asked |-> researchers[i].id]
  BY <1>5 DEF Ids
<1> HIDE DEF researchers, synthesis
<1>8. NodeList(nodes)
      /\ \A i \in DOMAIN nodes : \/ nodes[i] = synthesis
                                 \/ i \in 1..asked /\ nodes[i] = researchers[i]
  BY <1>5, <1>6, AppendNode
<1> HIDE DEF nodes
<1>9. ASSUME NEW s \in DOMAIN nodes, NEW i \in DOMAIN nodes,
             nodes[s].role = "synthesizer", nodes[i].role \notin Merging
      PROVE  nodes[i].id \in ToSet(nodes[s].dependencies)
  <2>1. nodes[s] = synthesis
    BY <1>3, <1>4, <1>8, <1>9
  <2>2. i \in 1..asked /\ nodes[i] = researchers[i]
    BY <1>6, <1>8, <1>9 DEF Merging
  <2>3. QED BY <2>1, <2>2, <1>6, <1>7 DEF ToSet
<1>10. QED BY <1>1, <1>8, <1>9 DEF Gathers

LEMMA SingleGathers ==
  ASSUME NEW class
  PROVE  NodeList(buildSingleNode(class)) /\ Gathers(buildSingleNode(class))
<1> DEFINE role == CASE class.requiresVision               -> "vision_analyzer"
                     [] class.audio                        -> "audio_transcriber"
                     [] class.taskType = "SUMMARIZATION"   -> "summarizer"
                     [] class.requiresCode                 -> "coder"
                     [] OTHER                              -> "researcher"
           node == makeNode(Id("main"), role, <<>>, 10)
<1>1. buildSingleNode(class) = <<node>>
  BY DEF buildSingleNode
<1>2. role # "synthesizer"
  OBVIOUS
<1> HIDE DEF role
<1>3. IsNode(node) /\ node.role # "synthesizer"
  BY <1>2, NodeIsMade
<1> HIDE DEF node
<1>4. <<node>> = [i \in 1..1 |-> <<node>>[i]] /\ DOMAIN <<node>> = 1..1
      /\ \A i \in 1..1 : <<node>>[i] = node
  OBVIOUS
<1>5. IsList(<<node>>)
  BY <1>4 DEF IsList
<1>6. QED BY <1>1, <1>3, <1>4, <1>5 DEF NodeList, Gathers

\* The same graph, with the same roles.
Alike(nodes, others) ==
  /\ DOMAIN nodes = DOMAIN others
  /\ \A i \in DOMAIN nodes :
       /\ nodes[i].id = others[i].id /\ nodes[i].role = others[i].role
       /\ nodes[i].dependencies = others[i].dependencies

\* A flag that is set on every node leaves the layout as it is.
LEMMA FinalizedKeeps ==
  ASSUME NEW nodes, NodeList(nodes)
  PROVE  /\ NodeList(finalize(nodes)) /\ Alike(nodes, finalize(nodes))
         /\ Gathers(nodes) => Gathers(finalize(nodes))
<1> DEFINE final(i) == [nodes[i] EXCEPT !["source"] = nodes[i].dependencies = <<>>]
           done == [i \in DOMAIN nodes |-> final(i)]
<1>1. finalize(nodes) = done
  BY DEF finalize
<1>2. PICK n \in Nat : nodes = [i \in 1..n |-> nodes[i]]
  BY DEF NodeList, IsList
<1>3. ASSUME NEW i \in 1..n
      PROVE  /\ IsNode(final(i)) /\ final(i).id = nodes[i].id /\ final(i).role = nodes[i].role
             /\ final(i).dependencies = nodes[i].dependencies
  <2>1. IsNode(nodes[i])
    BY <1>2 DEF NodeList
  <2>2. QED BY <2>1, FlagSet
<1> HIDE DEF final
<1>4. done = [i \in 1..n |-> final(i)] /\ DOMAIN nodes = 1..n
  BY <1>2
<1> HIDE DEF done
<1>5. NodeList(done)
  BY <1>3, <1>4 DEF NodeList, IsList
<1>6. Gathers(nodes) => Gathers(done)
  BY <1>3, <1>4 DEF Gathers
<1>7. Alike(nodes, done)
  BY <1>3, <1>4 DEF Alike
<1>8. QED BY <1>1, <1>5, <1>6, <1>7

LEMMA RoutedKeeps ==
  ASSUME NEW nodes, NodeList(nodes), NEW mode
  PROVE  /\ NodeList(Routed(nodes, mode)) /\ Alike(nodes, Routed(nodes, mode))
         /\ Gathers(nodes) => Gathers(Routed(nodes, mode))
<1> DEFINE final(i) == [nodes[i] EXCEPT !["requiresEnsemble"] = mode = "premium" /\ @]
           done == [i \in DOMAIN nodes |-> final(i)]
<1>1. Routed(nodes, mode) = done
  BY DEF Routed
<1>2. PICK n \in Nat : nodes = [i \in 1..n |-> nodes[i]]
  BY DEF NodeList, IsList
<1>3. ASSUME NEW i \in 1..n
      PROVE  /\ IsNode(final(i)) /\ final(i).id = nodes[i].id /\ final(i).role = nodes[i].role
             /\ final(i).dependencies = nodes[i].dependencies
  <2>1. IsNode(nodes[i])
    BY <1>2 DEF NodeList
  <2> DEFINE value == mode = "premium" /\ nodes[i].requiresEnsemble
  <2>2. final(i) = [nodes[i] EXCEPT !["requiresEnsemble"] = value]
    OBVIOUS
  <2> HIDE DEF final, value
  <2>3. QED BY <2>1, <2>2, FlagSet
<1> HIDE DEF final
<1>4. done = [i \in 1..n |-> final(i)] /\ DOMAIN nodes = 1..n
  BY <1>2
<1> HIDE DEF done
<1>5. NodeList(done)
  BY <1>3, <1>4 DEF NodeList, IsList
<1>6. Gathers(nodes) => Gathers(done)
  BY <1>3, <1>4 DEF Gathers
<1>7. Alike(nodes, done)
  BY <1>3, <1>4 DEF Alike
<1>8. QED BY <1>1, <1>5, <1>6, <1>7

\* Whichever way a task is laid out.
LEMMA SkeletonIsLaidOut ==
  ASSUME NEW class, NEW mode \in Strategies, NEW questions \in QuestionCounts,
         NEW raw \in RawReplies
  PROVE  LET skeleton == buildSkeleton(class, mode, questions, raw)
         IN  NodeList(skeleton.nodes) /\ (skeleton.by # "llm" => Gathers(skeleton.nodes))
<1> DEFINE skeleton == buildSkeleton(class, mode, questions, raw)
           single   == [nodes |-> buildSingleNode(class), by |-> "single"]
           research == [nodes |-> decomposeResearch(questions, mode), by |-> "pipeline"]
           piped    == [nodes |-> fromPipeline(ROLE_PIPELINES[class.taskType],
                                               class.complexity, mode),
                        by |-> "pipeline"]
           modelled == [nodes |-> normalizeLlmNodes(raw), by |-> "llm"]
<1>1. \/ skeleton = single \/ skeleton = research \/ skeleton = modelled
      \/ HasPipeline(class.taskType) /\ skeleton = piped
  BY DEF buildSkeleton
<1>2. CASE skeleton = single
  BY <1>2, SingleGathers
<1>3. CASE skeleton = research
  BY <1>3, ResearchGathers, LayersAssumption
<1>4. CASE skeleton = modelled
  BY <1>4, NormalizedIsList
<1>5. CASE HasPipeline(class.taskType) /\ skeleton = piped
  <2>1. IsPipeline(ROLE_PIPELINES[class.taskType])
    BY <1>5, PipelineShape DEF HasPipeline
  <2>2. NodeList(piped.nodes) /\ Gathers(piped.nodes)
    BY <2>1, PipelineGathers
  <2>3. QED BY <1>5, <2>2
<1>6. QED BY <1>1, <1>2, <1>3, <1>4, <1>5

-----------------------------------------------------------------------------
(* The choice of a plan.                                                   *)

LEMMA TokensAreCounted ==
  ASSUME NEW nodes, NodeList(nodes), NEW mode \in Strategies
  PROVE  PlanTokens(nodes, mode) \in Nat
<1>1. PICK n \in Nat : nodes = [i \in 1..n |-> nodes[i]]
  BY DEF NodeList, IsList
<1>2. Len(nodes) = n /\ DOMAIN nodes = 1..n
  BY <1>1
<1> DEFINE reading == { i \in DOMAIN nodes : nodes[i].source }
           each == Percent(ContextBudget[mode], ContextTokens)
<1>3. Cardinality(reading) \in Nat
  <2>1. IsFiniteSet(1..n) /\ reading \subseteq 1..n
    BY <1>2, FS_Interval
  <2>2. QED BY <2>1, FS_Subset, FS_CardinalityType
<1>4. each \in Nat
  <2>1. ContextBudget[mode] = 55 \/ ContextBudget[mode] = 100
    BY DEF ContextBudget, Strategies
  <2>2. (55 * ContextTokens + 99) \div 100 \in Nat /\ (100 * ContextTokens + 99) \div 100 \in Nat
    BY PlannerAssumption
  <2>3. QED BY <2>1, <2>2 DEF Percent
<1> HIDE DEF reading, each
<1>5. PlanTokens(nodes, mode) = n * PromptTokens + Cardinality(reading) * each
  BY <1>2 DEF PlanTokens, reading, each
<1>6. n * PromptTokens \in Nat /\ Cardinality(reading) * each \in Nat
  BY <1>3, <1>4, PlannerAssumption
<1>7. QED BY <1>5, <1>6

\* The first of a list that is in a set, when one is.
LEMMA FirstIsIn ==
  ASSUME NEW n \in Nat, NEW order, DOMAIN order = 1..n, NEW some,
         \E i \in 1..n : order[i] \in some
  PROVE  FirstIn(order, some) \in some /\ FirstIn(order, some) \in ToSet(order)
<1> DEFINE places == { i \in DOMAIN order : order[i] \in some }
<1>1. places \subseteq Nat /\ places # {}
  OBVIOUS
<1> HIDE DEF places
<1>2. Min(places) \in places
  BY <1>1, LeastOfSome
<1>3. FirstIn(order, some) = order[Min(places)]
  BY DEF FirstIn, places
<1>4. QED BY <1>2, <1>3 DEF ToSet, places

Priced(offers) == \A s \in Strategies : offers[s].tokens \in Nat

LEMMA CheapestCostsLeast ==
  ASSUME NEW offers, Priced(offers)
  PROVE  /\ Cheapest(offers) \in Strategies
         /\ \A s \in Strategies : offers[Cheapest(offers)].tokens <= offers[s].tokens
<1> DEFINE order == <<"draft", "balanced", "premium">>
           least == { s \in Strategies :
                        \A t \in Strategies : offers[s].tokens <= offers[t].tokens }
<1>1. DOMAIN order = 1..3 /\ order[1] = "draft" /\ order[2] = "balanced" /\ order[3] = "premium"
  OBVIOUS
<1>2. least # {}
  <2>1. ASSUME NEW x \in Nat, NEW y \in Nat, NEW z \in Nat
        PROVE  \/ x <= y /\ x <= z
               \/ y <= x /\ y <= z
               \/ z <= x /\ z <= y
    OBVIOUS
  <2>2. /\ offers["draft"].tokens \in Nat /\ offers["balanced"].tokens \in Nat
        /\ offers["premium"].tokens \in Nat
    BY DEF Priced, Strategies
  <2>3. \E s \in Strategies : \A t \in Strategies : offers[s].tokens <= offers[t].tokens
    BY <2>1, <2>2 DEF Strategies
  <2>4. QED BY <2>3
<1>3. \A s \in least : \E i \in 1..3 : order[i] = s
  BY <1>1 DEF Strategies
<1>4. Cheapest(offers) = FirstIn(order, least)
  BY DEF Cheapest
<1> HIDE DEF order
<1>5. FirstIn(order, least) \in least
  <2> HIDE DEF least
  <2>1. \E i \in 1..3 : order[i] \in least
    BY <1>2, <1>3
  <2>2. QED BY <1>1, <2>1, FirstIsIn
<1>6. QED BY <1>4, <1>5

\* A choice that breaks the budget is the cheapest, and nothing tried fits.
LEMMA ChosenIsBestTried ==
  ASSUME NEW offers, Priced(offers), NEW mode \in Strategies, NEW bounds
  PROVE  LET chosen == Chosen(offers, mode, bounds)
         IN  /\ chosen \in Strategies
             /\ Broken(offers[chosen], bounds) # {} =>
                  /\ \A s \in {mode} \cup ToSet(fallbackOrder[mode]) :
                       Broken(offers[s], bounds) # {}
                  /\ \A s \in Strategies : offers[chosen].tokens <= offers[s].tokens
<1> DEFINE chosen == Chosen(offers, mode, bounds)
           order == fallbackOrder[mode]
           fits == Feasible(offers, bounds)
<1>1. fits = { s \in Strategies : Broken(offers[s], bounds) = {} }
  BY DEF Feasible
<1>2. \E n \in Nat : DOMAIN order = 1..n
  <2>1. order \in {<<"balanced", "draft">>, <<"draft">>, <<>>}
    BY DEF fallbackOrder, Strategies
  <2>2. DOMAIN order = 1..2 \/ DOMAIN order = 1..1 \/ DOMAIN order = 1..0
    BY <2>1
  <2>3. QED BY <2>2
<1>3. ToSet(order) \subseteq Strategies
  BY DEF fallbackOrder, Strategies, ToSet
<1> HIDE DEF order, fits
<1>4. CASE mode \in fits
  <2>1. chosen = mode
    BY <1>4 DEF Chosen, fits
  <2>2. QED BY <2>1, <1>1, <1>4
<1>5. CASE mode \notin fits /\ ToSet(order) \cap fits # {}
  <2>1. chosen = FirstIn(order, fits)
    BY <1>5 DEF Chosen, fits, order
  <2>2. PICK n \in Nat : DOMAIN order = 1..n
    BY <1>2
  <2>3. \E i \in 1..n : order[i] \in fits
    BY <1>5, <2>2 DEF ToSet
  <2>4. chosen \in fits
    BY <2>1, <2>2, <2>3, FirstIsIn
  <2>5. QED BY <2>4, <1>1
<1>6. CASE mode \notin fits /\ ToSet(order) \cap fits = {}
  <2>1. chosen = Cheapest(offers)
    BY <1>6 DEF Chosen, fits, order
  <2>2. \A s \in {mode} \cup ToSet(order) : Broken(offers[s], bounds) # {}
    BY <1>1, <1>3, <1>6
  <2>3. QED BY <2>1, <2>2, CheapestCostsLeast DEF order
<1>7. QED BY <1>4, <1>5, <1>6

-----------------------------------------------------------------------------
(* The layout holds from planning on, and the plan is chosen from it.      *)

LEMMA DecomposeLaysOut ==
  ASSUME LayoutInv, Decompose
  PROVE  LayoutInv'
<1>1. PICK questions \in QuestionCounts, raw \in RawReplies :
        LET skeleton == buildSkeleton(classification, strategy, questions, raw)
        IN  decomposition' = [nodes |-> finalize(skeleton.nodes), by |-> skeleton.by]
  BY DEF Decompose
<1> DEFINE skeleton == buildSkeleton(classification, strategy, questions, raw)
<1>2. NodeList(skeleton.nodes) /\ (skeleton.by # "llm" => Gathers(skeleton.nodes))
  BY SkeletonIsLaidOut DEF LayoutInv
<1>3. decomposition' = [nodes |-> finalize(skeleton.nodes), by |-> skeleton.by]
  BY <1>1
<1> HIDE DEF skeleton
<1>4. LaidOut(decomposition')
  BY <1>2, <1>3, FinalizedKeeps DEF LaidOut
<1>5. strategy' = strategy
  BY DEF Decompose
<1>6. QED BY <1>4, <1>5 DEF LayoutInv

\* The candidates as they are compared are the candidates as they were built.
LEMMA PlanChooses ==
  ASSUME LayoutInv, Plan
  PROVE  /\ strategy' \in Strategies
         /\ decomposition' = [decomposition EXCEPT !.nodes = Routed(@, strategy')]
         /\ OverBudgetIsOwnedUp'
<1>1. PICK speeds \in Speeds :
        LET candidates == generatePlans(decomposition.nodes, speeds)
        IN  plans' = [candidates |-> [s \in Strategies |->
                                        [tokens |-> candidates[s].tokens,
                                         latency |-> candidates[s].latency]],
                      requested |-> strategy,
                      selection |-> select(candidates, strategy, budget)]
  BY DEF Plan
<1> DEFINE built == generatePlans(decomposition.nodes, speeds)
           shown(s) == [tokens |-> built[s].tokens, latency |-> built[s].latency]
           chosen == Chosen(built, strategy, budget)
<1>2. NodeList(decomposition.nodes) /\ strategy \in Strategies /\ strategy # "none"
  BY DEF LayoutInv, LaidOut, Plan, Later, Strategies
<1>3. Priced(built)
  <2>1. \A s \in Strategies : built[s].tokens = PlanTokens(decomposition.nodes, s)
    BY DEF generatePlans, buildPlan
  <2> HIDE DEF built
  <2>2. QED BY <2>1, <1>2, TokensAreCounted DEF Priced
<1> HIDE DEF built
<1>4. \A s \in Strategies : Broken(shown(s), budget) = Broken(built[s], budget)
                            /\ shown(s).tokens = built[s].tokens
  BY DEF Broken
<1>5. /\ select(built, strategy, budget).selected = chosen
      /\ select(built, strategy, budget).downgradedFrom
           = (IF chosen = strategy THEN "none" ELSE strategy)
      /\ select(built, strategy, budget).budgetViolations
           = [s \in Strategies |-> Broken(built[s], budget)]
  BY DEF select
<1>6. /\ plans'.candidates = [s \in Strategies |-> shown(s)]
      /\ plans'.requested = strategy
      /\ plans'.selection = select(built, strategy, budget)
  BY <1>1 DEF built
<1> HIDE DEF shown
<1>7. /\ chosen \in Strategies
      /\ Broken(built[chosen], budget) # {} =>
           /\ \A s \in {strategy} \cup ToSet(fallbackOrder[strategy]) :
                Broken(built[s], budget) # {}
           /\ \A s \in Strategies : built[chosen].tokens <= built[s].tokens
  BY <1>2, <1>3, ChosenIsBestTried
<1> HIDE DEF chosen
<1>8. \A s \in Strategies : plans'.candidates[s] = shown(s)
  BY <1>6
<1>9. {strategy} \cup ToSet(fallbackOrder[strategy]) \subseteq Strategies
  BY <1>2 DEF fallbackOrder, Strategies, ToSet
<1>10. budget' = budget
  BY DEF Plan
<1>11. OverBudgetIsOwnedUp'
  <2> DEFINE tried == {strategy} \cup ToSet(fallbackOrder[strategy])
  <2>1. (plans'.selection.downgradedFrom # "none") <=> (chosen # strategy)
    BY <1>2, <1>5, <1>6
  <2>2. ASSUME Broken(plans'.candidates[chosen], budget) # {}
        PROVE  /\ \A s \in tried : Broken(plans'.candidates[s], budget) # {}
               /\ \A s \in Strategies :
                    plans'.candidates[chosen].tokens <= plans'.candidates[s].tokens
               /\ plans'.selection.budgetViolations[chosen] # {}
    <3>1. Broken(built[chosen], budget) # {}
      BY <2>2, <1>4, <1>7, <1>8
    <3>2. \A s \in tried : Broken(plans'.candidates[s], budget) # {}
      BY <3>1, <1>4, <1>7, <1>8, <1>9
    <3>3. \A s \in Strategies : plans'.candidates[chosen].tokens <= plans'.candidates[s].tokens
      BY <3>1, <1>4, <1>7, <1>8
    <3>4. plans'.selection.budgetViolations[chosen] # {}
      BY <3>1, <1>5, <1>6, <1>7
    <3>5. QED BY <3>2, <3>3, <3>4
  <2>3. plans'.selection.selected = chosen
    BY <1>5, <1>6
  <2>4. QED BY <2>1, <2>2, <2>3, <1>6, <1>10 DEF OverBudgetIsOwnedUp
<1>12. strategy' = chosen
  BY <1>5, <1>6 DEF Plan
<1>13. decomposition' = [decomposition EXCEPT !.nodes = Routed(@, strategy')]
  BY DEF Plan
<1>14. QED BY <1>7, <1>11, <1>12, <1>13

LEMMA PlanLaysOut ==
  ASSUME LayoutInv, Plan
  PROVE  LayoutInv'
<1>1. LaidOut(decomposition)
  BY DEF LayoutInv, Plan, Later
<1> DEFINE nodes == Routed(decomposition.nodes, strategy')
<1>2. strategy' \in Strategies
      /\ decomposition' = [decomposition EXCEPT !.nodes = Routed(@, strategy')]
  BY PlanChooses
<1>3. decomposition' = [nodes |-> nodes, by |-> decomposition.by]
  BY <1>1, <1>2 DEF LaidOut
<1>4. NodeList(nodes) /\ (Gathers(decomposition.nodes) => Gathers(nodes))
  BY <1>1, RoutedKeeps DEF LaidOut
<1> HIDE DEF nodes
<1>5. LaidOut(decomposition')
  BY <1>1, <1>3, <1>4 DEF LaidOut
<1>6. QED BY <1>2, <1>5 DEF LayoutInv

\* Before the layout nothing is promised of it, and after it nothing changes it.
LEMMA StepKeepsLayout ==
  ASSUME LayoutInv, [Next]_vars
  PROVE  LayoutInv'
<1>1. CASE Decompose BY <1>1, DecomposeLaysOut
<1>2. CASE Plan BY <1>2, PlanLaysOut
<1>3. CASE ClassifyByRules BY <1>3 DEF ClassifyByRules, LayoutInv, Later
<1>4. CASE ClassifyInCloud BY <1>4 DEF ClassifyInCloud, LayoutInv, Later
<1>5. ASSUME stage \in Later, UNCHANGED <<strategy, decomposition>>
      PROVE  LayoutInv'
  BY <1>5 DEF LayoutInv
<1>6. CASE StartExecution BY <1>5, <1>6 DEF StartExecution, Later
<1>7. CASE Execute BY <1>5, <1>7 DEF Execute, Later
<1>8. CASE DetectConflicts BY <1>5, <1>8 DEF DetectConflicts, Later
<1>9. CASE Aggregate BY <1>5, <1>9 DEF Aggregate, Later
<1>10. CASE Verify BY <1>5, <1>10 DEF Verify, Later
<1>11. CASE SkipVerification BY <1>5, <1>11 DEF SkipVerification, Later
<1>12. CASE Over \/ UNCHANGED vars BY <1>12 DEF Over, vars, LayoutInv
<1>13. QED BY <1>1, <1>2, <1>3, <1>4, <1>6, <1>7, <1>8, <1>9, <1>10, <1>11, <1>12 DEF Next

LEMMA LayoutAtFirst == Init => LayoutInv
BY DEF Init, LayoutInv, Later

BudgetInv == LayoutInv /\ OverBudgetIsOwnedUp

LEMMA StepKeepsBudget ==
  ASSUME BudgetInv, [Next]_vars
  PROVE  BudgetInv'
<1>1. LayoutInv'
  BY StepKeepsLayout DEF BudgetInv
<1>2. CASE Plan
  BY <1>1, <1>2, PlanChooses DEF BudgetInv
<1>3. CASE Over \/ UNCHANGED vars
  BY <1>1, <1>3 DEF Over, vars, BudgetInv, OverBudgetIsOwnedUp
<1>4. CASE \/ ClassifyByRules \/ ClassifyInCloud \/ Decompose
           \/ StartExecution \/ Execute \/ DetectConflicts \/ Aggregate
           \/ Verify \/ SkipVerification
  <2>1. stage' # "planned"
    <3>1. CASE ClassifyByRules BY <3>1 DEF ClassifyByRules
    <3>2. CASE ClassifyInCloud BY <3>2 DEF ClassifyInCloud
    <3>3. CASE Decompose BY <3>3 DEF Decompose
    <3>4. CASE StartExecution BY <3>4 DEF StartExecution
    <3>5. CASE Execute BY <3>5 DEF Execute
    <3>6. CASE DetectConflicts BY <3>6 DEF DetectConflicts
    <3>7. CASE Aggregate BY <3>7 DEF Aggregate
    <3>8. CASE Verify BY <3>8 DEF Verify
    <3>9. CASE SkipVerification BY <3>9 DEF SkipVerification
    <3>10. QED BY <1>4, <3>1, <3>2, <3>3, <3>4, <3>5, <3>6, <3>7, <3>8, <3>9
  <2>2. QED BY <1>1, <2>1 DEF BudgetInv, OverBudgetIsOwnedUp
<1>5. QED BY <1>2, <1>3, <1>4 DEF Next

\* A plan that breaks the budget is selected only when neither the requested
\* strategy nor a lower one fits, no plan costs less, its breach is reported,
\* and a change of strategy is reported exactly when there is one.
THEOREM OverBudgetAlwaysOwnedUp == Spec => []OverBudgetIsOwnedUp
<1>1. Init => BudgetInv
  BY LayoutAtFirst DEF Init, BudgetInv, OverBudgetIsOwnedUp
<1>2. BudgetInv /\ [Next]_vars => BudgetInv'
  BY StepKeepsBudget
<1>3. BudgetInv => OverBudgetIsOwnedUp
  BY DEF BudgetInv
<1>4. QED BY <1>1, <1>2, <1>3, PTL DEF Spec

-----------------------------------------------------------------------------
(* What the answer is written from.                                        *)

\* A synthesis is built from the results its own dependencies brought.
LEMMA BuiltFromDependencies ==
  ASSUME NEW nodes, NEW found, NEW s \in DOMAIN nodes
  PROVE  (DOMAIN found) \cap ToSet(nodes[s].dependencies)
           \subseteq BuiltFrom(nodes, found, nodes[s].id)
BY DEF BuiltFrom

LEMMA FirstOfIsOne ==
  ASSUME NEW n \in Nat, NEW nodes, DOMAIN nodes = 1..n, NEW found, NEW role,
         OfRole(nodes, found, role) # {}
  PROVE  \E s \in OfRole(nodes, found, role) : FirstOf(nodes, found, role) = nodes[s].id
<1> DEFINE places == OfRole(nodes, found, role)
<1>1. places \subseteq Nat /\ places # {}
  BY DEF OfRole, Collected
<1> HIDE DEF places
<1>2. Min(places) \in places
  BY <1>1, LeastOfSome
<1>3. QED BY <1>2 DEF FirstOf, places

LEMMA EveryAnalysisInBody ==
  ASSUME NEW nodes, NodeList(nodes), Gathers(nodes), NEW found, NEW llm,
         Body(nodes, found, llm).by # "deterministic"
  PROVE  Range(Analyses(nodes, found)) \subseteq Body(nodes, found, llm).given
<1> DEFINE analyses == Analyses(nodes, found)
           body == Body(nodes, found, llm)
           synthesis == FirstOf(nodes, found, "synthesizer")
<1>1. CASE ~NeedsMerge(nodes, found)
  BY <1>1 DEF Body
<1>2. CASE NeedsMerge(nodes, found) /\ WrittenBy(nodes, found, "synthesizer")
  <2>1. body.given = {synthesis} \cup BuiltFrom(nodes, found, synthesis)
    BY <1>2 DEF Body
  <2>2. PICK n \in Nat : DOMAIN nodes = 1..n
    BY DEF NodeList, IsList
  <2>3. PICK s \in OfRole(nodes, found, "synthesizer") : synthesis = nodes[s].id
    BY <1>2, <2>2, FirstOfIsOne DEF WrittenBy
  <2>4. s \in DOMAIN nodes /\ nodes[s].role = "synthesizer"
    BY DEF OfRole, Collected
  <2>5. ASSUME NEW i \in DOMAIN analyses
        PROVE  analyses[i] \in BuiltFrom(nodes, found, synthesis)
    <3>1. /\ i \in DOMAIN nodes /\ nodes[i].role \notin Merging
          /\ analyses[i] = nodes[i].id /\ nodes[i].id \in DOMAIN found
      BY DEF Analyses, Collected
    <3>2. nodes[i].id \in ToSet(nodes[s].dependencies)
      BY <2>4, <3>1 DEF Gathers
    <3>3. QED BY <2>3, <2>4, <3>1, <3>2, BuiltFromDependencies
  <2>6. QED BY <2>1, <2>5 DEF Range
<1>3. CASE NeedsMerge(nodes, found) /\ ~WrittenBy(nodes, found, "synthesizer")
  BY <1>3 DEF Body
<1>4. QED BY <1>1, <1>2, <1>3

GivenInv == LayoutInv /\ EveryAnalysisGiven

\* What the aggregation hands to the verification.
LEMMA AggregateGives ==
  ASSUME Aggregate
  PROVE  \E llm \in BOOLEAN, verdicts \in [conflicts -> Resolutions] :
           LET body == Body(decomposition.nodes, results, llm)
           IN  /\ aggregated'.by = body.by /\ aggregated'.given = body.given
               /\ conflicts' = Resolved(conflicts, verdicts)
               /\ conflicts # {} => "conflicts" \in aggregated'.sections \cup aggregated'.copies
<1> DEFINE appended == Appended(decomposition.nodes, results, conflicts)
<1>1. PICK verdicts \in [conflicts -> Resolutions], llm \in BOOLEAN, defect \in BOOLEAN,
           copies \in SUBSET appended :
        LET settled == Resolved(conflicts, verdicts)
            body    == Body(decomposition.nodes, results, llm)
            alone   == ~NeedsMerge(decomposition.nodes, results)
        IN  \E lost \in {{}} \cup { {id} : id \in IF defect \/ alone THEN {} ELSE body.given } :
              /\ conflicts' = settled
              /\ aggregated' =
                   [by         |-> body.by,
                    given      |-> body.given,
                    reflected  |-> body.given \ lost,
                    defect     |-> defect,
                    sections   |-> appended \ copies,
                    copies     |-> copies,
                    duplicates |-> IF alone THEN 0
                                   ELSE DuplicatesRemoved(AnalysesDone, results) + Cardinality(copies),
                    confidence |-> IF alone THEN OverallConfidence(results)
                                   ELSE Adjusted(OverallConfidence(results), settled)]
  BY DEF Aggregate
<1>2. conflicts # {} => "conflicts" \in appended
  BY DEF Appended
<1> HIDE DEF appended
<1>3. aggregated'.sections = appended \ copies /\ aggregated'.copies = copies
  BY <1>1
<1>4. conflicts # {} => "conflicts" \in aggregated'.sections \cup aggregated'.copies
  BY <1>2, <1>3
<1>5. QED BY <1>1, <1>4

LEMMA StepKeepsGiven ==
  ASSUME GivenInv, [Next]_vars
  PROVE  GivenInv'
<1>1. LayoutInv'
  BY StepKeepsLayout DEF GivenInv
<1>2. CASE Aggregate
  <2>1. PICK llm \in BOOLEAN, verdicts \in [conflicts -> Resolutions] :
          LET body == Body(decomposition.nodes, results, llm)
          IN  aggregated'.by = body.by /\ aggregated'.given = body.given
    BY <1>2, AggregateGives
  <2>2. LaidOut(decomposition)
    BY <1>2 DEF GivenInv, LayoutInv, Aggregate, Later
  <2>3. AnalysesDone' = Analyses(decomposition.nodes, results) /\ decomposition' = decomposition
    BY <1>2 DEF Aggregate, AnalysesDone
  <2>4. EveryAnalysisGiven'
    BY <2>1, <2>2, <2>3, EveryAnalysisInBody DEF EveryAnalysisGiven, LaidOut
  <2>5. QED BY <1>1, <2>4 DEF GivenInv
<1>3. CASE Over \/ UNCHANGED vars
  BY <1>1, <1>3 DEF Over, vars, GivenInv, EveryAnalysisGiven, AnalysesDone
<1>4. CASE \/ ClassifyByRules \/ ClassifyInCloud \/ Decompose \/ Plan
           \/ StartExecution \/ Execute \/ DetectConflicts \/ Verify \/ SkipVerification
  <2>1. stage' # "verify"
    <3>1. CASE ClassifyByRules BY <3>1 DEF ClassifyByRules
    <3>2. CASE ClassifyInCloud BY <3>2 DEF ClassifyInCloud
    <3>3. CASE Decompose BY <3>3 DEF Decompose
    <3>4. CASE Plan BY <3>4 DEF Plan
    <3>5. CASE StartExecution BY <3>5 DEF StartExecution
    <3>6. CASE Execute BY <3>6 DEF Execute
    <3>7. CASE DetectConflicts BY <3>7 DEF DetectConflicts
    <3>8. CASE Verify BY <3>8 DEF Verify
    <3>9. CASE SkipVerification BY <3>9 DEF SkipVerification
    <3>10. QED BY <1>4, <3>1, <3>2, <3>3, <3>4, <3>5, <3>6, <3>7, <3>8, <3>9
  <2>2. QED BY <1>1, <2>1 DEF GivenInv, EveryAnalysisGiven
<1>5. QED BY <1>2, <1>3, <1>4 DEF Next

\* A task laid out by a role pipeline is answered from every analysis that came
\* back, by its own synthesis or, when that failed, by another model.
THEOREM EveryAnalysisAlwaysGiven == Spec => []EveryAnalysisGiven
<1>1. Init => GivenInv
  BY LayoutAtFirst DEF Init, GivenInv, EveryAnalysisGiven
<1>2. GivenInv /\ [Next]_vars => GivenInv'
  BY StepKeepsGiven
<1>3. GivenInv => EveryAnalysisGiven
  BY DEF GivenInv
<1>4. QED BY <1>1, <1>2, <1>3, PTL DEF Spec

-----------------------------------------------------------------------------
(* Disagreements.                                                          *)

\* The analysis at one place affirms what the one at a later place denies.
Disagree(i, j) ==
  /\ i \in DOMAIN AnalysesDone /\ j \in DOMAIN AnalysesDone /\ i < j
  /\ results[AnalysesDone[i]] = "affirms" /\ results[AnalysesDone[j]] = "denies"

Named(some, i, j) ==
  \E c \in some : c.sourceA = AnalysesDone[i] /\ c.sourceB = AnalysesDone[j]

\* The answer lists its conflicts, or did until the optimizer read it.
WasListed == "conflicts" \in aggregated.sections \cup aggregated.copies

\* A disagreement is among the conflicts once they are detected, and named in
\* those that are reported from aggregation on.
DisagreementInv ==
  /\ LayoutInv
  /\ stage = "resolve" =>
       \A i, j : Disagree(i, j) => Conflict(AnalysesDone[i], AnalysesDone[j]) \in conflicts
  /\ stage \in {"verify", "done"} =>
       \A i, j : Disagree(i, j) => Named(conflicts, i, j) /\ WasListed
  /\ stage = "done" =>
       \A i, j : Disagree(i, j) => (ENABLE_VERIFICATION => verification # {})

LEMMA DisagreementsAreDetected ==
  ASSUME NEW reply, NEW i, NEW j, Disagree(i, j)
  PROVE  Conflict(AnalysesDone[i], AnalysesDone[j])
           \in detect(AnalysesDone, results, strategy, reply)
<1> DEFINE clash == { pair \in (DOMAIN AnalysesDone) \X (DOMAIN AnalysesDone) :
                        /\ pair[1] < pair[2]
                        /\ results[AnalysesDone[pair[1]]] = "affirms"
                        /\ results[AnalysesDone[pair[2]]] = "denies" }
<1>1. <<i, j>> \in clash
  BY DEF Disagree
<1>2. RuleConflicts(AnalysesDone, results)
        = { Conflict(AnalysesDone[pair[1]], AnalysesDone[pair[2]]) : pair \in clash }
  BY DEF RuleConflicts
<1> HIDE DEF clash
<1>3. Conflict(AnalysesDone[<<i, j>>[1]], AnalysesDone[<<i, j>>[2]])
        \in RuleConflicts(AnalysesDone, results)
  BY <1>1, <1>2
<1>4. Conflict(AnalysesDone[i], AnalysesDone[j]) \in RuleConflicts(AnalysesDone, results)
  BY <1>3
<1>5. RuleConflicts(AnalysesDone, results) \subseteq detect(AnalysesDone, results, strategy, reply)
  BY DEF detect, mergeConflicts
<1>6. QED BY <1>4, <1>5

\* Two results at two places need a merge.
LEMMA DisagreementsNeedMerge ==
  ASSUME NodeList(decomposition.nodes), NEW i, NEW j, Disagree(i, j)
  PROVE  NeedsMerge(decomposition.nodes, results)
<1>1. PICK n \in Nat : DOMAIN decomposition.nodes = 1..n
  BY DEF NodeList, IsList
<1>2. i \in Nat /\ j \in Nat
  BY <1>1 DEF Disagree, AnalysesDone, Analyses, Collected
<1>3. i # j
  BY <1>2 DEF Disagree
<1>4. ~ \E k : DOMAIN AnalysesDone = {k}
  <2> DEFINE places == DOMAIN AnalysesDone
  <2>1. i \in places /\ j \in places
    BY DEF Disagree
  <2> HIDE DEF places
  <2>2. ~ \E k : places = {k}
    BY <1>3, <2>1
  <2>3. QED BY <2>2 DEF places
<1>5. QED BY <1>4 DEF NeedsMerge, AnalysesDone

\* Resolving a conflict keeps who disagrees with whom.
LEMMA ResolvedIsNamed ==
  ASSUME NEW verdicts, NEW i, NEW j,
         Conflict(AnalysesDone[i], AnalysesDone[j]) \in conflicts
  PROVE  Named(Resolved(conflicts, verdicts), i, j)
<1> DEFINE c == Conflict(AnalysesDone[i], AnalysesDone[j])
           settled == [c EXCEPT !.resolution = verdicts[c]]
<1>1. settled \in Resolved(conflicts, verdicts)
  BY DEF Resolved
<1>2. settled.sourceA = AnalysesDone[i] /\ settled.sourceB = AnalysesDone[j]
  BY DEF Conflict
<1> HIDE DEF settled
<1>3. QED BY <1>1, <1>2 DEF Named

LEMMA SameDisagreements ==
  ASSUME UNCHANGED <<decomposition, results>>
  PROVE  /\ AnalysesDone' = AnalysesDone
         /\ \A i, j : Disagree(i, j)' <=> Disagree(i, j)
BY DEF AnalysesDone, Disagree

LEMMA DetectNames ==
  ASSUME DisagreementInv, DetectConflicts
  PROVE  DisagreementInv'
<1>1. PICK reply \in ConflictReplies :
        conflicts' = IF NeedsMerge(decomposition.nodes, results)
                     THEN detect(AnalysesDone, results, strategy, reply) ELSE {}
  BY DEF DetectConflicts
<1>2. NodeList(decomposition.nodes)
  BY DEF DetectConflicts, DisagreementInv, LayoutInv, LaidOut, Later
<1>3. stage' = "resolve" /\ UNCHANGED <<decomposition, results>>
  BY DEF DetectConflicts
<1>4. ASSUME NEW i, NEW j, Disagree(i, j)
      PROVE  Conflict(AnalysesDone[i], AnalysesDone[j]) \in conflicts'
  BY <1>1, <1>2, <1>4, DisagreementsNeedMerge, DisagreementsAreDetected
<1>5. \A i, j : Disagree(i, j)' => Conflict(AnalysesDone'[i], AnalysesDone'[j]) \in conflicts'
  BY <1>3, <1>4, SameDisagreements
<1>6. LayoutInv'
  BY StepKeepsLayout DEF DisagreementInv, Next
<1>7. QED BY <1>3, <1>5, <1>6 DEF DisagreementInv

LEMMA AggregateNames ==
  ASSUME DisagreementInv, Aggregate
  PROVE  DisagreementInv'
<1>1. PICK verdicts \in [conflicts -> Resolutions] :
        /\ conflicts' = Resolved(conflicts, verdicts)
        /\ conflicts # {} => "conflicts" \in aggregated'.sections \cup aggregated'.copies
  BY AggregateGives
<1>2. stage = "resolve" /\ stage' = "verify" /\ UNCHANGED <<decomposition, results>>
  BY DEF Aggregate
<1>3. ASSUME NEW i, NEW j, Disagree(i, j)
      PROVE  Named(conflicts', i, j) /\ WasListed'
  <2>1. Conflict(AnalysesDone[i], AnalysesDone[j]) \in conflicts
    BY <1>2, <1>3 DEF DisagreementInv
  <2>2. Named(Resolved(conflicts, verdicts), i, j)
    BY <2>1, ResolvedIsNamed
  <2>3. conflicts # {}
    BY <2>1
  <2>4. QED BY <1>1, <2>2, <2>3 DEF WasListed
<1>4. \A i, j : Disagree(i, j)' => Named(conflicts, i, j)' /\ WasListed'
  BY <1>2, <1>3, SameDisagreements DEF Named
<1>5. LayoutInv'
  BY StepKeepsLayout DEF DisagreementInv, Next
<1>6. QED BY <1>2, <1>4, <1>5 DEF DisagreementInv

\* The last step: an answer with conflicts does not skip its verification.
LEMMA LastStepNames ==
  ASSUME DisagreementInv, Verify \/ SkipVerification
  PROVE  DisagreementInv'
<1>1. stage = "verify" /\ stage' = "done" /\ UNCHANGED <<decomposition, results, conflicts, aggregated>>
  BY DEF Verify, SkipVerification
<1>2. ASSUME NEW i, NEW j, Disagree(i, j)
      PROVE  Named(conflicts, i, j) /\ WasListed /\ (ENABLE_VERIFICATION => verification' # {})
  <2>1. Named(conflicts, i, j) /\ WasListed
    BY <1>1, <1>2 DEF DisagreementInv
  <2>2. ASSUME ENABLE_VERIFICATION PROVE verification' # {}
    <3>1. NeedsVerification
      BY <2>1, <2>2 DEF NeedsVerification, shouldVerify, Named
    <3>2. Verify
      BY <3>1 DEF SkipVerification
    <3>3. QED BY <3>2 DEF Verify
  <2>3. QED BY <2>1, <2>2
<1>3. \A i, j : Disagree(i, j)' =>
        /\ Named(conflicts, i, j)' /\ WasListed'
        /\ ENABLE_VERIFICATION => verification' # {}
  BY <1>1, <1>2, SameDisagreements DEF Named, WasListed
<1>4. LayoutInv'
  BY StepKeepsLayout DEF DisagreementInv, Next
<1>5. QED BY <1>1, <1>3, <1>4 DEF DisagreementInv

LEMMA StepKeepsDisagreements ==
  ASSUME DisagreementInv, [Next]_vars
  PROVE  DisagreementInv'
<1>1. LayoutInv'
  BY StepKeepsLayout DEF DisagreementInv
<1>2. CASE DetectConflicts BY <1>2, DetectNames
<1>3. CASE Aggregate BY <1>3, AggregateNames
<1>4. CASE Verify \/ SkipVerification BY <1>4, LastStepNames
<1>5. CASE Over \/ UNCHANGED vars
  <2>1. UNCHANGED vars
    BY <1>5 DEF Over
  <2>2. UNCHANGED <<stage, conflicts, aggregated, verification, decomposition, results>>
    BY <2>1 DEF vars
  <2>3. \A some, i, j : Named(some, i, j)' = Named(some, i, j)
    BY <2>2, SameDisagreements DEF Named
  <2>4. WasListed' = WasListed
    BY <2>2 DEF WasListed
  <2>5. QED BY <1>1, <2>2, <2>3, <2>4, SameDisagreements DEF DisagreementInv
<1>6. CASE \/ ClassifyByRules \/ ClassifyInCloud \/ Decompose \/ Plan
           \/ StartExecution \/ Execute
  <2>1. stage' \notin {"resolve", "verify", "done"}
    <3>1. CASE ClassifyByRules BY <3>1 DEF ClassifyByRules
    <3>2. CASE ClassifyInCloud BY <3>2 DEF ClassifyInCloud
    <3>3. CASE Decompose BY <3>3 DEF Decompose
    <3>4. CASE Plan BY <3>4 DEF Plan
    <3>5. CASE StartExecution BY <3>5 DEF StartExecution
    <3>6. CASE Execute BY <3>6 DEF Execute
    <3>7. QED BY <1>6, <3>1, <3>2, <3>3, <3>4, <3>5, <3>6
  <2>2. QED BY <1>1, <2>1 DEF DisagreementInv
<1>7. QED BY <1>2, <1>3, <1>4, <1>5, <1>6 DEF Next

\* Two analyses of which the earlier affirms what the later denies are reported
\* among the task's conflicts, with both their names, whatever the models asked
\* about it reply or fail to; the answer is verified unless verification is
\* off, and lists them unless the optimizer took the list for a copy.
THEOREM DisagreementAlwaysReported == Spec => []DisagreementReported
<1>1. Init => DisagreementInv
  BY LayoutAtFirst DEF Init, DisagreementInv
<1>2. DisagreementInv /\ [Next]_vars => DisagreementInv'
  BY StepKeepsDisagreements
<1>3. DisagreementInv => DisagreementReported
  BY DEF DisagreementInv, DisagreementReported, Disagree, Named, WasListed
<1>4. QED BY <1>1, <1>2, <1>3, PTL DEF Spec

-----------------------------------------------------------------------------
(* Which layouts DAG.validate accepts.                                     *)

\* Every id is there once, and every dependency is on a node that comes before.
Ordered(nodes) ==
  /\ \A i, j \in DOMAIN nodes : nodes[i].id = nodes[j].id => i = j
  /\ \A i \in DOMAIN nodes : \A d \in Range(nodes[i].dependencies) :
       \E j \in DOMAIN nodes : j < i /\ nodes[j].id = d

\* No dependency is on anything outside the list.
Inward(nodes) ==
  \A i \in DOMAIN nodes : \A d \in Range(nodes[i].dependencies) :
    \E j \in DOMAIN nodes : nodes[j].id = d

\* Several nodes have a synthesis.
HasSynthesis(nodes) == Len(nodes) > 1 => \E i \in DOMAIN nodes : nodes[i].role = "synthesizer"

\* What the ids of a list are.
LEMMA IdsAreKnown ==
  ASSUME NEW nodes
  PROVE  /\ \A i \in DOMAIN nodes : nodes[i].id \in Known(nodes)
         /\ \A id \in Known(nodes) : \E i \in DOMAIN nodes : nodes[i].id = id
BY DEF Known, Ids, Range

LEMMA InwardMissesNothing ==
  ASSUME NEW nodes, Inward(nodes)
  PROVE  ~Missing(nodes, {})
BY IdsAreKnown DEF Inward, Missing

\* The first node of a part, in the list's order, depends on none of it.
LEMMA OrderedIsAcyclic ==
  ASSUME NEW nodes, IsList(nodes), Ordered(nodes)
  PROVE  ~Circular(nodes)
<1> SUFFICES ASSUME NEW part \in SUBSET Known(nodes), part # {}
             PROVE  \E x \in part : DepSets(nodes)[x] \cap part = {}
  BY DEF Circular, Acyclic
<1>1. PICK n \in Nat : nodes = [i \in 1..n |-> nodes[i]]
  BY DEF IsList
<1>2. DOMAIN nodes = 1..n
  BY <1>1
<1> DEFINE places == { i \in DOMAIN nodes : nodes[i].id \in part }
<1>3. places \subseteq Nat /\ places # {}
  BY <1>2, IdsAreKnown
<1>4. PICK i \in places : \A j \in places : i <= j
  <2> HIDE DEF places
  <2>1. QED BY <1>3, LeastOfSome
<1> DEFINE id == nodes[i].id
<1>5. id \in part /\ id \in Known(nodes) /\ i \in 1..n
  BY <1>2
<1>6. DepSets(nodes)[id] = Range(nodes[i].dependencies)
  <2>1. i <= i /\ \A j \in DOMAIN nodes : nodes[j].id = id => j = i
    BY <1>2 DEF Ordered
  <2>2. NodeOf(nodes, id) = nodes[i]
    BY <1>2, <2>1 DEF NodeOf
  <2>3. QED BY <1>5, <2>2 DEF DepSets
<1>7. ASSUME NEW d \in Range(nodes[i].dependencies), d \in part
      PROVE  FALSE
  <2>1. PICK j \in DOMAIN nodes : j < i /\ nodes[j].id = d
    BY <1>2, <1>5 DEF Ordered
  <2>2. i <= j
    BY <1>4, <1>7, <2>1
  <2>3. QED BY <1>2, <1>5, <2>1, <2>2
<1>8. QED BY <1>5, <1>6, <1>7

LEMMA OrderedIsValid ==
  ASSUME NEW nodes, IsList(nodes), 1 \in DOMAIN nodes, Ordered(nodes)
  PROVE  validate(nodes, {}, Circular(nodes)) = {}
<1>1. nodes # <<>>
  BY DOMAIN nodes # {}
<1>2. ~Repeated(nodes)
  BY DEF Ordered, Repeated
<1>3. ~Missing(nodes, {})
  BY InwardMissesNothing DEF Ordered, Inward
<1>4. ~Circular(nodes)
  BY OrderedIsAcyclic
<1>5. QED BY <1>1, <1>2, <1>3, <1>4 DEF validate

LEMMA AlikeKeeps ==
  ASSUME NEW nodes, NEW others, IsList(nodes), IsList(others), Alike(nodes, others)
  PROVE  /\ Ordered(nodes) => Ordered(others)
         /\ Inward(nodes) => Inward(others)
         /\ HasSynthesis(nodes) => HasSynthesis(others)
<1>1. Ordered(nodes) => Ordered(others)
  BY DEF Alike, Ordered
<1>2. Inward(nodes) => Inward(others)
  BY DEF Alike, Inward
<1>3. Len(nodes) = Len(others)
  <2>1. PICK n \in Nat, m \in Nat : /\ nodes = [i \in 1..n |-> nodes[i]]
                                    /\ others = [i \in 1..m |-> others[i]]
    BY DEF IsList
  <2>2. Len(nodes) = n /\ Len(others) = m /\ DOMAIN nodes = 1..n /\ DOMAIN others = 1..m
    BY <2>1, ListLen
  <2>3. 1..n = 1..m
    BY <2>2 DEF Alike
  <2>4. n = m
    BY <2>3
  <2>5. QED BY <2>2, <2>4
<1>4. HasSynthesis(nodes) => HasSynthesis(others)
  BY <1>3 DEF Alike, HasSynthesis
<1>5. QED BY <1>1, <1>2, <1>4

\* One more node, of a new id, that depends on nodes of the list.
LEMMA OneMoreOrdered ==
  ASSUME NEW nodes, NodeList(nodes), Ordered(nodes), NEW node, IsNode(node),
         \A i \in DOMAIN nodes : nodes[i].id # node.id,
         \A d \in Range(node.dependencies) : \E i \in DOMAIN nodes : nodes[i].id = d
  PROVE  /\ NodeList(Append(nodes, node)) /\ Ordered(Append(nodes, node))
         /\ 1 \in DOMAIN Append(nodes, node)
         /\ \A i \in DOMAIN nodes : i \in DOMAIN Append(nodes, node) /\ Append(nodes, node)[i] = nodes[i]
         /\ \E i \in DOMAIN Append(nodes, node) : Append(nodes, node)[i] = node
         /\ \A i \in DOMAIN Append(nodes, node) :
              \/ Append(nodes, node)[i] = node
              \/ i \in DOMAIN nodes /\ Append(nodes, node)[i] = nodes[i]
<1> DEFINE longer == Append(nodes, node)
<1>1. PICK n \in Nat : nodes = [i \in 1..n |-> nodes[i]]
  BY DEF IsList, NodeList
<1>2. DOMAIN nodes = 1..n /\ nodes \in Seq({nodes[i] : i \in 1..n} \cup {node}) /\ Len(nodes) = n
  BY <1>1
<1>3. DOMAIN longer = 1..(n + 1) /\ longer[n + 1] = node /\ \A i \in 1..n : longer[i] = nodes[i]
  BY <1>2, AppendProperties
<1>4. NodeList(longer)
  BY AppendNode
<1> HIDE DEF longer
<1>5. \A i \in 1..(n + 1) : (i \in 1..n /\ i # n + 1) \/ i = n + 1
  OBVIOUS
<1>6. (\A i \in 1..n : i \in 1..(n + 1) /\ i < n + 1) /\ 1 \in 1..(n + 1) /\ n + 1 \in 1..(n + 1)
  OBVIOUS
<1>7. \A i, j \in 1..(n + 1) : longer[i].id = longer[j].id => i = j
  BY <1>2, <1>3, <1>5 DEF Ordered
<1>8. ASSUME NEW i \in 1..(n + 1), NEW d \in Range(longer[i].dependencies)
      PROVE  \E j \in 1..(n + 1) : j < i /\ longer[j].id = d
  <2>1. CASE i \in 1..n
    <3>1. longer[i] = nodes[i] /\ i \in DOMAIN nodes
      BY <1>2, <1>3, <2>1
    <3>2. d \in Range(nodes[i].dependencies)
      BY <1>8, <3>1
    <3>3. PICK j \in DOMAIN nodes : j < i /\ nodes[j].id = d
      BY <3>1, <3>2 DEF Ordered
    <3>4. QED BY <1>2, <1>3, <1>6, <3>3
  <2>2. CASE i = n + 1
    <3>1. PICK j \in 1..n : nodes[j].id = d
      BY <1>2, <1>3, <1>8, <2>2
    <3>2. QED BY <1>3, <1>6, <2>2, <3>1
  <2>3. QED BY <1>5, <2>1, <2>2
<1>9. Ordered(longer)
  <2>1. DOMAIN longer = 1..(n + 1)
    BY <1>3
  <2>2. \A i, j \in DOMAIN longer : longer[i].id = longer[j].id => i = j
    BY <1>7, <2>1
  <2>3. ASSUME NEW i \in DOMAIN longer, NEW d \in Range(longer[i].dependencies)
        PROVE  \E j \in DOMAIN longer : j < i /\ longer[j].id = d
    BY <1>8, <2>1
  <2>4. QED BY <2>2, <2>3 DEF Ordered
<1>10. /\ \A i \in DOMAIN nodes : i \in DOMAIN longer /\ longer[i] = nodes[i]
       /\ \E i \in DOMAIN longer : longer[i] = node
       /\ \A i \in DOMAIN longer : longer[i] = node \/ (i \in DOMAIN nodes /\ longer[i] = nodes[i])
       /\ 1 \in DOMAIN longer
  BY <1>2, <1>3, <1>5, <1>6
<1>11. QED BY <1>4, <1>9, <1>10 DEF longer

\* Any number of nodes of different ids that depend on nothing.
LEMMA RootsOrdered ==
  ASSUME NEW n \in Nat, NEW nodes, nodes = [i \in 1..n |-> nodes[i]],
         \A i \in 1..n : IsNode(nodes[i]) /\ nodes[i].dependencies = <<>>,
         \A i, j \in 1..n : nodes[i].id = nodes[j].id => i = j
  PROVE  NodeList(nodes) /\ Ordered(nodes)
<1>1. DOMAIN nodes = 1..n
  BY DOMAIN [i \in 1..n |-> nodes[i]] = 1..n
<1>2. Range(<<>>) = {}
  BY DEF Range
<1>3. QED BY <1>1, <1>2 DEF NodeList, IsList, Ordered

\* The shapes the code lays out itself.
LEMMA SingleOrdered ==
  ASSUME NEW class
  PROVE  LET nodes == buildSingleNode(class)
         IN  NodeList(nodes) /\ Ordered(nodes) /\ 1 \in DOMAIN nodes
<1> DEFINE role == CASE class.requiresVision               -> "vision_analyzer"
                     [] class.audio                        -> "audio_transcriber"
                     [] class.taskType = "SUMMARIZATION"   -> "summarizer"
                     [] class.requiresCode                 -> "coder"
                     [] OTHER                              -> "researcher"
           node == makeNode(Id("main"), role, <<>>, 10)
<1>1. buildSingleNode(class) = <<node>>
  BY DEF buildSingleNode
<1> HIDE DEF role
<1>2. IsNode(node) /\ node.dependencies = <<>>
  BY NodeIsMade
<1> HIDE DEF node
<1>3. /\ <<node>> = [i \in 1..1 |-> <<node>>[i]] /\ 1 \in DOMAIN <<node>> /\ 1 \in Nat
      /\ \A i \in 1..1 : <<node>>[i] = node
      /\ \A i, j \in 1..1 : i = j
  OBVIOUS
<1>4. QED BY <1>1, <1>2, <1>3, RootsOrdered

LEMMA ResearchOrdered ==
  ASSUME NEW questions \in Nat, NEW mode \in Strategies
  PROVE  LET nodes == decomposeResearch(questions, mode)
         IN  NodeList(nodes) /\ Ordered(nodes) /\ 1 \in DOMAIN nodes
<1> DEFINE asked == Min({questions, QuestionLimit[mode]})
           researcher(i) == makeNode(<<"research", i>>, "researcher", <<>>, 11 - i)
           researchers == [i \in 1..asked |-> researcher(i)]
           synthesis == makeNode(Id("synthesis"), "synthesizer", Ids(researchers), 5)
<1>1. decomposeResearch(questions, mode) = Append(researchers, synthesis)
  BY DEF decomposeResearch
<1>2. asked \in Nat
  <2>1. QuestionLimit[mode] \in Nat
    BY DEF QuestionLimit, Strategies
  <2>2. QED BY <2>1 DEF Min
<1> HIDE DEF asked
<1>3. \A i : IsNode(researcher(i)) /\ researcher(i).id = <<"research", i>>
             /\ researcher(i).dependencies = <<>>
  BY NodeIsMade
<1> HIDE DEF researcher
<1>4. /\ researchers = [i \in 1..asked |-> researchers[i]] /\ DOMAIN researchers = 1..asked
      /\ \A i \in 1..asked : researchers[i] = researcher(i)
  OBVIOUS
<1>5. IsNode(synthesis) /\ synthesis.id = <<"synthesis", 1>> /\ synthesis.dependencies = Ids(researchers)
  BY NodeIsMade DEF Id
<1> HIDE DEF synthesis, researchers
<1>6. NodeList(researchers) /\ Ordered(researchers)
  <2>1. \A i, j \in 1..asked : researchers[i].id = researchers[j].id => i = j
    BY <1>3, <1>4
  <2>2. QED BY <1>2, <1>3, <1>4, <2>1, RootsOrdered
<1>7. \A i \in DOMAIN researchers : researchers[i].id # synthesis.id
  BY <1>3, <1>4, <1>5
<1>8. \A d \in Range(synthesis.dependencies) : \E i \in DOMAIN researchers : researchers[i].id = d
  BY <1>5 DEF Ids, Range
<1>9. QED BY <1>1, <1>5, <1>6, <1>7, <1>8, OneMoreOrdered

\* The third of three coders is not the second: of a role at two places, the
\* later has the higher number.
LEMMA NumbersDiffer ==
  ASSUME NEW n \in Nat, NEW roles, NEW i \in 1..n, NEW j \in 1..n, i < j, roles[i] = roles[j]
  PROVE  Cardinality({ k \in 1..i : roles[k] = roles[i] })
           # Cardinality({ k \in 1..j : roles[k] = roles[j] })
<1> DEFINE A == { k \in 1..i : roles[k] = roles[i] }
           B == { k \in 1..j : roles[k] = roles[j] }
<1>1. A \subseteq 1..i /\ B \subseteq 1..j /\ j \notin A /\ A \cup {j} \subseteq B
  OBVIOUS
<1>2. IsFiniteSet(1..i) /\ IsFiniteSet(1..j)
  BY FS_Interval
<1> HIDE DEF A, B
<1>3. IsFiniteSet(A) /\ IsFiniteSet(B) /\ Cardinality(A) \in Nat /\ Cardinality(B) \in Nat
  BY <1>1, <1>2, FS_Subset, FS_CardinalityType
<1>4. Cardinality(A \cup {j}) = Cardinality(A) + 1
  BY <1>1, <1>3, FS_AddElement
<1>5. Cardinality(A \cup {j}) <= Cardinality(B)
  BY <1>1, <1>3, FS_Subset
<1>6. Cardinality(A) # Cardinality(B)
  <2> DEFINE a == Cardinality(A)
             b == Cardinality(B)
  <2>1. a \in Nat /\ b \in Nat /\ a + 1 <= b
    BY <1>3, <1>4, <1>5
  <2> HIDE DEF a, b
  <2>2. a # b
    BY <2>1
  <2>3. QED BY <2>2 DEF a, b
<1>7. QED BY <1>6 DEF A, B

LEMMA PipelineOrdered ==
  ASSUME NEW pipeline, IsPipeline(pipeline), NEW complexity, NEW mode \in Strategies
  PROVE  LET nodes == fromPipeline(pipeline, complexity, mode)
         IN  NodeList(nodes) /\ Ordered(nodes) /\ 1 \in DOMAIN nodes
<1> DEFINE roles == IF mode = "draft"
                    THEN SubSeq(pipeline.parallel, 1, Min({2, Len(pipeline.parallel)}))
                    ELSE pipeline.parallel
           nth(i) == Cardinality({ j \in 1..i : roles[j] = roles[i] })
           analysis(i) == makeNode(<<roles[i], nth(i)>>, roles[i], <<>>, 11 - i)
           analyses == [i \in DOMAIN roles |-> analysis(i)]
           tail == AfterAnalyses(pipeline.then, analyses)
           last == IF mode = "premium" /\ tail # <<>> /\ complexity # "medium"
                   THEN Critiqued(tail, complexity) ELSE tail
<1>1. fromPipeline(pipeline, complexity, mode) = analyses \o last
  BY DEF fromPipeline
<1>2. PICK n \in Nat : /\ n >= 1 /\ DOMAIN roles = 1..n
                       /\ \A i \in 1..n : /\ roles[i] \in Analysts
                                          /\ pipeline.then = <<"researcher">> => roles[i] # "researcher"
  <2>1. PICK m \in Nat : pipeline.parallel = [i \in 1..m |-> pipeline.parallel[i]]
    BY DEF IsPipeline, IsList
  <2> DEFINE width == Min({2, m})
             cut == SubSeq(pipeline.parallel, 1, width)
             early == pipeline.then = <<"researcher">>
  <2>2. Len(pipeline.parallel) = m /\ DOMAIN pipeline.parallel = 1..m
    BY <2>1
  <2>3. m >= 1 /\ \A i \in 1..m : /\ pipeline.parallel[i] \in Analysts
                                  /\ early => pipeline.parallel[i] # "researcher"
    BY <2>2 DEF IsPipeline
  <2> HIDE DEF early
  <2>4. width \in 1..2 /\ width <= m
    BY <2>3 DEF Min
  <2> HIDE DEF width
  <2>5. DOMAIN cut = 1..width /\ \A i \in 1..width : cut[i] = pipeline.parallel[i]
    BY <2>2, <2>4
  <2>6. roles = pipeline.parallel \/ roles = cut
    BY <2>2 DEF width
  <2> HIDE DEF cut, roles
  <2>7. CASE roles = cut
    <3>1. \A i \in 1..width : i \in 1..m
      BY <2>4
    <3>2. width \in Nat /\ width >= 1
      BY <2>4
    <3>3. QED BY <2>3, <2>5, <2>7, <3>1, <3>2 DEF early
  <2>8. CASE roles = pipeline.parallel
    BY <2>2, <2>3, <2>8 DEF early
  <2>9. QED BY <2>6, <2>7, <2>8
<1>3. \A i, j \in 1..n : <<roles[i], nth(i)>> = <<roles[j], nth(j)>> => i = j
  <2>1. SUFFICES ASSUME NEW i \in 1..n, NEW j \in 1..n, i # j, roles[i] = roles[j]
                 PROVE  nth(i) # nth(j)
    <3> HIDE DEF nth, roles
    <3>1. QED OBVIOUS
  <2> HIDE DEF roles
  <2>2. CASE i < j
    BY <2>1, <2>2, NumbersDiffer
  <2>3. CASE j < i
    BY <2>1, <2>3, NumbersDiffer
  <2>4. QED BY <2>1, <2>2, <2>3
<1> HIDE DEF nth, roles
<1>4. \A i : /\ IsNode(analysis(i)) /\ analysis(i).id = <<roles[i], nth(i)>>
             /\ analysis(i).dependencies = <<>>
  BY NodeIsMade
<1> HIDE DEF analysis
<1>5. /\ analyses = [i \in 1..n |-> analyses[i]] /\ DOMAIN analyses = 1..n
      /\ \A i \in 1..n : analyses[i] = analysis(i)
  BY <1>2
<1> HIDE DEF analyses
<1>6. NodeList(analyses) /\ Ordered(analyses) /\ 1 \in DOMAIN analyses
  <2>1. \A i, j \in 1..n : analyses[i].id = analyses[j].id => i = j
    BY <1>3, <1>4, <1>5
  <2>2. \A i \in 1..n : IsNode(analyses[i]) /\ analyses[i].dependencies = <<>>
    BY <1>4, <1>5
  <2>3. QED BY <1>2, <1>5, <2>1, <2>2, RootsOrdered
<1>7. \A i \in DOMAIN analyses :
        /\ analyses[i].id # <<"synthesis", 1>> /\ analyses[i].id # <<"critique", 1>>
        /\ pipeline.then = <<"researcher">> => analyses[i].id # <<"researcher", "stage">>
  <2>1. \A i \in 1..n : roles[i] # "synthesis" /\ roles[i] # "critique"
    BY <1>2 DEF Analysts
  <2>2. QED BY <1>2, <1>4, <1>5, <2>1
<1>8. Range(Ids(analyses)) = { analyses[i].id : i \in DOMAIN analyses }
  BY DEF Ids, Range
<1>9. CASE tail = <<>>
  <2>1. last = <<>>
    BY <1>9
  <2> HIDE DEF last, tail
  <2>2. analyses \in Seq({analyses[i] : i \in 1..n})
    BY <1>5
  <2> DEFINE S == {analyses[i] : i \in 1..n}
  <2> HIDE DEF S
  <2>3. analyses \o <<>> = analyses
    BY <2>2, ConcatEmptySeq
  <2>4. QED BY <1>1, <1>6, <2>1, <2>3
<1>10. CASE tail # <<>>
  <2> DEFINE one == tail[1]
  <2>1. /\ tail = <<one>> /\ IsNode(one) /\ one.dependencies = Ids(analyses)
        /\ \/ one.id = <<"synthesis", 1>>
           \/ one.id = <<"researcher", "stage">> /\ pipeline.then = <<"researcher">>
    <3> DEFINE then == pipeline.then
               name(i) == IF then[i] = "synthesizer" THEN Id("synthesis") ELSE <<then[i], "stage">>
               node(i) == makeNode(name(i), then[i], Ids(analyses), 6 - i)
    <3>1. tail = [i \in DOMAIN then |-> node(i)]
      BY DEF AfterAnalyses
    <3>2. then \in Afterwards
      BY DEF IsPipeline
    <3>3. \A i : /\ IsNode(node(i)) /\ node(i).id = name(i)
                 /\ node(i).dependencies = Ids(analyses)
      <4> HIDE DEF name
      <4>1. QED BY NodeIsMade
    <3> HIDE DEF tail, node
    <3>4. then = <<"synthesizer">> \/ then = <<"researcher">>
      <4>1. then # <<>>
        <5>1. CASE then = <<>>
          <6>1. tail = <<>>
            BY <3>1, <5>1
          <6>2. QED BY <1>10, <6>1
        <5>2. QED BY <5>1
      <4>2. QED BY <3>2, <4>1 DEF Afterwards
    <3>5. DOMAIN then = {1}
      BY <3>4
    <3>6. tail = <<one>> /\ one = node(1)
      BY <3>1, <3>5
    <3>7. name(1) = <<"synthesis", 1>> \/ (name(1) = <<"researcher", "stage">> /\ then = <<"researcher">>)
      BY <3>4 DEF Id
    <3>8. QED BY <3>3, <3>6, <3>7
  <2> HIDE DEF tail, one
  \* With or without a second model for it.
  <2>2. ASSUME NEW node, IsNode(node), node.id = one.id, node.dependencies = one.dependencies
        PROVE  /\ NodeList(Append(analyses, node)) /\ Ordered(Append(analyses, node))
               /\ 1 \in DOMAIN Append(analyses, node)
               /\ analyses \o <<node>> = Append(analyses, node)
               /\ \A i \in DOMAIN Append(analyses, node) :
                    Append(analyses, node)[i].id # <<"critique", 1>>
               /\ \E i \in DOMAIN Append(analyses, node) : Append(analyses, node)[i].id = node.id
    <3>1. \A i \in DOMAIN analyses : analyses[i].id # node.id
      BY <1>7, <2>1, <2>2
    <3>2. \A d \in Range(node.dependencies) : \E i \in DOMAIN analyses : analyses[i].id = d
      BY <1>8, <2>1, <2>2
    <3>3. analyses \in Seq({analyses[i] : i \in 1..n} \cup {node})
      BY <1>5
    <3>4. analyses \o <<node>> = Append(analyses, node)
      BY <3>3, AppendIsConcat
    <3>5. node.id # <<"critique", 1>>
      BY <2>1, <2>2
    <3>6. /\ NodeList(Append(analyses, node)) /\ Ordered(Append(analyses, node))
          /\ 1 \in DOMAIN Append(analyses, node)
          /\ \E i \in DOMAIN Append(analyses, node) : Append(analyses, node)[i] = node
          /\ \A i \in DOMAIN Append(analyses, node) :
               \/ Append(analyses, node)[i] = node
               \/ i \in DOMAIN analyses /\ Append(analyses, node)[i] = analyses[i]
      BY <1>6, <2>2, <3>1, <3>2, OneMoreOrdered
    <3>7. QED BY <1>7, <3>4, <3>5, <3>6
  <2>3. CASE last = tail
    BY <1>1, <2>1, <2>2, <2>3
  <2>4. CASE last = Critiqued(tail, complexity)
    <3> DEFINE value == complexity = "very_complex"
               twice == [one EXCEPT !["requiresEnsemble"] = value]
               made == makeNode(Id("critique"), "critic", <<one.id>>, 1)
               critique == [made EXCEPT !["optional"] = TRUE]
    <3>1. /\ Len(tail) = 1 /\ tail[Len(tail)] = one
          /\ [tail EXCEPT ![Len(tail)].requiresEnsemble = value] = <<twice>>
      BY <2>1
    <3>2. Critiqued(tail, complexity) = Append(<<twice>>, critique)
      BY <3>1 DEF Critiqued
    <3>3. IsNode(twice) /\ twice.id = one.id /\ twice.dependencies = one.dependencies
      <4> HIDE DEF value
      <4>1. QED BY <2>1, FlagSet
    <3>4. IsNode(made) /\ made.id = <<"critique", 1>> /\ made.dependencies = <<one.id>>
      BY NodeIsMade DEF Id
    <3> HIDE DEF made
    <3>5. IsNode(critique) /\ critique.id = <<"critique", 1>> /\ critique.dependencies = <<one.id>>
      BY <3>4, FlagSet
    <3> HIDE DEF twice, critique, last, value
    <3> DEFINE nodes == Append(analyses, twice)
    <3>6. /\ NodeList(nodes) /\ Ordered(nodes)
          /\ \A i \in DOMAIN nodes : nodes[i].id # critique.id
          /\ \E i \in DOMAIN nodes : nodes[i].id = one.id
          /\ analyses \o <<twice>> = nodes
      BY <2>2, <3>3, <3>5
    <3> HIDE DEF nodes
    <3>7. Range(critique.dependencies) = {one.id}
      BY <3>5 DEF Range
    <3>8. LET longer == Append(nodes, critique)
          IN  NodeList(longer) /\ Ordered(longer) /\ 1 \in DOMAIN longer
      BY <3>5, <3>6, <3>7, OneMoreOrdered
    <3>9. analyses \o last = Append(nodes, critique)
      <4> DEFINE S == {analyses[i] : i \in 1..n} \cup {twice, critique}
      <4>1. analyses \in Seq(S) /\ twice \in S /\ critique \in S
        BY <1>5
      <4> HIDE DEF S
      <4>2. analyses \o Append(<<twice>>, critique) = Append(analyses \o <<twice>>, critique)
        BY <4>1
      <4>3. QED BY <2>4, <3>2, <3>6, <4>2
    <3>10. QED BY <1>1, <3>8, <3>9
  <2>5. last = tail \/ last = Critiqued(tail, complexity)
    OBVIOUS
  <2> HIDE DEF last
  <2>6. QED BY <2>3, <2>4, <2>5
<1>11. QED BY <1>9, <1>10

\* A model's first entry is always kept.
LEMMA SomeAreCleaned ==
  ASSUME NEW raw \in RawReplies, raw # <<>>
  PROVE  1 \in DOMAIN cleanedEntries(raw)
<1> DEFINE n == Len(raw)
           keys(before, i) == before \cup (IF Clean[raw[i].id] \in before THEN {} ELSE {raw[i].id})
           upTo(f, m) == [i \in 0..m |-> IF i = 0 THEN {} ELSE keys(f[i - 1], i)]
           bad == { m \in 0..n : ~\E f : f = upTo(f, m) }
           idMap == CHOOSE f : f = upTo(f, n)
           places == { i \in DOMAIN raw : Clean[raw[i].id] \notin idMap[i - 1] }
<1>1. DOMAIN raw = 1..n /\ n \in Nat /\ n # 0
  BY RepliesAreLists
<1>2. cleanedEntries(raw) = AtPlaces(raw, places)
  BY DEF cleanedEntries
<1> HIDE DEF n, keys
<1>3. bad = {}
  <2>1. SUFFICES ASSUME bad # {} PROVE FALSE
    OBVIOUS
  <2>2. PICK m \in bad : \A k \in bad : m <= k
    <3>1. bad \subseteq Nat
      BY <1>1
    <3> HIDE DEF bad
    <3>2. QED BY <2>1, <3>1, LeastOfSome
  <2>3. m # 0
    <3> DEFINE f == [i \in 0..0 |-> {}]
    <3>1. f = upTo(f, 0)
      OBVIOUS
    <3> HIDE DEF upTo, f
    <3>2. 0 \notin bad
      BY <3>1
    <3>3. QED BY <2>2, <3>2
  <2>4. m \in 1..n /\ m - 1 \in 0..n /\ ~(m <= m - 1)
    BY <1>1, <2>2, <2>3
  <2>5. PICK f : f = upTo(f, m - 1)
    <3> HIDE DEF upTo
    <3>1. QED BY <2>2, <2>4
  <2> DEFINE g == [i \in 0..m |-> IF i \in 0..(m - 1) THEN f[i] ELSE keys(f[m - 1], m)]
  <2>6. \A i \in 0..(m - 1) : g[i] = f[i] /\ f[i] = IF i = 0 THEN {} ELSE keys(f[i - 1], i)
    <3>1. \A i \in 0..(m - 1) : i \in 0..m
      BY <2>4
    <3>2. QED BY <2>5, <3>1
  <2>7. g[m] = keys(f[m - 1], m)
    BY <2>4
  <2>8. \A i \in 0..m : g[i] = IF i = 0 THEN {} ELSE keys(g[i - 1], i)
    <3>1. SUFFICES ASSUME NEW i \in 0..m
                   PROVE  g[i] = IF i = 0 THEN {} ELSE keys(g[i - 1], i)
      OBVIOUS
    <3> HIDE DEF g
    <3>2. CASE i = m
      <4>1. m - 1 \in 0..(m - 1) /\ m # 0
        BY <2>4
      <4>2. QED BY <2>6, <2>7, <3>2, <4>1
    <3>3. CASE i # m
      <4>1. i \in 0..(m - 1) /\ (i # 0 => i - 1 \in 0..(m - 1))
        BY <2>4, <3>3
      <4>2. QED BY <2>6, <4>1
    <3>4. QED BY <3>2, <3>3
  <2>9. g = upTo(g, m)
    <3>1. g = [i \in 0..m |-> g[i]]
      OBVIOUS
    <3> HIDE DEF g
    <3>2. QED BY <2>8, <3>1
  <2> HIDE DEF upTo, g
  <2>10. m \notin bad
    BY <2>9
  <2>11. QED BY <2>2, <2>10
<1>4. idMap = upTo(idMap, n)
  <2> HIDE DEF upTo
  <2>1. n \notin bad /\ n \in 0..n
    BY <1>1, <1>3
  <2>2. \E f : f = upTo(f, n)
    BY <2>1
  <2>3. QED BY <2>2
<1>5. idMap[0] = {}
  <2>1. 0 \in 0..n
    BY <1>1
  <2>2. upTo(idMap, n)[0] = {}
    BY <2>1
  <2> HIDE DEF upTo, idMap
  <2>3. QED BY <1>4, <2>2
<1> HIDE DEF idMap
<1>6. 1 \in places /\ places \in SUBSET (1..n)
  <2>1. 1 \in 1..n /\ 1 - 1 = 0
    BY <1>1
  <2>2. QED BY <1>1, <1>5, <2>1
<1> HIDE DEF places
<1>7. QED BY <1>1, <1>2, <1>6, PlacesAreInside

\* What is picked is what the picked places have.
LEMMA AllPicked ==
  ASSUME NEW n \in Nat, NEW places \in SUBSET (1..n), NEW seq, NEW names,
         \A i \in places : seq[i] \in names
  PROVE  \A k \in DOMAIN AtPlaces(seq, places) : AtPlaces(seq, places)[k] \in names
<1>1. SUFFICES ASSUME NEW k \in DOMAIN AtPlaces(seq, places)
               PROVE  AtPlaces(seq, places)[k] \in names
  OBVIOUS
<1>2. AtPlaces(seq, places)[k] \in { seq[i] : i \in places }
  BY PlacesAreInside
<1>3. QED BY <1>2

\* What a node may depend on is the ids that there are.
LEMMA ValidDepsAreNames ==
  ASSUME NEW entry, NEW names, entry.dependencies \in Seq(Range(entry.dependencies))
  PROVE  \A k \in DOMAIN ValidDeps(entry, names) : ValidDeps(entry, names)[k] \in names
<1> DEFINE n == Len(entry.dependencies)
           deps == CleanDeps(entry)
           places == { i \in DOMAIN deps : deps[i] \in names /\ deps[i] # Clean[entry.id] }
<1>1. ValidDeps(entry, names) = AtPlaces(deps, places)
  BY DEF ValidDeps
<1>2. DOMAIN deps = 1..n /\ n \in Nat
  BY DEF CleanDeps
<1> HIDE DEF deps, n
<1>3. places \in SUBSET (1..n) /\ \A i \in places : deps[i] \in names
  BY <1>2
<1> HIDE DEF places
<1>4. \A k \in DOMAIN AtPlaces(deps, places) : AtPlaces(deps, places)[k] \in names
  BY <1>2, <1>3, AllPicked
<1>5. QED BY <1>1, <1>4

\* The entries that are cleaned are entries of the model's.
LEMMA CleanedAreEntries ==
  ASSUME NEW raw \in RawReplies
  PROVE  \A i \in DOMAIN cleanedEntries(raw) :
           cleanedEntries(raw)[i].dependencies \in Seq(Range(cleanedEntries(raw)[i].dependencies))
<1> DEFINE idMap == CHOOSE idMap : idMap =
                      [i \in 0..Len(raw) |->
                         IF i = 0 THEN {}
                         ELSE idMap[i - 1] \cup (IF Clean[raw[i].id] \in idMap[i - 1] THEN {}
                                                 ELSE {raw[i].id})]
           places == { i \in DOMAIN raw : Clean[raw[i].id] \notin idMap[i - 1] }
           listed == { raw[i] : i \in DOMAIN raw }
<1>1. DOMAIN raw = 1..Len(raw) /\ Len(raw) \in Nat
  BY RepliesAreLists
<1>2. places \in SUBSET (1..Len(raw)) /\ \A i \in places : raw[i] \in listed
  BY <1>1
<1>3. cleanedEntries(raw) = AtPlaces(raw, places)
  BY DEF cleanedEntries
<1>4. \A entry \in listed : entry.dependencies \in Seq(Range(entry.dependencies))
  BY LayersAssumption
<1> HIDE DEF places, listed
<1>5. \A k \in DOMAIN AtPlaces(raw, places) : AtPlaces(raw, places)[k] \in listed
  BY <1>1, <1>2, AllPicked
<1>6. QED BY <1>3, <1>4, <1>5

\* What the normalizer makes of a reply has a node, lets no dependency point
\* outside the list, and has a synthesis when it has several nodes.
LEMMA Normalized ==
  ASSUME NEW raw \in RawReplies, raw # <<>>
  PROVE  LET nodes == normalizeLlmNodes(raw)
         IN  1 \in DOMAIN nodes /\ Inward(nodes) /\ HasSynthesis(nodes)
<1> DEFINE cleaned == cleanedEntries(raw)
           names   == { Clean[cleaned[i].id] : i \in DOMAIN cleaned }
           deps(i) == ValidDeps(cleaned[i], names)
           depIds(i) == [k \in DOMAIN deps(i) |-> Id(deps(i)[k])]
           node(i) == makeNode(Id(Clean[cleaned[i].id]), cleaned[i].role, depIds(i), 11 - i)
           nodes   == [i \in DOMAIN cleaned |-> node(i)]
           places  == { i \in DOMAIN nodes : nodes[i].dependencies = <<>> }
           roots   == AtPlaces(nodes, places)
           merging == makeNode(Id("synthesis"), "synthesizer", Ids(roots), 5)
           unmerged == Len(nodes) > 1 /\ \A i \in DOMAIN nodes : nodes[i].role # "synthesizer"
<1>1. normalizeLlmNodes(raw) = IF unmerged THEN Append(nodes, merging) ELSE nodes
  BY DEF normalizeLlmNodes
<1>2. PICK n \in Nat : cleaned = [i \in 1..n |-> cleaned[i]]
  BY CleanedIsList DEF IsList
<1>3. DOMAIN cleaned = 1..n /\ 1 \in DOMAIN cleaned
  BY <1>2, SomeAreCleaned
<1>4. \A i \in DOMAIN cleaned : \A k \in DOMAIN deps(i) : deps(i)[k] \in names
  BY CleanedAreEntries, ValidDepsAreNames
<1> HIDE DEF deps
<1>5. \A i \in DOMAIN cleaned : \A d \in Range(depIds(i)) :
        \E j \in DOMAIN cleaned : d = Id(Clean[cleaned[j].id])
  BY <1>4 DEF Range
<1> HIDE DEF depIds, names
<1>6. \A i : /\ IsNode(node(i)) /\ node(i).id = Id(Clean[cleaned[i].id])
             /\ node(i).dependencies = depIds(i)
  BY NodeIsMade
<1>7. IsNode(merging) /\ merging.role = "synthesizer" /\ merging.dependencies = Ids(roots)
  BY NodeIsMade
<1> HIDE DEF node, merging, cleaned
<1>8. DOMAIN nodes = 1..n /\ nodes = [i \in 1..n |-> nodes[i]] /\ \A i \in 1..n : nodes[i] = node(i)
  BY <1>3
<1>9. 1 \in DOMAIN nodes /\ Inward(nodes)
  BY <1>3, <1>5, <1>6, <1>8 DEF Inward
<1>10. CASE ~unmerged
  BY <1>1, <1>9, <1>10 DEF HasSynthesis
<1>11. CASE unmerged
  <2>1. \A d \in Range(Ids(roots)) : \E i \in DOMAIN nodes : nodes[i].id = d
    <3> DEFINE listed == { nodes[i] : i \in DOMAIN nodes }
    <3>1. places \in SUBSET (1..n) /\ \A i \in places : nodes[i] \in listed
      BY <1>8
    <3> HIDE DEF places, nodes, listed
    <3>2. \A k \in DOMAIN roots : roots[k] \in listed
      BY <3>1, AllPicked
    <3>3. Range(Ids(roots)) = { roots[k].id : k \in DOMAIN roots }
      BY DEF Ids, Range
    <3>4. QED BY <3>2, <3>3 DEF listed
  <2> HIDE DEF roots, places, nodes
  <2> DEFINE longer == Append(nodes, merging)
  <2>2. nodes \in Seq({nodes[i] : i \in 1..n} \cup {merging}) /\ Len(nodes) = n
    BY <1>8
  <2>3. DOMAIN longer = 1..(n + 1) /\ longer[n + 1] = merging /\ \A i \in 1..n : longer[i] = nodes[i]
    BY <2>2, AppendProperties
  <2> HIDE DEF longer
  <2>4. /\ \A i \in 1..(n + 1) : i \in 1..n \/ i = n + 1
        /\ \A i \in 1..n : i \in 1..(n + 1)
        /\ n + 1 \in 1..(n + 1) /\ 1 \in 1..(n + 1)
    OBVIOUS
  <2>5. HasSynthesis(longer)
    BY <1>7, <2>3, <2>4 DEF HasSynthesis
  <2>6. Inward(longer)
    <3>1. SUFFICES ASSUME NEW i \in 1..(n + 1), NEW d \in Range(longer[i].dependencies)
                   PROVE  \E j \in 1..(n + 1) : longer[j].id = d
      BY <2>3 DEF Inward
    <3>2. CASE i \in 1..n
      BY <1>8, <1>9, <2>3, <2>4, <3>1, <3>2 DEF Inward
    <3>3. CASE i = n + 1
      BY <1>7, <1>8, <2>1, <2>3, <2>4, <3>1, <3>3
    <3>4. QED BY <2>4, <3>2, <3>3
  <2>7. 1 \in DOMAIN longer
    BY <2>3, <2>4
  <2>8. QED BY <1>1, <1>11, <2>5, <2>6, <2>7 DEF longer
<1>12. QED BY <1>10, <1>11

\* The shapes the code lays out itself are valid, and a model's lacks at most
\* an order and different ids.
LEMMA SkeletonIsSound ==
  ASSUME NEW class, NEW mode \in Strategies, NEW questions \in QuestionCounts,
         NEW raw \in RawReplies
  PROVE  LET skeleton == buildSkeleton(class, mode, questions, raw)
         IN  /\ NodeList(skeleton.nodes) /\ 1 \in DOMAIN skeleton.nodes
             /\ skeleton.by # "llm" => Ordered(skeleton.nodes)
             /\ skeleton.by = "llm" => Inward(skeleton.nodes) /\ HasSynthesis(skeleton.nodes)
<1> DEFINE skeleton == buildSkeleton(class, mode, questions, raw)
           single   == [nodes |-> buildSingleNode(class), by |-> "single"]
           research == [nodes |-> decomposeResearch(questions, mode), by |-> "pipeline"]
           piped    == [nodes |-> fromPipeline(ROLE_PIPELINES[class.taskType],
                                               class.complexity, mode),
                        by |-> "pipeline"]
           modelled == [nodes |-> normalizeLlmNodes(raw), by |-> "llm"]
<1>1. \/ skeleton = single \/ skeleton = research
      \/ raw # <<>> /\ skeleton = modelled
      \/ HasPipeline(class.taskType) /\ skeleton = piped
  BY DEF buildSkeleton
<1>2. CASE skeleton = single
  BY <1>2, SingleOrdered
<1>3. CASE skeleton = research
  BY <1>3, ResearchOrdered, LayersAssumption
<1>4. CASE raw # <<>> /\ skeleton = modelled
  BY <1>4, NormalizedIsList, Normalized
<1>5. CASE HasPipeline(class.taskType) /\ skeleton = piped
  <2>1. IsPipeline(ROLE_PIPELINES[class.taskType])
    BY <1>5, PipelineShape DEF HasPipeline
  <2>2. NodeList(piped.nodes) /\ Ordered(piped.nodes) /\ 1 \in DOMAIN piped.nodes
    BY <2>1, PipelineOrdered
  <2>3. QED BY <1>5, <2>2
<1>6. QED BY <1>1, <1>2, <1>3, <1>4, <1>5

\* A model's decomposition of several nodes has a synthesis.
HasSynthesisIfModelled(planned) == planned.by = "llm" => HasSynthesis(planned.nodes)

\* The inductive form of OnlyCyclesAndTwinsRejected.
RejectInv ==
  /\ LayoutInv
  /\ rejected \subseteq {"CYCLE", "DUPLICATE_ID"}
  /\ rejected # {} => decomposition.by = "llm"
  /\ decomposition # Unset \/ stage \in Later => HasSynthesisIfModelled(decomposition)

LEMMA DecomposeRejects ==
  ASSUME LayoutInv, Decompose
  PROVE  /\ rejected' \subseteq {"CYCLE", "DUPLICATE_ID"}
         /\ rejected' # {} => decomposition'.by = "llm"
         /\ HasSynthesisIfModelled(decomposition')
<1>1. PICK questions \in QuestionCounts, raw \in RawReplies :
        LET skeleton == buildSkeleton(classification, strategy, questions, raw)
            nodes    == finalize(skeleton.nodes)
        IN  /\ decomposition' = [nodes |-> nodes, by |-> skeleton.by]
            /\ rejected' = validate(nodes, {}, Circular(nodes))
  BY DEF Decompose
<1> DEFINE skeleton == buildSkeleton(classification, strategy, questions, raw)
           laid     == skeleton.nodes
           nodes    == finalize(laid)
<1>2. strategy \in Strategies
  BY DEF LayoutInv
<1>3. /\ NodeList(laid) /\ 1 \in DOMAIN laid
      /\ skeleton.by # "llm" => Ordered(laid)
      /\ skeleton.by = "llm" => Inward(laid) /\ HasSynthesis(laid)
  BY <1>2, SkeletonIsSound
<1>4. /\ decomposition' = [nodes |-> nodes, by |-> skeleton.by]
      /\ rejected' = validate(nodes, {}, Circular(nodes))
  BY <1>1
<1> HIDE DEF skeleton, laid
<1>5. NodeList(nodes) /\ Alike(laid, nodes)
  BY <1>3, FinalizedKeeps
<1> HIDE DEF nodes
<1>6. IsList(laid) /\ IsList(nodes) /\ 1 \in DOMAIN nodes
  BY <1>3, <1>5 DEF NodeList, Alike
<1>7. /\ Ordered(laid) => Ordered(nodes)
      /\ Inward(laid) => Inward(nodes)
      /\ HasSynthesis(laid) => HasSynthesis(nodes)
  BY <1>5, <1>6, AlikeKeeps
<1>8. CASE skeleton.by # "llm"
  <2>1. rejected' = {}
    BY <1>3, <1>4, <1>6, <1>7, <1>8, OrderedIsValid
  <2>2. QED BY <1>4, <1>8, <2>1 DEF HasSynthesisIfModelled
<1>9. CASE skeleton.by = "llm"
  <2>1. ~Missing(nodes, {})
    BY <1>3, <1>7, <1>9, InwardMissesNothing
  <2>2. nodes # <<>>
    BY <1>6
  <2>3. validate(nodes, {}, Circular(nodes)) \subseteq {"CYCLE", "DUPLICATE_ID"}
    BY <2>1, <2>2 DEF validate
  <2>4. QED BY <1>3, <1>4, <1>7, <1>9, <2>3 DEF HasSynthesisIfModelled
<1>10. QED BY <1>8, <1>9

LEMMA PlanRejects ==
  ASSUME RejectInv, Plan
  PROVE  /\ rejected' = rejected /\ decomposition'.by = decomposition.by
         /\ HasSynthesisIfModelled(decomposition')
<1> DEFINE nodes == Routed(decomposition.nodes, strategy')
<1>1. LaidOut(decomposition) /\ HasSynthesisIfModelled(decomposition) /\ LayoutInv
  BY DEF RejectInv, LayoutInv, Plan, Later
<1>2. decomposition' = [decomposition EXCEPT !.nodes = Routed(@, strategy')]
  BY <1>1, PlanChooses
<1>3. decomposition' = [nodes |-> nodes, by |-> decomposition.by]
  BY <1>1, <1>2 DEF LaidOut
<1>4. NodeList(nodes) /\ Alike(decomposition.nodes, nodes)
  BY <1>1, RoutedKeeps DEF LaidOut
<1> HIDE DEF nodes
<1>5. HasSynthesis(decomposition.nodes) => HasSynthesis(nodes)
  BY <1>1, <1>4, AlikeKeeps DEF LaidOut, NodeList
<1>6. rejected' = rejected
  BY DEF Plan
<1>7. QED BY <1>1, <1>3, <1>5, <1>6 DEF HasSynthesisIfModelled

LEMMA StepKeepsRejects ==
  ASSUME RejectInv, [Next]_vars
  PROVE  RejectInv'
<1>1. LayoutInv'
  BY StepKeepsLayout DEF RejectInv
<1>2. CASE Decompose
  BY <1>1, <1>2, DecomposeRejects DEF RejectInv
<1>3. CASE Plan
  BY <1>1, <1>3, PlanRejects DEF RejectInv
<1>4. ASSUME UNCHANGED <<decomposition, rejected>>, stage' \in Later => stage \in Later
      PROVE  RejectInv'
  BY <1>1, <1>4 DEF RejectInv
<1>5. CASE ClassifyByRules BY <1>4, <1>5 DEF ClassifyByRules, Later
<1>6. CASE ClassifyInCloud BY <1>4, <1>6 DEF ClassifyInCloud, Later
<1>7. CASE StartExecution BY <1>4, <1>7 DEF StartExecution, Later
<1>8. CASE Execute BY <1>4, <1>8 DEF Execute, Later
<1>9. CASE DetectConflicts BY <1>4, <1>9 DEF DetectConflicts, Later
<1>10. CASE Aggregate BY <1>4, <1>10 DEF Aggregate, Later
<1>11. CASE Verify BY <1>4, <1>11 DEF Verify, Later
<1>12. CASE SkipVerification BY <1>4, <1>12 DEF SkipVerification, Later
<1>13. CASE Over \/ UNCHANGED vars BY <1>4, <1>13 DEF Over, vars
<1>14. QED BY <1>2, <1>3, <1>5, <1>6, <1>7, <1>8, <1>9, <1>10, <1>11, <1>12, <1>13 DEF Next

\* Of what a model proposes, DAG.validate has only circles and repeated ids
\* left to reject, and it never rejects a shape the code laid out itself; and
\* several nodes of a model always have a synthesis (decomposer.ts:282-336).
THEOREM OnlyCyclesAndTwinsAlwaysRejected == Spec => []OnlyCyclesAndTwinsRejected
<1>1. Init => RejectInv
  BY LayoutAtFirst DEF Init, RejectInv, Later
<1>2. RejectInv /\ [Next]_vars => RejectInv'
  BY StepKeepsRejects
<1>3. RejectInv => OnlyCyclesAndTwinsRejected
  BY DEF RejectInv, HasSynthesisIfModelled, HasSynthesis, OnlyCyclesAndTwinsRejected
<1>4. QED BY <1>1, <1>2, <1>3, PTL DEF Spec

-----------------------------------------------------------------------------
(* DagLoops: the lists the class is given.                                *)

\* A list of nodes has a last one with each of its ids.
LEMMA LastPlace ==
  ASSUME NEW n \in Nat, NEW places, places \subseteq 1..n, places # {}
  PROVE  \E i \in places : \A j \in places : j <= i
<1> DEFINE back == { n - i : i \in places }
<1>1. back \subseteq Nat /\ back # {}
  <2>1. \A i \in places : n - i \in Nat
    OBVIOUS
  <2>2. QED BY <2>1
<1>2. PICK least \in back : \A other \in back : <<other, least>> \notin OpToRel(<, Nat)
  BY <1>1, WFMin, NatLessThanWellFounded
<1>3. \A other \in back : ~(other < least)
  BY <1>1, <1>2 DEF OpToRel
<1>4. PICK i \in places : least = n - i
  OBVIOUS
<1>5. ASSUME NEW j \in places
      PROVE  j <= i
  <2>1. ~(n - j < n - i)
    BY <1>3, <1>4
  <2>2. QED BY <2>1
<1>6. QED BY <1>5

LEMMA ListsAreSequences ==
  ASSUME NEW nodes \in NodeLists
  PROVE  /\ Len(nodes) \in Nat /\ DOMAIN nodes = 1..Len(nodes)
         /\ nodes = <<>> <=> Len(nodes) = 0
         /\ \A i \in DOMAIN nodes :
              LET deps == nodes[i].dependencies
              IN  Len(deps) \in Nat /\ DOMAIN deps = 1..Len(deps)
<1>1. nodes \in Seq(Range(nodes))
  BY LoopsAssumption
<1>2. \A i \in DOMAIN nodes : nodes[i].dependencies \in Seq(Range(nodes[i].dependencies))
  BY LoopsAssumption
<1>3. Len(nodes) \in Nat /\ DOMAIN nodes = 1..Len(nodes) /\ (nodes = <<>> <=> Len(nodes) = 0)
  BY <1>1
<1>4. QED BY <1>2, <1>3

LEMMA NodeIsThere ==
  ASSUME NEW nodes \in NodeLists, NEW id \in Known(nodes)
  PROVE  \E i \in 1..Len(nodes) : NodeOf(nodes, id) = nodes[i] /\ nodes[i].id = id
<1> DEFINE places == { i \in DOMAIN nodes : nodes[i].id = id }
<1>1. Len(nodes) \in Nat /\ DOMAIN nodes = 1..Len(nodes)
  BY ListsAreSequences
<1>2. places \subseteq 1..Len(nodes) /\ places # {}
  BY <1>1 DEF Known, Ids, Range
<1>3. \E i \in places : \A j \in places : j <= i
  <2> HIDE DEF places
  <2>1. QED BY <1>1, <1>2, LastPlace
<1>4. \E i \in DOMAIN nodes :
        nodes[i].id = id /\ \A j \in DOMAIN nodes : nodes[j].id = id => j <= i
  BY <1>3
<1>5. QED BY <1>1, <1>4 DEF NodeOf

LEMMA NodesAreKnown ==
  ASSUME NEW nodes \in NodeLists
  PROVE  /\ Len(nodes) \in Nat /\ DOMAIN nodes = 1..Len(nodes)
         /\ \A i \in 1..Len(nodes) : nodes[i].id \in Known(nodes)
         /\ \A id \in Known(nodes) : \E i \in 1..Len(nodes) : nodes[i].id = id
BY ListsAreSequences DEF Known, Ids, Range

LEMMA DepsAreListed ==
  ASSUME NEW nodes \in NodeLists, NEW id \in Known(nodes)
  PROVE  LET deps == NodeOf(nodes, id).dependencies
         IN  /\ Len(deps) \in Nat
             /\ DepSets(nodes)[id] = { deps[k] : k \in 1..Len(deps) }
<1>1. PICK i \in 1..Len(nodes) : NodeOf(nodes, id) = nodes[i]
  BY NodeIsThere
<1>2. i \in DOMAIN nodes
  BY ListsAreSequences
<1>3. QED BY <1>1, <1>2, ListsAreSequences DEF DepSets, Range

-----------------------------------------------------------------------------
(* findCycle.                                                              *)

Asked(id) == NodeOf(subtasks, id).dependencies

SearchType ==
  /\ subtasks \in NodeLists
  /\ colour \in [Known(subtasks) -> {"new", "visiting", "done"}]
  /\ looked \in [Known(subtasks) -> Nat]
  /\ visited \in 0..Len(subtasks)
  /\ path \in Seq(Known(subtasks)) /\ calls = path

\* The path is what is being visited, each id once, from node to dependency.
PathInv ==
  /\ \A i, j \in 1..Len(path) : path[i] = path[j] => i = j
  /\ \A id \in Known(subtasks) : colour[id] = "visiting" <=> \E i \in 1..Len(path) : path[i] = id
  /\ \A i \in 1..(Len(path) - 1) : path[i + 1] \in DepSets(subtasks)[path[i]]

Onward(seq, id, d) == \E i \in 1..(Len(seq) - 1) : seq[i] = id /\ seq[i + 1] = d
DoneIds == { id \in Known(subtasks) : colour[id] = "done" }

\* What is done depends on what is done, and has no cycle; what was looked at is
\* done, or next on the path; what was visited is done, or first on the path.
DoneInv ==
  /\ \A id \in DoneIds : DepSets(subtasks)[id] \cap Known(subtasks) \subseteq DoneIds
  /\ Acyclic(DoneIds, DepSets(subtasks))
  /\ \A id \in Known(subtasks), k \in Nat :
       k \in 1..looked[id] /\ Asked(id)[k] \in Known(subtasks) =>
         Asked(id)[k] \in DoneIds \/ Onward(path, id, Asked(id)[k])
  /\ \A i \in 1..visited :
       subtasks[i].id \in DoneIds \/ (path # <<>> /\ path[1] = subtasks[i].id)

SearchInv ==
  /\ SearchType
  /\ cycle = <<>> => PathInv /\ DoneInv
  /\ cycle # <<>> => IsCycle(cycle)

\* The end of a sequence, and one more.
LEMMA EndAndOneMore ==
  ASSUME NEW S, NEW seq \in Seq(S), NEW from \in 1..Len(seq), NEW one \in S,
         NEW m, m = Len(seq) - from + 1,
         NEW closed, closed = Append(SubSeq(seq, from, Len(seq)), one)
  PROVE  /\ Len(closed) = m + 1 /\ closed[m + 1] = one
         /\ \A i \in 1..m : closed[i] = seq[from + i - 1]
<1> DEFINE part == SubSeq(seq, from, Len(seq))
<1> DEFINE n == Len(seq)
<1>1. n \in Nat /\ from \in 1..n /\ \A i \in from..n : seq[i] \in S
  OBVIOUS
<1> HIDE DEF n
<1>2. m \in Nat /\ from <= n /\ m = n - from + 1 /\ from \in Int /\ n \in Int
  BY <1>1 DEF n
<1>3. part \in Seq(S) /\ Len(part) = m /\ \A i \in 1..m : part[i] = seq[from + i - 1]
  BY <1>1, <1>2, SubSeqProperties DEF n
<1> HIDE DEF part
<1>4. closed = Append(part, one)
  BY DEF part
<1>5. Len(closed) = m + 1 /\ closed[m + 1] = one /\ \A i \in 1..m : closed[i] = part[i]
  <2>1. /\ Len(closed) = Len(part) + 1
        /\ \A i \in 1..Len(part) : closed[i] = part[i]
        /\ closed[Len(part) + 1] = one
    <3>1. part \in Seq(S) /\ one \in S
      BY <1>3
    <3>2. QED BY ONLY <3>1, <1>4, AppendProperties
  <2>2. QED BY <1>3, <2>1
<1>6. QED BY <1>3, <1>5

\* The ids from where an id is on the path to its end, and the id again.
LEMMA PathClosesCycle ==
  ASSUME SearchType, PathInv, NEW id \in Known(subtasks), colour[id] = "visiting",
         path # <<>> => id \in DepSets(subtasks)[path[Len(path)]],
         NEW from, from = CHOOSE i \in DOMAIN path : path[i] = id,
         NEW closed, closed = Append(SubSeq(path, from, Len(path)), id)
  PROVE  closed # <<>> /\ IsCycle(closed)
<1> DEFINE n == Len(path)
<1>1. n \in Nat /\ DOMAIN path = 1..n /\ \A i \in 1..n : path[i] \in Known(subtasks)
  BY DEF SearchType
<1>2. from \in 1..n /\ path[from] = id
  BY <1>1 DEF PathInv
<1>3. id \in DepSets(subtasks)[path[n]]
  BY <1>1, <1>2
<1> DEFINE m == n - from + 1
<1>4. m \in Nat /\ m >= 1 /\ from \in Nat /\ from - 1 + m = n
  BY <1>1, <1>2
<1>6. /\ Len(closed) = m + 1 /\ closed[m + 1] = id
      /\ \A i \in 1..m : closed[i] = path[from + i - 1]
  <2>1. path \in Seq(Known(subtasks))
    BY DEF SearchType
  <2>2. from \in 1..Len(path)
    BY <1>2
  <2> HIDE DEF m
  <2>3. m = Len(path) - from + 1
    BY DEF m
  <2> HIDE DEF n
  <2>4. \A i \in 1..m : closed[i] = path[from + i - 1]
    BY <2>1, <2>2, <2>3, EndAndOneMore
  <2>5. Len(closed) = m + 1 /\ closed[m + 1] = id
    BY <2>1, <2>2, <2>3, EndAndOneMore
  <2>6. QED BY <2>4, <2>5
<1> HIDE DEF n, m
<1>7. closed[1] = id
  <2>1. 1 \in 1..m /\ from + 1 - 1 = from
    BY <1>4
  <2>2. QED BY <1>2, <1>6, <2>1
<1>8. \A i \in 1..m : from + i - 1 \in 1..n
  BY <1>1, <1>2, <1>4
<1>9. \A i, j \in 1..m : closed[i] = closed[j] => i = j
  <2>1. \A i, j \in 1..n : path[i] = path[j] => i = j
    BY DEF PathInv, n
  <2>2. SUFFICES ASSUME NEW i \in 1..m, NEW j \in 1..m, closed[i] = closed[j] PROVE i = j
    OBVIOUS
  <2>3. from + i - 1 = from + j - 1
    <3> DEFINE k == from + i - 1
               l == from + j - 1
    <3>1. k \in 1..n /\ l \in 1..n /\ path[k] = path[l]
      BY <1>6, <1>8, <2>2
    <3> HIDE DEF k, l
    <3>2. k = l
      BY <2>1, <3>1
    <3>3. QED BY <3>2 DEF k, l
  <2>4. i \in Nat /\ j \in Nat
    BY <1>4
  <2>5. QED BY <1>4, <2>3, <2>4
<1>10. ASSUME NEW i \in 1..m
       PROVE  closed[i] \in Known(subtasks) /\ closed[i + 1] \in DepSets(subtasks)[closed[i]]
  <2>1. closed[i] = path[from + i - 1] /\ closed[i] \in Known(subtasks)
    BY <1>1, <1>6, <1>8
  <2>2. CASE i = m
    <3>1. from + i - 1 = n
      BY <1>4, <2>2
    <3>2. QED BY <1>3, <1>6, <2>1, <2>2, <3>1
  <2>3. CASE i # m
    <3>1. i + 1 \in 1..m /\ from + i - 1 \in 1..(n - 1) /\ from + (i + 1) - 1 = (from + i - 1) + 1
      BY <1>1, <1>2, <1>4, <2>3
    <3>2. closed[i + 1] = path[(from + i - 1) + 1]
      BY <1>6, <3>1
    <3>3. \A k \in 1..(n - 1) : path[k + 1] \in DepSets(subtasks)[path[k]]
      BY DEF PathInv, n
    <3>4. QED BY <2>1, <3>1, <3>2, <3>3
  <2>4. QED BY <2>2, <2>3
<1>11. Len(closed) - 1 = m /\ Len(closed) > 1 /\ closed[1] = closed[Len(closed)]
  <2>1. Len(closed) = m + 1 /\ m \in Nat /\ m >= 1
    BY <1>4, <1>6, Zenon
  <2>2. Len(closed) - 1 = m /\ Len(closed) > 1
    BY ONLY <2>1
  <2>3. closed[Len(closed)] = closed[m + 1]
    BY <2>1, Zenon
  <2>4. QED BY <1>6, <1>7, <2>2, <2>3, Zenon
<1>12. IsCycle(closed)
  <2>1. \A i, j \in 1..(Len(closed) - 1) : closed[i] = closed[j] => i = j
    BY <1>9, <1>11, Zenon
  <2>2. \A i \in 1..(Len(closed) - 1) :
          closed[i] \in Known(subtasks) /\ closed[i + 1] \in DepSets(subtasks)[closed[i]]
    BY <1>10, <1>11, Zenon
  <2>3. QED BY <1>11, <2>1, <2>2, Zenon DEF IsCycle
<1>13. QED BY <1>4, <1>6, <1>12

\* What visit(id) does, called for a node of the list with an empty path, or
\* for a dependency of the last on the path.
LEMMA VisitKeepsPath ==
  ASSUME SearchType, PathInv, cycle = <<>>, NEW id \in Known(subtasks), visit(id),
         path # <<>> => id \in DepSets(subtasks)[path[Len(path)]],
         UNCHANGED subtasks
  PROVE  /\ colour' \in [Known(subtasks) -> {"new", "visiting", "done"}]
         /\ path' \in Seq(Known(subtasks)) /\ calls' = path'
         /\ cycle' # <<>> => IsCycle(cycle)'
         /\ cycle' = <<>> => /\ PathInv' /\ DoneIds' = DoneIds
                             /\ (id \in DoneIds /\ path' = path) \/ path' = Append(path, id)
<1>1. CASE colour[id] = "done" /\ UNCHANGED <<colour, calls, path, cycle>>
  BY <1>1 DEF SearchType, PathInv, DoneIds
<1>2. CASE /\ colour[id] = "visiting"
           /\ LET from == CHOOSE i \in DOMAIN path : path[i] = id
              IN  cycle' = Append(SubSeq(path, from, Len(path)), id)
           /\ UNCHANGED <<colour, calls, path>>
  <2>1. cycle' # <<>> /\ IsCycle(cycle')
    BY <1>2, PathClosesCycle
  <2>2. IsCycle(cycle)'
    BY <2>1 DEF IsCycle
  <2>3. QED BY <1>2, <2>1, <2>2 DEF SearchType
<1>3. CASE /\ colour[id] = "new"
           /\ colour' = [colour EXCEPT ![id] = "visiting"]
           /\ calls' = Append(calls, id) /\ path' = Append(path, id)
           /\ UNCHANGED cycle
  <2> DEFINE n == Len(path)
  <2>1. n \in Nat /\ \A i \in 1..n : path[i] \in Known(subtasks)
    BY DEF SearchType
  <2>2. /\ path' \in Seq(Known(subtasks)) /\ Len(path') = n + 1
        /\ path'[n + 1] = id /\ \A i \in 1..n : path'[i] = path[i]
    BY <1>3 DEF SearchType
  <2>3. /\ colour' \in [Known(subtasks) -> {"new", "visiting", "done"}]
        /\ colour'[id] = "visiting" /\ \A other \in Known(subtasks) \ {id} : colour'[other] = colour[other]
    BY <1>3 DEF SearchType
  <2> HIDE DEF n
  <2>4. \A i \in 1..n : path[i] # id
    BY <1>3, <2>1 DEF PathInv, n
  <2>5. \A i \in 1..(n + 1) : i \in 1..n \/ i = n + 1
    BY <2>1
  <2>6. \A i, j \in 1..(n + 1) : path'[i] = path'[j] => i = j
    <3>1. \A i, j \in 1..n : path[i] = path[j] => i = j
      BY DEF PathInv, n
    <3> HIDE DEF PathInv
    <3>2. QED BY <2>2, <2>4, <2>5, <3>1
  <2>7. ASSUME NEW other \in Known(subtasks)
        PROVE  colour'[other] = "visiting" <=> \E i \in 1..(n + 1) : path'[i] = other
    <3>1. n + 1 \in 1..(n + 1) /\ \A i \in 1..n : i \in 1..(n + 1)
      BY <2>1
    <3>2. CASE other = id
      BY <2>2, <2>3, <3>1, <3>2
    <3>3. CASE other # id
      <4>1. colour[other] = "visiting" <=> \E i \in 1..n : path[i] = other
        BY DEF PathInv, n
      <4>2. QED BY <2>2, <2>3, <2>5, <3>1, <3>3, <4>1
    <3>4. QED BY <3>2, <3>3
  <2>8. ASSUME NEW i \in 1..n
        PROVE  path'[i + 1] \in DepSets(subtasks)[path'[i]]
    <3>1. CASE i = n
      <4>1. path # <<>>
        BY <2>1, <3>1 DEF n
      <4>2. QED BY <2>2, <3>1, <4>1 DEF n
    <3>2. CASE i # n
      <4>1. i \in 1..(n - 1) /\ i + 1 \in 1..n
        BY <2>1, <3>2
      <4>2. path[i + 1] \in DepSets(subtasks)[path[i]]
        BY <4>1 DEF PathInv, n
      <4>3. QED BY <2>2, <4>1, <4>2
    <3>3. QED BY <3>1, <3>2
  <2>9. PathInv'
    <3>1. Len(path') - 1 = n /\ Known(subtasks)' = Known(subtasks)
          /\ DepSets(subtasks)' = DepSets(subtasks)
      BY <2>1, <2>2
    <3>2. QED BY <2>2, <2>6, <2>7, <2>8, <3>1 DEF PathInv
  <2>10. DoneIds' = DoneIds
    BY <1>3, <2>3 DEF DoneIds
  <2>11. QED BY <1>3, <2>2, <2>3, <2>9, <2>10 DEF SearchType
<1>4. QED BY <1>1, <1>2, <1>3 DEF visit

\* Appending to the path leaves what was on it where it was.
LEMMA PathGrows ==
  ASSUME NEW d \in Known(subtasks), path \in Seq(Known(subtasks)), path # <<>>,
         path' = path \/ path' = Append(path, d)
  PROVE  /\ path' # <<>> /\ path'[1] = path[1]
         /\ \A x, y : Onward(path, x, y) => Onward(path', x, y)
         /\ path' = Append(path, d) => Onward(path', path[Len(path)], d)
<1> DEFINE n == Len(path)
<1>1. n \in Nat /\ n >= 1
  OBVIOUS
<1>2. CASE path' = path
  <2>1. path # Append(path, d)
    <3>1. Len(Append(path, d)) = n + 1
      OBVIOUS
    <3>2. QED BY <1>1, <3>1
  <2>2. QED BY <1>2, <2>1 DEF Onward
<1>3. CASE path' = Append(path, d)
  <2>1. /\ path' # <<>> /\ Len(path') = n + 1 /\ path'[n + 1] = d
        /\ \A i \in 1..n : path'[i] = path[i]
    BY <1>3
  <2> HIDE DEF n
  <2>2. Len(path) - 1 = n - 1 /\ Len(path') - 1 = n
    BY <1>1, <2>1 DEF n
  <2>3. \A i \in 1..(n - 1) : i \in 1..n /\ i + 1 \in 1..n
    BY <1>1
  <2>4. path'[1] = path[1]
    <3>1. 1 \in 1..n
      BY <1>1
    <3>2. QED BY <2>1, <3>1
  <2>5. \A x, y : Onward(path, x, y) => Onward(path', x, y)
    BY <2>1, <2>2, <2>3 DEF Onward
  <2>6. Onward(path', path[n], d)
    <3>1. n \in 1..n
      BY <1>1
    <3>2. QED BY <2>1, <2>2, <3>1 DEF Onward
  <2>7. QED BY <2>1, <2>4, <2>5, <2>6 DEF n
<1>4. QED BY <1>2, <1>3

LEMMA VisitNextKeepsSearch ==
  ASSUME SearchInv, VisitNext
  PROVE  SearchInv'
<1> DEFINE id == subtasks[visited + 1].id
<1>1. /\ SearchType /\ PathInv /\ DoneInv /\ cycle = <<>> /\ path = <<>>
      /\ visited' = visited + 1 /\ visit(id)
      /\ UNCHANGED <<subtasks, looked>>
  BY DEF SearchInv, VisitNext, Searching, SearchType
<1>2. /\ visited \in Nat /\ visited + 1 \in 1..Len(subtasks) /\ Len(subtasks) \in Nat
      /\ visited' \in 0..Len(subtasks)
  BY NodesAreKnown DEF SearchInv, SearchType, VisitNext
<1>3. id \in Known(subtasks)
  BY <1>1, <1>2, NodesAreKnown DEF SearchType
<1> HIDE DEF id
<1>4. /\ colour' \in [Known(subtasks) -> {"new", "visiting", "done"}]
      /\ path' \in Seq(Known(subtasks)) /\ calls' = path'
      /\ cycle' # <<>> => IsCycle(cycle)'
      /\ cycle' = <<>> => /\ PathInv' /\ DoneIds' = DoneIds
                          /\ (id \in DoneIds /\ path' = path) \/ path' = Append(path, id)
  BY <1>1, <1>3, VisitKeepsPath
<1>5. SearchType'
  BY <1>1, <1>2, <1>4 DEF SearchType
<1>6. ASSUME cycle' = <<>>
      PROVE  DoneInv'
  <2>1. \A x, y : ~Onward(path, x, y)
    BY <1>1 DEF Onward
  <2>2. DoneIds' = DoneIds /\ \A x : Asked(x)' = Asked(x)
    BY <1>1, <1>4, <1>6 DEF Asked
  <2>3. \A i \in 1..visited : subtasks[i].id \in DoneIds
    BY <1>1 DEF DoneInv
  <2>4. id \in DoneIds' \/ (path' # <<>> /\ path'[1] = id)
    BY <1>1, <1>3, <1>4, <1>6
  <2>5. \A i \in 1..visited' :
          subtasks'[i].id \in DoneIds' \/ (path' # <<>> /\ path'[1] = subtasks'[i].id)
    <3>1. \A i \in 1..visited' : i \in 1..visited \/ i = visited + 1
      BY <1>1, <1>2
    <3>2. QED BY <1>1, <2>2, <2>3, <2>4, <3>1 DEF id
  <2>6. \A x \in Known(subtasks)', k \in Nat :
          k \in 1..looked'[x] /\ Asked(x)'[k] \in Known(subtasks)' => Asked(x)'[k] \in DoneIds'
    BY <1>1, <2>1, <2>2 DEF DoneInv
  <2>7. /\ \A x \in DoneIds' : DepSets(subtasks)'[x] \cap Known(subtasks)' \subseteq DoneIds'
        /\ Acyclic(DoneIds', DepSets(subtasks)')
    BY <1>1, <2>2 DEF DoneInv
  <2>8. QED BY <2>5, <2>6, <2>7 DEF DoneInv
<1>7. QED BY <1>4, <1>5, <1>6 DEF SearchInv

LEMMA LookAtNextKeepsSearch ==
  ASSUME SearchInv, LookAtNext
  PROVE  SearchInv'
<1> DEFINE id == Last(calls)
           deps == Asked(id)
           k == looked[id] + 1
           d == deps[k]
<1>1. /\ SearchType /\ PathInv /\ DoneInv /\ cycle = <<>> /\ path # <<>> /\ calls = path
      /\ UNCHANGED <<subtasks, visited>>
  BY DEF SearchInv, LookAtNext, Searching, SearchType
<1>2. /\ looked[id] < Len(deps) /\ looked' = [looked EXCEPT ![id] = @ + 1]
      /\ \/ d \in Known(subtasks) /\ visit(d)
         \/ d \notin Known(subtasks) /\ UNCHANGED <<colour, calls, path, cycle>>
  BY DEF LookAtNext, Asked
<1>3. path \in Seq(Known(subtasks)) /\ id = path[Len(path)] /\ id \in Known(subtasks)
  BY <1>1 DEF SearchType, Last
<1> HIDE DEF id
<1>4. Len(deps) \in Nat /\ DepSets(subtasks)[id] = { deps[i] : i \in 1..Len(deps) }
  BY <1>1, <1>3, DepsAreListed DEF SearchType, Asked
<1>5. looked \in [Known(subtasks) -> Nat] /\ looked[id] \in Nat
  BY <1>1, <1>3 DEF SearchType
<1> HIDE DEF deps
<1>6. k \in 1..Len(deps) /\ d \in DepSets(subtasks)[id]
  BY <1>2, <1>4, <1>5
<1>7. /\ looked' \in [Known(subtasks) -> Nat] /\ looked'[id] = k
      /\ \A x \in Known(subtasks) \ {id} : looked'[x] = looked[x]
  BY <1>2, <1>3, <1>5
<1>8. k \in Nat /\ \A i \in 1..k : i \in 1..looked[id] \/ i = k
  BY <1>5
<1> HIDE DEF k, d
<1>9. Known(subtasks)' = Known(subtasks) /\ DepSets(subtasks)' = DepSets(subtasks)
      /\ \A x : Asked(x)' = Asked(x)
  BY <1>1 DEF Asked
\* What is known of the path and of the ids done is enough for the rest.
<1>10. ASSUME DoneIds' = DoneIds, path' # <<>>, path'[1] = path[1],
              \A x, y : Onward(path, x, y) => Onward(path', x, y),
              d \in Known(subtasks) => d \in DoneIds \/ Onward(path', id, d)
       PROVE  DoneInv'
  <2>1. ASSUME NEW x \in Known(subtasks), NEW i \in Nat, i \in 1..looked'[x],
               Asked(x)[i] \in Known(subtasks)
        PROVE  Asked(x)[i] \in DoneIds \/ Onward(path', x, Asked(x)[i])
    <3>1. CASE i \in 1..looked[x]
      <4>1. Asked(x)[i] \in DoneIds \/ Onward(path, x, Asked(x)[i])
        BY <1>1, <2>1, <3>1 DEF DoneInv
      <4>2. QED BY <1>10, <4>1
    <3>2. CASE i \notin 1..looked[x]
      <4>1. x = id /\ i = k
        BY <1>7, <1>8, <2>1, <3>2
      <4>2. Asked(x)[i] = d
        BY <4>1 DEF d, deps
      <4>3. QED BY <1>10, <2>1, <4>1, <4>2
    <3>3. QED BY <3>1, <3>2
  <2>2. \A i \in 1..visited' :
          subtasks'[i].id \in DoneIds' \/ (path' # <<>> /\ path'[1] = subtasks'[i].id)
    BY <1>1, <1>10 DEF DoneInv
  <2>3. /\ \A x \in DoneIds' : DepSets(subtasks)'[x] \cap Known(subtasks)' \subseteq DoneIds'
        /\ Acyclic(DoneIds', DepSets(subtasks)')
    BY <1>1, <1>9, <1>10 DEF DoneInv
  <2>4. QED BY <1>9, <1>10, <2>1, <2>2, <2>3 DEF DoneInv
<1>11. CASE d \in Known(subtasks) /\ visit(d)
  <2>1. /\ colour' \in [Known(subtasks) -> {"new", "visiting", "done"}]
        /\ path' \in Seq(Known(subtasks)) /\ calls' = path'
        /\ cycle' # <<>> => IsCycle(cycle)'
        /\ cycle' = <<>> => /\ PathInv' /\ DoneIds' = DoneIds
                            /\ (d \in DoneIds /\ path' = path) \/ path' = Append(path, d)
    BY <1>1, <1>3, <1>6, <1>11, VisitKeepsPath
  <2>2. SearchType'
    BY <1>1, <1>7, <1>9, <2>1 DEF SearchType
  <2>3. ASSUME cycle' = <<>>
        PROVE  DoneInv'
    <3>1. /\ path' # <<>> /\ path'[1] = path[1]
          /\ \A x, y : Onward(path, x, y) => Onward(path', x, y)
          /\ path' = Append(path, d) => Onward(path', id, d)
      BY <1>1, <1>3, <1>11, <2>1, <2>3, PathGrows
    <3>2. QED BY <1>10, <2>1, <2>3, <3>1
  <2>4. QED BY <2>1, <2>2, <2>3 DEF SearchInv
<1>12. CASE d \notin Known(subtasks) /\ UNCHANGED <<colour, calls, path, cycle>>
  <2>1. SearchType' /\ PathInv' /\ cycle' = <<>>
    BY <1>1, <1>7, <1>9, <1>12 DEF SearchType, PathInv
  <2>2. DoneIds' = DoneIds /\ \A x, y : Onward(path, x, y) => Onward(path', x, y)
    BY <1>9, <1>12 DEF DoneIds, Onward
  <2>3. DoneInv'
    BY <1>1, <1>10, <1>12, <2>2
  <2>4. QED BY <2>1, <2>3 DEF SearchInv
<1>13. QED BY <1>2, <1>11, <1>12

\* All of a sequence but its last.
LEMMA FrontOfSome ==
  ASSUME NEW S, NEW seq \in Seq(S), seq # <<>>
  PROVE  /\ Front(seq) \in Seq(S) /\ Len(Front(seq)) = Len(seq) - 1
         /\ \A i \in 1..(Len(seq) - 1) : Front(seq)[i] = seq[i]
<1> DEFINE n == Len(seq) - 1
<1>1. n \in Nat /\ 1 \in Int /\ n \in Int /\ \A i \in 1..n : seq[i] \in S
  OBVIOUS
<1> HIDE DEF n
<1>2. /\ SubSeq(seq, 1, n) \in Seq(S) /\ Len(SubSeq(seq, 1, n)) = n
      /\ \A i \in 1..n : SubSeq(seq, 1, n)[i] = seq[i]
  <2>1. /\ SubSeq(seq, 1, n) \in Seq(S) /\ Len(SubSeq(seq, 1, n)) = IF 1 <= n THEN n - 1 + 1 ELSE 0
        /\ \A i \in 1..(n - 1 + 1) : SubSeq(seq, 1, n)[i] = seq[1 + i - 1]
    BY <1>1, SubSeqProperties
  <2>2. n - 1 + 1 = n /\ \A i \in 1..n : 1 + i - 1 = i
    BY <1>1
  <2>3. QED BY <1>1, <2>1, <2>2
<1>3. QED BY <1>2 DEF Front, n

LEMMA ReturnKeepsSearch ==
  ASSUME SearchInv, Return
  PROVE  SearchInv'
<1> DEFINE id == Last(calls)
           deps == Asked(id)
           n == Len(path)
<1>1. /\ SearchType /\ PathInv /\ DoneInv /\ cycle = <<>> /\ path # <<>> /\ calls = path
      /\ UNCHANGED <<subtasks, visited, looked, cycle>>
  BY DEF SearchInv, Return, Searching, SearchType
<1>2. /\ looked[id] = Len(deps)
      /\ colour' = [colour EXCEPT ![id] = "done"]
      /\ calls' = Front(calls) /\ path' = Front(path)
  BY DEF Return, Asked
<1>3. path \in Seq(Known(subtasks)) /\ id = path[n] /\ id \in Known(subtasks)
  BY <1>1 DEF SearchType, Last
<1>4. n \in Nat /\ n >= 1
  BY <1>1, <1>3
<1>5. /\ path' \in Seq(Known(subtasks)) /\ Len(path') = n - 1 /\ calls' = path'
      /\ \A i \in 1..(n - 1) : path'[i] = path[i]
  BY <1>1, <1>2, <1>3, <1>4, FrontOfSome
<1> HIDE DEF n, id
<1>6. Len(deps) \in Nat /\ DepSets(subtasks)[id] = { deps[i] : i \in 1..Len(deps) }
  BY <1>1, <1>3, DepsAreListed DEF SearchType, Asked
<1>7. /\ colour' \in [Known(subtasks) -> {"new", "visiting", "done"}] /\ colour'[id] = "done"
      /\ \A x \in Known(subtasks) \ {id} : colour'[x] = colour[x]
  BY <1>1, <1>2, <1>3 DEF SearchType
<1>8. SearchType'
  BY <1>1, <1>5, <1>7 DEF SearchType
<1>9. n \in 1..n /\ \A i \in 1..n : i \in 1..(n - 1) \/ i = n
  BY <1>4
<1>10. /\ \A i \in 1..(n - 1) : i \in 1..n /\ i + 1 \in 1..n
       /\ \A i \in 1..(n - 2) : i \in 1..(n - 1) /\ i + 1 \in 1..(n - 1)
       /\ Len(path') - 1 = n - 2 /\ Len(path) - 1 = n - 1
  BY <1>4, <1>5 DEF n
<1>11. /\ \A i, j \in 1..n : path[i] = path[j] => i = j
       /\ \A x \in Known(subtasks) : colour[x] = "visiting" <=> \E i \in 1..n : path[i] = x
       /\ \A i \in 1..(n - 1) : path[i + 1] \in DepSets(subtasks)[path[i]]
  BY <1>1 DEF PathInv, n
<1>12. PathInv'
  <2>1. \A i \in 1..(n - 1) : path[i] # id
    <3>1. \A i \in 1..(n - 1) : i \in 1..n /\ i # n
      BY <1>4
    <3>2. QED BY <1>3, <1>9, <1>11, <3>1
  <2>2. ASSUME NEW x \in Known(subtasks)
        PROVE  colour'[x] = "visiting" <=> \E i \in 1..(n - 1) : path'[i] = x
    <3>1. CASE x = id
      BY <1>5, <1>7, <2>1, <3>1
    <3>2. CASE x # id
      <4>1. colour'[x] = colour[x] /\ \A i \in 1..n : path[i] = x => i \in 1..(n - 1)
        BY <1>3, <1>7, <1>9, <3>2
      <4>2. (\E i \in 1..n : path[i] = x) <=> \E i \in 1..(n - 1) : path'[i] = x
        BY <1>5, <1>10, <4>1
      <4>3. QED BY <1>11, <4>1, <4>2
    <3>3. QED BY <3>1, <3>2
  <2>3. \A i, j \in 1..(n - 1) : path'[i] = path'[j] => i = j
    BY <1>5, <1>10, <1>11
  <2>4. \A i \in 1..(n - 2) : path'[i + 1] \in DepSets(subtasks)[path'[i]]
    BY <1>5, <1>10, <1>11
  <2>5. QED BY <1>1, <1>5, <1>10, <2>2, <2>3, <2>4 DEF PathInv
<1>13. id \notin DoneIds /\ DoneIds' = DoneIds \cup {id} /\ DoneIds \subseteq Known(subtasks)
  <2>1. colour[id] = "visiting"
    BY <1>3, <1>9, <1>11
  <2>2. QED BY <1>1, <1>3, <1>7, <2>1 DEF DoneIds
<1>14. DepSets(subtasks)[id] \cap Known(subtasks) \subseteq DoneIds
  <2>1. ASSUME NEW k \in 1..Len(deps), deps[k] \in Known(subtasks)
        PROVE  deps[k] \in DoneIds
    <3>1. k \in Nat /\ k \in 1..looked[id]
      BY <1>2, <1>6
    <3>2. deps[k] \in DoneIds \/ Onward(path, id, deps[k])
      BY <1>1, <1>3, <2>1, <3>1 DEF DoneInv
    <3>3. ~Onward(path, id, deps[k])
      <4>1. \A i \in 1..(n - 1) : i \in 1..n /\ i # n
        BY <1>4
      <4>2. QED BY <1>3, <1>9, <1>10, <1>11, <4>1 DEF Onward
    <3>4. QED BY <3>2, <3>3
  <2>2. QED BY <1>6, <2>1
<1>15. \A x \in DoneIds : DepSets(subtasks)[x] \cap Known(subtasks) \subseteq DoneIds
  BY <1>1 DEF DoneInv
<1>16. Acyclic(DoneIds', DepSets(subtasks))
  <2>1. SUFFICES ASSUME NEW part \in SUBSET (DoneIds \cup {id}), part # {}
                 PROVE  \E x \in part : DepSets(subtasks)[x] \cap part = {}
    BY <1>13 DEF Acyclic
  <2>2. part \subseteq Known(subtasks)
    BY <1>3, <1>13
  <2>3. CASE part \cap DoneIds = {}
    <3>1. part = {id}
      BY <2>1, <2>3
    <3>2. DepSets(subtasks)[id] \cap part = {}
      BY <1>3, <1>13, <1>14, <3>1
    <3>3. QED BY <3>1, <3>2
  <2>4. CASE part \cap DoneIds # {}
    <3>1. PICK x \in part \cap DoneIds : DepSets(subtasks)[x] \cap (part \cap DoneIds) = {}
      BY <1>1, <2>4 DEF DoneInv, Acyclic
    <3>2. DepSets(subtasks)[x] \cap part = {}
      BY <1>15, <2>2, <3>1
    <3>3. QED BY <3>1, <3>2
  <2>5. QED BY <2>3, <2>4
<1>17. DoneInv'
  <2>1. Known(subtasks)' = Known(subtasks) /\ DepSets(subtasks)' = DepSets(subtasks)
        /\ \A x : Asked(x)' = Asked(x)
    BY <1>1 DEF Asked
  <2>2. ASSUME NEW x, NEW d, Onward(path, x, d)
        PROVE  d \in DoneIds' \/ Onward(path', x, d)
    <3>1. PICK i \in 1..(n - 1) : path[i] = x /\ path[i + 1] = d
      BY <1>10, <2>2 DEF Onward
    <3>2. CASE i = n - 1
      <4>1. i + 1 = n
        BY <1>4, <3>2
      <4>2. QED BY <1>3, <1>13, <3>1, <4>1
    <3>3. CASE i # n - 1
      <4>1. i \in 1..(n - 2)
        BY <1>4, <3>3
      <4>2. path'[i] = x /\ path'[i + 1] = d
        BY <1>5, <1>10, <3>1, <4>1
      <4>3. QED BY <1>10, <4>1, <4>2 DEF Onward
    <3>4. QED BY <3>2, <3>3
  <2>3. \A x \in Known(subtasks), k \in Nat :
          k \in 1..looked[x] /\ Asked(x)[k] \in Known(subtasks) =>
            Asked(x)[k] \in DoneIds' \/ Onward(path', x, Asked(x)[k])
    BY <1>1, <1>13, <2>2 DEF DoneInv
  <2>4. ASSUME NEW i \in 1..visited
        PROVE  subtasks[i].id \in DoneIds' \/ (path' # <<>> /\ path'[1] = subtasks[i].id)
    <3>1. subtasks[i].id \in DoneIds \/ path[1] = subtasks[i].id
      BY <1>1 DEF DoneInv
    <3>2. CASE n = 1
      BY <1>3, <1>13, <3>1, <3>2
    <3>3. CASE n # 1
      <4>1. 1 \in 1..(n - 1) /\ n - 1 # 0
        BY <1>4, <3>3
      <4>2. path' # <<>>
        BY <1>5, <4>1
      <4>3. QED BY <1>5, <1>13, <3>1, <4>1, <4>2
    <3>4. QED BY <3>2, <3>3
  <2>5. \A x \in DoneIds' : DepSets(subtasks)[x] \cap Known(subtasks) \subseteq DoneIds'
    BY <1>13, <1>14, <1>15
  <2>6. QED BY <1>1, <1>16, <2>1, <2>3, <2>4, <2>5 DEF DoneInv
<1>18. QED BY <1>1, <1>8, <1>12, <1>17 DEF SearchInv

LEMMA SearchStarts ==
  ASSUME LoopInit
  PROVE  SearchInv
<1>1. /\ subtasks \in NodeLists /\ path = <<>> /\ calls = <<>> /\ cycle = <<>> /\ visited = 0
      /\ colour = [id \in Known(subtasks) |-> "new"] /\ looked = [id \in Known(subtasks) |-> 0]
  BY DEF LoopInit
<1>2. SearchType
  BY <1>1, NodesAreKnown DEF SearchType
<1>3. DoneIds = {}
  BY <1>1 DEF DoneIds
<1>4. PathInv
  BY <1>1 DEF PathInv
<1>5. DoneInv
  BY <1>1, <1>3 DEF DoneInv, Acyclic
<1>6. QED BY <1>1, <1>2, <1>4, <1>5 DEF SearchInv

LEMMA SearchKept ==
  ASSUME SearchInv, [LoopNext]_loopVars
  PROVE  SearchInv'
<1>1. ASSUME UNCHANGED <<subtasks, circle>>
      PROVE  SearchInv'
  BY <1>1 DEF SearchInv, SearchType, PathInv, DoneInv, DoneIds, Asked, IsCycle, circle
<1>2. CASE VisitNext
  BY <1>2, VisitNextKeepsSearch
<1>3. CASE LookAtNext
  BY <1>3, LookAtNextKeepsSearch
<1>4. CASE Return
  BY <1>4, ReturnKeepsSearch
<1>5. CASE PopNext \/ ScanNext
  BY <1>1, <1>5 DEF PopNext, ScanNext
<1>6. CASE Finished \/ UNCHANGED loopVars
  BY <1>1, <1>6 DEF Finished, loopVars
<1>7. QED BY <1>2, <1>3, <1>4, <1>5, <1>6 DEF LoopNext

\* A cycle is a part of the list with no end.
LEMMA CycleHasNoEnd ==
  ASSUME subtasks \in NodeLists, IsCycle(cycle), Len(cycle) \in Nat
  PROVE  Circular(subtasks)
<1> DEFINE n == Len(cycle)
           part == { cycle[i] : i \in 1..(n - 1) }
<1>1. /\ n > 1 /\ n \in Nat /\ cycle[1] = cycle[n]
      /\ \A i \in 1..(n - 1) :
           cycle[i] \in Known(subtasks) /\ cycle[i + 1] \in DepSets(subtasks)[cycle[i]]
  BY DEF IsCycle
<1> HIDE DEF n
<1>2. 1 \in 1..(n - 1)
  BY <1>1
<1>3. ASSUME NEW i \in 1..(n - 1)
      PROVE  cycle[i + 1] \in part
  <2>1. CASE i = n - 1
    <3>1. i + 1 = n
      BY <1>1, <2>1
    <3>2. QED BY <1>1, <1>2, <3>1
  <2>2. CASE i # n - 1
    <3>1. i + 1 \in 1..(n - 1)
      BY <1>1, <2>2
    <3>2. QED BY <3>1
  <2>3. QED BY <2>1, <2>2
<1>4. part \in SUBSET Known(subtasks) /\ part # {}
  BY <1>1, <1>2
<1>5. \A x \in part : DepSets(subtasks)[x] \cap part # {}
  BY <1>1, <1>3
<1> HIDE DEF part
<1>6. QED BY <1>4, <1>5 DEF Circular, Acyclic

\* With nothing found, every node of the list is done.
LEMMA AllDone ==
  ASSUME SearchInv, cycle = <<>>, Searched
  PROVE  ~Circular(subtasks)
<1>1. /\ subtasks \in NodeLists /\ path = <<>> /\ visited = Len(subtasks) /\ DoneInv
  BY DEF SearchInv, SearchType, Searched
<1>2. \A i \in 1..Len(subtasks) : subtasks[i].id \in DoneIds
  BY <1>1 DEF DoneInv
<1>3. Known(subtasks) = DoneIds
  BY <1>1, <1>2, NodesAreKnown DEF DoneIds
<1>4. QED BY <1>1, <1>3 DEF DoneInv, Circular

LEMMA SearchFinds ==
  ASSUME SearchInv
  PROVE  CycleFoundExactly
<1>1. CASE cycle = <<>>
  BY <1>1, AllDone DEF CycleFoundExactly
<1>2. CASE cycle # <<>>
  <2>1. IsCycle(cycle) /\ subtasks \in NodeLists
    BY <1>2 DEF SearchInv, SearchType
  <2>2. Circular(subtasks)
    BY <2>1, CycleHasNoEnd
  <2>3. QED BY <1>2, <2>1, <2>2 DEF CycleFoundExactly
<1>3. QED BY <1>1, <1>2

\* No id is repeated exactly when there are as many as nodes.
LEMMA NoneRepeated ==
  ASSUME NEW nodes \in NodeLists
  PROVE  Cardinality(Known(nodes)) = Len(nodes) <=> ~Repeated(nodes)
<1> DEFINE n == Len(nodes)
           f == Ids(nodes)
<1>1. n \in Nat /\ DOMAIN nodes = 1..n
  BY ListsAreSequences
<1>2. f \in Surjection(1..n, Known(nodes))
  BY <1>1 DEF Surjection, Ids, Known, Range
<1>3. IsFiniteSet(1..n) /\ Cardinality(1..n) = n
  <2>1. 1 \in Int /\ n \in Int
    BY <1>1
  <2> HIDE DEF n
  <2>2. IsFiniteSet(1..n) /\ Cardinality(1..n) = IF 1 > n THEN 0 ELSE n - 1 + 1
    BY <2>1, FS_Interval
  <2>3. QED BY <1>1, <2>2
<1>4. f \in Injection(1..n, Known(nodes)) <=> ~Repeated(nodes)
  <2>1. f \in [1..n -> Known(nodes)] /\ DOMAIN f = 1..n
    BY <1>2 DEF Surjection
  <2>2. \A i \in 1..n : f[i] = nodes[i].id
    BY <1>1 DEF Ids
  <2> HIDE DEF f, n
  <2>3. QED BY <1>1, <2>1, <2>2 DEF Injection, IsInjective, Repeated
<1> HIDE DEF f, n
<1>5. Cardinality(Known(nodes)) = n <=> f \in Injection(1..n, Known(nodes))
  BY <1>2, <1>3, FS_Surjection
<1>6. QED BY <1>4, <1>5 DEF n

\* With no id repeated, what an id depends on is what its node lists.
LEMMA NothingMissing ==
  ASSUME NEW nodes \in NodeLists, ~Repeated(nodes), NEW known
  PROVE  ~Missing(nodes, known) <=>
           \A id \in Known(nodes) : DepSets(nodes)[id] \subseteq Known(nodes) \cup known
<1>1. DOMAIN nodes = 1..Len(nodes) /\ Len(nodes) \in Nat
  BY ListsAreSequences
<1>2. ASSUME NEW i \in DOMAIN nodes
      PROVE  nodes[i].id \in Known(nodes) /\ DepSets(nodes)[nodes[i].id] = Range(nodes[i].dependencies)
  <2>1. nodes[i].id \in Known(nodes)
    BY <1>1, <1>2, NodesAreKnown
  <2>2. PICK j \in 1..Len(nodes) : NodeOf(nodes, nodes[i].id) = nodes[j] /\ nodes[j].id = nodes[i].id
    BY <2>1, NodeIsThere
  <2>3. j = i
    BY <1>1, <2>2 DEF Repeated
  <2>4. QED BY <2>1, <2>2, <2>3 DEF DepSets
<1>3. \A id \in Known(nodes) : \E i \in DOMAIN nodes : nodes[i].id = id
  BY <1>1, NodesAreKnown
<1>4. QED BY <1>2, <1>3 DEF Missing

LEMMA ValidateIsExact ==
  ASSUME SearchInv, CycleFoundExactly
  PROVE  ValidateExact
<1> SUFFICES ASSUME Searched, NEW known \in Settled
             PROVE  validate(subtasks, known, cycle # <<>>) = {} <=>
                      /\ ValidGraph(Known(subtasks), DepSets(subtasks), known)
                      /\ Cardinality(Known(subtasks)) = Len(subtasks)
  BY DEF ValidateExact
<1>1. subtasks \in NodeLists
  BY DEF SearchInv, SearchType
<1>2. cycle = <<>> <=> Acyclic(Known(subtasks), DepSets(subtasks))
  BY DEF CycleFoundExactly, Circular
<1>3. Known(subtasks) # {} <=> subtasks # <<>>
  <2>1. Len(subtasks) \in Nat /\ (subtasks = <<>> <=> Len(subtasks) = 0)
    BY <1>1, ListsAreSequences
  <2>2. Known(subtasks) # {} <=> \E i \in 1..Len(subtasks) : TRUE
    BY <1>1, NodesAreKnown
  <2>3. QED BY <2>1, <2>2
<1>4. Cardinality(Known(subtasks)) = Len(subtasks) <=> ~Repeated(subtasks)
  BY <1>1, NoneRepeated
<1>5. validate(subtasks, known, cycle # <<>>) = {} <=>
        /\ subtasks # <<>> /\ ~Repeated(subtasks) /\ ~Missing(subtasks, known) /\ cycle = <<>>
  BY DEF validate
<1>6. ~Repeated(subtasks) =>
        (~Missing(subtasks, known) <=>
           \A id \in Known(subtasks) : DepSets(subtasks)[id] \subseteq Known(subtasks) \cup known)
  BY <1>1, NothingMissing
<1>7. QED BY <1>2, <1>3, <1>4, <1>5, <1>6 DEF ValidGraph

-----------------------------------------------------------------------------
(* descendants.                                                            *)

\* Whoever depends on the origin or on the part is in the part.
Closed(part) ==
  \A n \in Known(subtasks) : DepSets(subtasks)[n] \cap (part \cup origin) # {} => n \in part

\* What was found is in every closed part, and of what was found, whatever is
\* not on the stack any more has had its dependents found, as far as its turn
\* has come.
FollowInv ==
  origin # {} =>
    /\ subtasks \in NodeLists
    /\ origin \in { {id} : id \in Origins }
    /\ stack \in Seq(stranded \cup origin)
    /\ current \subseteq stranded \cup origin
    /\ stranded \subseteq Known(subtasks)
    /\ scanned \in 0..Len(subtasks)
    /\ \A part \in SUBSET Known(subtasks) : Closed(part) => stranded \subseteq part
    /\ \A x \in stranded \cup origin :
         \/ \E k \in 1..Len(stack) : stack[k] = x
         \/ \A i \in 1..Len(subtasks) :
              x \in DepSets(subtasks)[subtasks[i].id] /\ (x \in current => i <= scanned)
                => subtasks[i].id \in stranded

LEMMA FollowStarts ==
  ASSUME LoopInit
  PROVE  FollowInv
<1> SUFFICES ASSUME origin # {} PROVE FollowInv
  BY DEF FollowInv
<1>1. PICK id \in Origins : origin = {id}
  BY DEF LoopInit
<1>2. Cardinality(origin) = 1
  BY <1>1, FS_Singleton
<1>3. /\ subtasks \in NodeLists /\ stack \in [1..1 -> {id}]
      /\ current = {} /\ stranded = {} /\ scanned = Len(subtasks)
  BY <1>1, <1>2 DEF LoopInit
<1>4. stack \in Seq({id}) /\ Len(stack) = 1 /\ stack[1] = id
  <2>1. stack = <<id>>
    BY <1>3
  <2>2. QED BY <2>1
<1>5. 1 \in 1..Len(stack) /\ scanned \in 0..Len(subtasks)
  BY <1>3, <1>4, NodesAreKnown
<1>6. QED BY <1>1, <1>3, <1>4, <1>5 DEF FollowInv

LEMMA PopNextKeepsFollow ==
  ASSUME FollowInv, PopNext
  PROVE  FollowInv'
<1> DEFINE n == Len(stack)
           x == stack[n]
           S == stranded \cup origin
<1>1. /\ origin # {} /\ scanned = Len(subtasks) /\ stack # <<>>
      /\ current' = {x} /\ stack' = Front(stack) /\ scanned' = 0
      /\ UNCHANGED <<subtasks, origin, stranded>>
  BY DEF PopNext, Last
<1>2. /\ subtasks \in NodeLists /\ stack \in Seq(S)
      /\ origin \in { {id} : id \in Origins } /\ stranded \subseteq Known(subtasks)
      /\ \A part \in SUBSET Known(subtasks) : Closed(part) => stranded \subseteq part
      /\ \A y \in S : \/ \E k \in 1..n : stack[k] = y
                      \/ \A i \in 1..Len(subtasks) :
                           y \in DepSets(subtasks)[subtasks[i].id] /\ (y \in current => i <= scanned)
                             => subtasks[i].id \in stranded
  BY <1>1 DEF FollowInv
<1>3. n \in Nat /\ n >= 1 /\ n \in 1..n /\ x \in S
  BY <1>1, <1>2
<1>4. stack' \in Seq(S) /\ Len(stack') = n - 1 /\ \A i \in 1..(n - 1) : stack'[i] = stack[i]
  BY <1>1, <1>2, FrontOfSome
<1>5. /\ Len(subtasks) \in Nat /\ 0 \in 0..Len(subtasks)
      /\ \A i \in 1..Len(subtasks) : ~(i <= 0) /\ i <= Len(subtasks)
  BY <1>2, NodesAreKnown
<1> HIDE DEF n, S, x
<1>6. ASSUME NEW y \in S
      PROVE  \/ \E k \in 1..(n - 1) : stack'[k] = y
             \/ \A i \in 1..Len(subtasks) :
                  y \in DepSets(subtasks)[subtasks[i].id] /\ (y \in {x} => i <= 0)
                    => subtasks[i].id \in stranded
  <2>1. CASE y = x
    BY <1>5, <2>1
  <2>2. CASE y # x /\ \E k \in 1..n : stack[k] = y
    <3>1. PICK k \in 1..n : stack[k] = y
      BY <2>2
    <3>2. k # n
      BY <2>2, <3>1 DEF x
    <3>3. k \in 1..(n - 1)
      BY <1>3, <3>1, <3>2
    <3>4. QED BY <1>4, <3>1, <3>3
  <2>3. CASE ~\E k \in 1..n : stack[k] = y
    BY <1>1, <1>2, <1>5, <2>3
  <2>4. QED BY <2>1, <2>2, <2>3
<1>7. /\ Known(subtasks)' = Known(subtasks) /\ DepSets(subtasks)' = DepSets(subtasks)
      /\ \A part : Closed(part)' <=> Closed(part)
  BY <1>1 DEF Closed
<1>8. /\ subtasks' \in NodeLists /\ origin' \in { {id} : id \in Origins }
      /\ stack' \in Seq(stranded' \cup origin') /\ current' \subseteq stranded' \cup origin'
      /\ stranded' \subseteq Known(subtasks)' /\ scanned' \in 0..Len(subtasks')
  BY <1>1, <1>2, <1>3, <1>4, <1>5 DEF S
<1>9. \A y \in stranded' \cup origin' :
         \/ \E k \in 1..Len(stack') : stack'[k] = y
         \/ \A i \in 1..Len(subtasks') :
              y \in DepSets(subtasks)'[subtasks'[i].id] /\ (y \in current' => i <= scanned')
                => subtasks'[i].id \in stranded'
  BY <1>1, <1>4, <1>6, <1>7 DEF S
<1>10. QED BY <1>1, <1>2, <1>7, <1>8, <1>9 DEF FollowInv

LEMMA ScanNextKeepsFollow ==
  ASSUME FollowInv, ScanNext
  PROVE  FollowInv'
<1> DEFINE n == Len(stack)
           m == scanned + 1
           id == subtasks[m].id
           hit == current \cap DepSets(subtasks)[id] # {} /\ id \notin stranded
           S == stranded \cup origin
<1>1. /\ origin # {} /\ scanned < Len(subtasks) /\ scanned' = m
      /\ UNCHANGED <<subtasks, origin, current>>
      /\ \/ hit /\ stranded' = stranded \cup {id} /\ stack' = Append(stack, id)
         \/ ~hit /\ UNCHANGED <<stranded, stack>>
  BY DEF ScanNext
<1>2. /\ subtasks \in NodeLists /\ stack \in Seq(S) /\ current \subseteq S
      /\ origin \in { {o} : o \in Origins } /\ stranded \subseteq Known(subtasks)
      /\ scanned \in 0..Len(subtasks)
      /\ \A part \in SUBSET Known(subtasks) : Closed(part) => stranded \subseteq part
      /\ \A y \in S : \/ \E k \in 1..n : stack[k] = y
                      \/ \A i \in 1..Len(subtasks) :
                           y \in DepSets(subtasks)[subtasks[i].id] /\ (y \in current => i <= scanned)
                             => subtasks[i].id \in stranded
  BY <1>1 DEF FollowInv
<1>3. /\ m \in 1..Len(subtasks) /\ m \in 0..Len(subtasks)
      /\ \A i \in 1..Len(subtasks) : i <= m => i <= scanned \/ i = m
  BY <1>1, <1>2, NodesAreKnown
<1>4. id \in Known(subtasks)
  BY <1>2, <1>3, NodesAreKnown
<1> HIDE DEF m, id
<1>5. /\ Known(subtasks)' = Known(subtasks) /\ DepSets(subtasks)' = DepSets(subtasks)
      /\ \A part : Closed(part)' <=> Closed(part)
  BY <1>1 DEF Closed
\* Who was covered is covered by as much stack and as many stranded, if the
\* node just scanned is stranded when it depends on what was popped.
<1>6. ASSUME stranded \subseteq stranded',
             \A y \in current : y \in DepSets(subtasks)[id] => id \in stranded',
             \A k \in 1..n : \E l \in 1..Len(stack') : stack'[l] = stack[k],
             NEW y \in S
      PROVE  \/ \E k \in 1..Len(stack') : stack'[k] = y
             \/ \A i \in 1..Len(subtasks) :
                  y \in DepSets(subtasks)[subtasks[i].id] /\ (y \in current => i <= m)
                    => subtasks[i].id \in stranded'
  <2>1. CASE \E k \in 1..n : stack[k] = y
    BY <1>6, <2>1
  <2>2. CASE ~\E k \in 1..n : stack[k] = y
    <3>1. SUFFICES ASSUME NEW i \in 1..Len(subtasks), y \in DepSets(subtasks)[subtasks[i].id],
                          y \in current => i <= m
                   PROVE  subtasks[i].id \in stranded'
      OBVIOUS
    <3>2. CASE y \in current /\ i = m
      BY <1>6, <3>1, <3>2 DEF id
    <3>3. CASE ~(y \in current /\ i = m)
      <4>1. y \in current => i <= scanned
        BY <1>3, <3>1, <3>3
      <4>2. QED BY <1>2, <1>6, <2>2, <3>1, <4>1
    <3>4. QED BY <3>2, <3>3
  <2>3. QED BY <2>1, <2>2
<1>7. CASE ~hit /\ UNCHANGED <<stranded, stack>>
  <2>1. \A y \in current : y \in DepSets(subtasks)[id] => id \in stranded'
    BY <1>7
  <2>2. \A k \in 1..n : \E l \in 1..Len(stack') : stack'[l] = stack[k]
    BY <1>7
  <2>3. \A y \in stranded' \cup origin' :
         \/ \E k \in 1..Len(stack') : stack'[k] = y
         \/ \A i \in 1..Len(subtasks') :
              y \in DepSets(subtasks)'[subtasks'[i].id] /\ (y \in current' => i <= scanned')
                => subtasks'[i].id \in stranded'
    <3> HIDE DEF hit
    <3>1. stranded' \cup origin' = S /\ stranded \subseteq stranded'
      BY <1>1, <1>7
    <3> HIDE DEF S, n
    <3>2. QED BY <1>1, <1>5, <1>6, <2>1, <2>2, <3>1
  <2> HIDE DEF hit
  <2>4. /\ subtasks' \in NodeLists /\ origin' \in { {o} : o \in Origins }
        /\ stack' \in Seq(stranded' \cup origin') /\ current' \subseteq stranded' \cup origin'
        /\ stranded' \subseteq Known(subtasks)' /\ scanned' \in 0..Len(subtasks')
        /\ \A part \in SUBSET Known(subtasks)' : Closed(part)' => stranded' \subseteq part
    BY <1>1, <1>2, <1>3, <1>5, <1>7
  <2>5. QED BY <2>3, <2>4 DEF FollowInv
<1>8. CASE hit /\ stranded' = stranded \cup {id} /\ stack' = Append(stack, id)
  <2>1. stranded' \cup origin' = S \cup {id} /\ S \subseteq S \cup {id}
    BY <1>1, <1>8
  <2>2. stack \in Seq(S \cup {id}) /\ id \in S \cup {id} /\ n \in Nat
    BY <1>2
  <2>3. /\ stack' \in Seq(S \cup {id}) /\ Len(stack') = n + 1 /\ stack'[n + 1] = id
        /\ \A i \in 1..n : stack'[i] = stack[i]
    <3>1. stack' = Append(stack, id)
      BY <1>8
    <3> HIDE DEF hit, S
    <3>2. QED BY <2>2, <3>1, AppendProperties
  <2>4. n + 1 \in 1..(n + 1) /\ \A k \in 1..n : k \in 1..(n + 1)
    BY <2>2
  <2>5. ASSUME NEW part \in SUBSET Known(subtasks), Closed(part)
        PROVE  stranded' \subseteq part
    <3>1. stranded \subseteq part
      BY <1>2, <2>5
    <3>2. DepSets(subtasks)[id] \cap (part \cup origin) # {}
      BY <1>2, <1>8, <3>1
    <3>3. id \in part
      BY <1>4, <2>5, <3>2 DEF Closed
    <3>4. QED BY <1>8, <3>1, <3>3
  <2>6. stranded' = stranded \cup {id}
    BY <1>8
  <2> HIDE DEF hit
  <2>7. \A k \in 1..n : \E l \in 1..Len(stack') : stack'[l] = stack[k]
    BY <2>3, <2>4
  <2> HIDE DEF S, n
  <2>8. \A y \in S :
         \/ \E k \in 1..Len(stack') : stack'[k] = y
         \/ \A i \in 1..Len(subtasks') :
              y \in DepSets(subtasks)'[subtasks'[i].id] /\ (y \in current' => i <= scanned')
                => subtasks'[i].id \in stranded'
    BY <1>1, <1>5, <1>6, <2>6, <2>7
  <2>9. \E k \in 1..Len(stack') : stack'[k] = id
    BY <2>3, <2>4
  <2>10. \A y \in stranded' \cup origin' :
         \/ \E k \in 1..Len(stack') : stack'[k] = y
         \/ \A i \in 1..Len(subtasks') :
              y \in DepSets(subtasks)'[subtasks'[i].id] /\ (y \in current' => i <= scanned')
                => subtasks'[i].id \in stranded'
    BY <2>1, <2>8, <2>9
  <2>11. /\ subtasks' \in NodeLists /\ origin' \in { {o} : o \in Origins }
         /\ stranded' \subseteq Known(subtasks)' /\ scanned' \in 0..Len(subtasks')
    BY <1>1, <1>2, <1>3, <1>4, <1>5, <2>6
  <2>12. stack' \in Seq(stranded' \cup origin') /\ current' \subseteq stranded' \cup origin'
    BY <1>1, <1>2, <2>1, <2>3
  <2>13. \A part \in SUBSET Known(subtasks)' : Closed(part)' => stranded' \subseteq part
    BY <1>5, <2>5
  <2>14. QED BY <2>10, <2>11, <2>12, <2>13 DEF FollowInv
<1>9. QED BY <1>1, <1>7, <1>8

LEMMA FollowKept ==
  ASSUME FollowInv, [LoopNext]_loopVars
  PROVE  FollowInv'
<1>1. CASE origin = {}
  BY <1>1 DEF FollowInv, LoopNext, VisitNext, LookAtNext, Return, PopNext, ScanNext, Finished, loopVars
<1>2. CASE origin # {} /\ (Finished \/ UNCHANGED loopVars)
  BY <1>2 DEF FollowInv, Closed, Finished, loopVars, downstream
<1>3. CASE PopNext
  BY <1>3, PopNextKeepsFollow
<1>4. CASE ScanNext
  BY <1>4, ScanNextKeepsFollow
<1>5. CASE VisitNext \/ LookAtNext \/ Return
  BY <1>1, <1>5 DEF VisitNext, LookAtNext, Return, Searching
<1>6. QED BY <1>1, <1>2, <1>3, <1>4, <1>5 DEF LoopNext

LEMMA FollowFinds ==
  ASSUME FollowInv
  PROVE  DescendantsExact
<1> SUFFICES ASSUME Followed, NEW id \in origin
             PROVE  stranded = Descendants(Known(subtasks), DepSets(subtasks), id)
  BY DEF DescendantsExact
<1>1. /\ origin = {id} /\ stack = <<>> /\ scanned = Len(subtasks)
      /\ subtasks \in NodeLists /\ stranded \subseteq Known(subtasks)
      /\ current \subseteq stranded \cup origin
      /\ \A part \in SUBSET Known(subtasks) : Closed(part) => stranded \subseteq part
  BY DEF Followed, FollowInv
<1>2. \A i \in 1..Len(subtasks) : i <= scanned
  BY <1>1, NodesAreKnown
<1>3. \A x \in stranded \cup origin, i \in 1..Len(subtasks) :
        x \in DepSets(subtasks)[subtasks[i].id] => subtasks[i].id \in stranded
  <2>1. \A x \in stranded \cup origin : ~\E k \in 1..Len(stack) : stack[k] = x
    BY <1>1
  <2>2. QED BY <1>2, <2>1 DEF FollowInv, Followed
<1>4. Closed(stranded)
  <2>1. SUFFICES ASSUME NEW n \in Known(subtasks), DepSets(subtasks)[n] \cap (stranded \cup origin) # {}
                 PROVE  n \in stranded
    BY DEF Closed
  <2>2. PICK i \in 1..Len(subtasks) : subtasks[i].id = n
    BY <1>1, NodesAreKnown
  <2>3. QED BY <1>3, <2>1, <2>2
<1> DEFINE closed == { part \in SUBSET Known(subtasks) :
                         \A n \in Known(subtasks) :
                           DepSets(subtasks)[n] \cap (part \cup {id}) # {} => n \in part }
<1>5. \A part \in SUBSET Known(subtasks) : part \in closed <=> Closed(part)
  BY <1>1 DEF Closed
<1>6. Descendants(Known(subtasks), DepSets(subtasks), id)
        = { n \in Known(subtasks) : \A part \in closed : n \in part }
  BY DEF Descendants
<1>7. closed \subseteq SUBSET Known(subtasks)
  OBVIOUS
<1> HIDE DEF closed
<1>8. stranded \in closed
  BY <1>1, <1>4, <1>5
<1>9. \A part \in closed : stranded \subseteq part
  BY <1>1, <1>5, <1>7
<1>10. QED BY <1>1, <1>6, <1>8, <1>9

-----------------------------------------------------------------------------
\* What the searches keep to, from the first step to the last.
LEMMA LoopInvariant == LoopSpec => [](SearchInv /\ FollowInv)
<1>1. LoopInit => SearchInv /\ FollowInv
  BY SearchStarts, FollowStarts
<1>2. SearchInv /\ FollowInv /\ [LoopNext]_loopVars => (SearchInv /\ FollowInv)'
  BY SearchKept, FollowKept
<1>3. QED BY <1>1, <1>2, PTL DEF LoopSpec

\* A search that has ended has found a cycle exactly when the list has one, and
\* what it found is a cycle: a chain of dependencies inside the graph that ends
\* at the node it started from (dag.ts:70-100).
THEOREM FindsCyclesExactly == LoopSpec => []CycleFoundExactly
<1>1. SearchInv /\ FollowInv => CycleFoundExactly
  BY SearchFinds
<1>2. QED BY <1>1, LoopInvariant, PTL

\* validate finds nothing wrong with a list exactly when its ids are distinct,
\* every dependency is on a node of it or settled before, and its nodes can be
\* put in an order in which each follows those it depends on (dag.ts:23-68).
THEOREM ValidatesExactly == LoopSpec => []ValidateExact
<1>1. SearchInv /\ FollowInv => ValidateExact
  BY SearchFinds, ValidateIsExact
<1>2. QED BY <1>1, LoopInvariant, PTL

\* What a failure strands is found to the last node: the least set with every
\* node that depends on the origin or on a node of the set (dag.ts:161-181).
THEOREM FindsDescendantsExactly == LoopSpec => []DescendantsExact
<1>1. SearchInv /\ FollowInv => DescendantsExact
  BY FollowFinds
<1>2. QED BY <1>1, LoopInvariant, PTL
=============================================================================
