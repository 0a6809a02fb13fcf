----------------------------- MODULE Decomposer -----------------------------
(***************************************************************************)
(* Layer 5, core/intelligence/decomposer.ts, with the role pipelines of    *)
(* core/agents/roles.ts: from a classified task to a list of DAG nodes.    *)
(* An id is a pair of a name and a number ("coder", 2 is coder_2).  What   *)
(* the prompts say is left out; whether a node is handed source material   *)
(* (`source') is kept.                                                     *)
(***************************************************************************)
EXTENDS DagAlgorithms

CONSTANTS
  RawNames,   \* ids an LLM may give its subtasks
  Clean       \* [RawNames -> RawNames]: lower case, other characters to `_'

ASSUME CleanAssumption == /\ Clean \in [RawNames -> RawNames]
                          /\ \A r \in RawNames : Clean[Clean[r]] = Clean[r]

Strategies == {"draft", "balanced", "premium"}
Complexities == {"simple", "medium", "complex", "very_complex"}

Stages(parallel, then) == [parallel |-> parallel, then |-> then]

ROLE_PIPELINES ==
  [CODE_ANALYSIS       |-> Stages(<<"security_analyzer", "coder", "performance_analyzer",
                                    "architect">>, <<"synthesizer">>),
   CODE_REVIEW         |-> Stages(<<"coder", "code_reviewer", "security_analyzer">>,
                                  <<"synthesizer">>),
   BUG_FIX             |-> Stages(<<"coder", "code_reviewer">>, <<"synthesizer">>),
   CODE_GENERATION     |-> Stages(<<"architect", "coder">>, <<"synthesizer">>),
   DOCUMENT_ANALYSIS   |-> Stages(<<"summarizer", "researcher">>, <<"synthesizer">>),
   DOCUMENT_QA         |-> Stages(<<"researcher">>, <<>>),
   IMAGE_ANALYSIS      |-> Stages(<<"vision_analyzer">>, <<"researcher">>),
   VISUAL_QA           |-> Stages(<<"vision_analyzer">>, <<>>),
   OCR                 |-> Stages(<<"vision_analyzer">>, <<>>),
   AUDIO_TRANSCRIPTION |-> Stages(<<"audio_transcriber">>, <<>>),
   AUDIO_ANALYSIS      |-> Stages(<<"audio_transcriber">>, <<"researcher">>),
   RESEARCH            |-> Stages(<<"researcher", "researcher", "researcher">>,
                                  <<"synthesizer">>),
   SUMMARIZATION       |-> Stages(<<"summarizer">>, <<>>),
   DATA_ANALYSIS       |-> Stages(<<"researcher", "performance_analyzer">>, <<"synthesizer">>),
   COMPLEX_REASONING   |-> Stages(<<"researcher", "architect">>, <<"synthesizer">>),
   SIMPLE_QA           |-> Stages(<<"researcher">>, <<>>)]

HasPipeline(taskType) == taskType \in DOMAIN ROLE_PIPELINES

Id(name) == <<name, 1>>

makeNode(id, role, dependencies, priority) ==
  [id |-> id, role |-> role, dependencies |-> dependencies, priority |-> priority,
   source |-> FALSE, requiresEnsemble |-> FALSE, optional |-> FALSE]

-----------------------------------------------------------------------------
(* The deterministic shapes.                                               *)

buildSingleNode(class) ==
  LET role == CASE class.requiresVision               -> "vision_analyzer"
                [] class.audio                        -> "audio_transcriber"
                [] class.taskType = "SUMMARIZATION"   -> "summarizer"
                [] class.requiresCode                 -> "coder"
                [] OTHER                              -> "researcher"
  IN  <<makeNode(Id("main"), role, <<>>, 10)>>

\* Slip: a tail waits for the first analysis only.
AfterFirstAnalysis(then, analyses) ==
  [i \in DOMAIN then |->
     makeNode(IF then[i] = "synthesizer" THEN Id("synthesis") ELSE <<then[i], "stage">>,
              then[i], SubSeq(Ids(analyses), 1, 1), 6 - i)]

\* The nodes that run after every analysis.
AfterAnalyses(then, analyses) ==
  [i \in DOMAIN then |->
     makeNode(IF then[i] = "synthesizer" THEN Id("synthesis") ELSE <<then[i], "stage">>,
              then[i], Ids(analyses), 6 - i)]

\* Premium's adversarial pass over the last tail node, which for a very
\* complex task also runs on two models.
Critiqued(tail, complexity) ==
  Append([tail EXCEPT ![Len(tail)].requiresEnsemble = complexity = "very_complex"],
         [makeNode(Id("critique"), "critic", <<tail[Len(tail)].id>>, 1) EXCEPT !.optional = TRUE])

fromPipeline(pipeline, complexity, strategy) ==
  LET roles    == IF strategy = "draft"
                  THEN SubSeq(pipeline.parallel, 1, Min({2, Len(pipeline.parallel)}))
                  ELSE pipeline.parallel
      nth(i)   == Cardinality({ j \in 1..i : roles[j] = roles[i] })
      analyses == [i \in DOMAIN roles |-> makeNode(<<roles[i], nth(i)>>, roles[i], <<>>, 11 - i)]
      tail     == AfterAnalyses(pipeline.then, analyses)
  IN  analyses \o (IF strategy = "premium" /\ tail # <<>> /\ complexity # "medium"
                   THEN Critiqued(tail, complexity) ELSE tail)

QuestionLimit == [draft |-> 2, balanced |-> 4, premium |-> 6]

\* One researcher per question; extractQuestions always finds two or more.
decomposeResearch(questions, strategy) ==
  LET asked       == Min({questions, QuestionLimit[strategy]})
      researchers == [i \in 1..asked |-> makeNode(<<"research", i>>, "researcher", <<>>, 11 - i)]
  IN  Append(researchers, makeNode(Id("synthesis"), "synthesizer", Ids(researchers), 5))

-----------------------------------------------------------------------------
(* An LLM's decomposition: raw entries [id, role, dependencies] in its     *)
(* order.  idMap[i] has the keys of the map after i entries: RAW ids, and  *)
(* the test for a repeated id looks a CLEAN one up (decomposer.ts:291).    *)

\* What a sequence has at some of its places, in order.
RankIn(places, i) == Cardinality({ j \in places : j <= i })

AtPlaces(seq, places) ==
  [n \in 1..Cardinality(places) |-> seq[CHOOSE i \in places : RankIn(places, i) = n]]

cleanedEntries(raw) ==
  LET idMap[i \in 0..Len(raw)] ==
        IF i = 0 THEN {}
        ELSE idMap[i - 1] \cup (IF Clean[raw[i].id] \in idMap[i - 1] THEN {} ELSE {raw[i].id})
  IN  AtPlaces(raw, { i \in DOMAIN raw : Clean[raw[i].id] \notin idMap[i - 1] })

CleanDeps(entry) == [i \in DOMAIN entry.dependencies |-> Clean[entry.dependencies[i]]]

\* Slip: dependencies are cleaned but not looked up.
ValidDepsUnchecked(entry, validNames) ==
  LET deps == CleanDeps(entry)
  IN  AtPlaces(deps, { i \in DOMAIN deps : deps[i] # Clean[entry.id] })

\* The dependencies that name another entry.
ValidDeps(entry, validNames) ==
  LET deps == CleanDeps(entry)
  IN  AtPlaces(deps, { i \in DOMAIN deps : deps[i] \in validNames /\ deps[i] # Clean[entry.id] })

normalizeLlmNodes(raw) ==
  LET cleaned == cleanedEntries(raw)
      names   == { Clean[cleaned[i].id] : i \in DOMAIN cleaned }
      deps(i) == ValidDeps(cleaned[i], names)
      nodes   == [i \in DOMAIN cleaned |->
                    makeNode(Id(Clean[cleaned[i].id]), cleaned[i].role,
                             [k \in DOMAIN deps(i) |-> Id(deps(i)[k])], 11 - i)]
      roots   == AtPlaces(nodes, { i \in DOMAIN nodes : nodes[i].dependencies = <<>> })
  IN  IF Len(nodes) > 1 /\ \A i \in DOMAIN nodes : nodes[i].role # "synthesizer"
      THEN Append(nodes, makeNode(Id("synthesis"), "synthesizer", Ids(roots), 5))
      ELSE nodes

-----------------------------------------------------------------------------
\* A node with upstream results is not sent the material again.
finalize(nodes) ==
  [i \in DOMAIN nodes |-> [nodes[i] EXCEPT !.source = nodes[i].dependencies = <<>>]]

\* Simple tasks are not decomposed, known types follow their pipeline, the
\* others the LLM; `raw' is its answer, <<>> when it gave none that parses.
buildSkeleton(class, strategy, questions, raw) ==
  IF class.complexity = "simple" \/ class.estimatedSubtasks <= 1
  THEN [nodes |-> buildSingleNode(class), by |-> "single"]
  ELSE IF class.taskType = "RESEARCH"
  THEN [nodes |-> decomposeResearch(questions, strategy), by |-> "pipeline"]
  ELSE IF HasPipeline(class.taskType)
  THEN [nodes |-> fromPipeline(ROLE_PIPELINES[class.taskType], class.complexity, strategy),
        by |-> "pipeline"]
  ELSE IF raw # <<>>
  THEN [nodes |-> normalizeLlmNodes(raw), by |-> "llm"]
  ELSE [nodes |-> buildSingleNode(class), by |-> "single"]
=============================================================================
