---------------------------- MODULE MCTaskLayers ----------------------------
(* TaskLayers on the task types whose shapes differ, with models that      *)
(* answer every decomposition of two subtasks and some of three.           *)
EXTENDS TaskLayers

MCClean == [a |-> "a", A |-> "a", b |-> "b", c |-> "c"]

Class(taskType, complexity, vision, audio, code) ==
  [taskType |-> taskType, complexity |-> complexity, requiresVision |-> vision,
   audio |-> audio, requiresCode |-> code, sure |-> complexity # "medium"]

MCRuleClasses ==
  { Class(t, c, FALSE, FALSE, FALSE) :
      t \in {"CODE_REVIEW", "RESEARCH", "SUMMARIZATION", "TRANSLATION"}, c \in Complexities }
  \cup { Class("IMAGE_ANALYSIS", c, TRUE, FALSE, FALSE) : c \in Complexities }
  \cup { Class("AUDIO_TRANSCRIPTION", c, FALSE, TRUE, FALSE) : c \in Complexities }

Entry(id, role, deps) == [id |-> id, role |-> role, dependencies |-> deps]

MCRawReplies ==
  {<<>>}
  \cup { <<Entry(i, r, d), Entry(j, "researcher", e)>> :
           i \in {"a", "A"}, j \in {"a", "A", "b"}, r \in {"researcher", "synthesizer"},
           d \in {<<>>, <<"b">>}, e \in {<<>>, <<"A">>, <<"c">>} }
  \cup { <<Entry("a", "researcher", d), Entry("b", "researcher", e), Entry("c", r, f)>> :
           d \in {<<>>, <<"c">>}, e \in {<<>>, <<"A">>}, r \in {"coder", "synthesizer"},
           f \in {<<"b">>, <<"a", "b">>} }

\* Strong models may be as quick as the cheap ones, or slower.
MCSpeeds == { [draft |-> d, balanced |-> 1, premium |-> p] : d \in {1, 2}, p \in {1, 2} }

MCBudgets == { [maxTokens |-> t, maxLatency |-> l] : t \in {0, 12}, l \in {0, 3} }
=============================================================================
