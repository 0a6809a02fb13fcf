---------------------------- MODULE MCScheduler ----------------------------
(***************************************************************************)
(* Scheduler on the plan shapes decomposer.ts builds.                      *)
(***************************************************************************)
EXTENDS Scheduler, TLC

CONSTANTS a, b, syn, crit   \* two analyses, the synthesis, the critique

MCNodes == {a, b, syn, crit}

NoDeps == [n \in MCNodes |-> {}]

\* fromPipeline, premium and very complex: ensemble synthesis and an
\* optional critique of it.
PremiumReview ==
  [nodes |-> MCNodes, width |-> 6,
   deps |-> (syn :> {a, b}) @@ (crit :> {syn}) @@ NoDeps,
   optional |-> {crit}, ensemble |-> {syn}, synth |-> {syn}]

\* fromPipeline, draft: the same review one node at a time.
DraftReview ==
  [nodes |-> {a, b, syn}, width |-> 1,
   deps |-> (syn :> {a, b}) @@ NoDeps,
   optional |-> {}, ensemble |-> {}, synth |-> {syn}]

\* llmDecompose: a chain under a synthesis; a flat plan whose batches are
\* narrower than it, with room for more failures than re-plans; a synthesis
\* that is not the sink.
LlmChain ==
  [nodes |-> {a, b, syn}, width |-> 4,
   deps |-> (b :> {a}) @@ (syn :> {a, b}) @@ NoDeps,
   optional |-> {}, ensemble |-> {}, synth |-> {syn}]

LlmFlat(width) ==
  [nodes |-> MCNodes, width |-> width,
   deps |-> (syn :> {a, b, crit}) @@ NoDeps,
   optional |-> {}, ensemble |-> {}, synth |-> {syn}]

LlmInner ==
  [nodes |-> MCNodes, width |-> 4,
   deps |-> (syn :> {a}) @@ (b :> {syn}) @@ (crit :> {a, b}) @@ NoDeps,
   optional |-> {}, ensemble |-> {}, synth |-> {syn}]

MCPlans == {PremiumReview, DraftReview, LlmChain, LlmFlat(1), LlmFlat(2), LlmInner}
=============================================================================
