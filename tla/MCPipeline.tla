----------------------------- MODULE MCPipeline -----------------------------
(* Pipeline with two places for a run in the API process and one in the    *)
(* standalone worker.                                                      *)
EXTENDS Pipeline

MCConcurrency == [api |-> 2, worker |-> 1]
=============================================================================
