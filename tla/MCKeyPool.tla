----------------------------- MODULE MCKeyPool -----------------------------
(***************************************************************************)
(* KeyPool with two providers.  The first has a key with a quota and a key *)
(* that is registered while the service runs; the mock stands behind.      *)
(***************************************************************************)
EXTENDS KeyPool, TLC

CONSTANTS c1, k1, k2, real, mock, m1, m2, mm, Limit

\* A subtask, and calls of the context slicer, which do not retry (context.ts).
MCMaxAttempts == [c \in Callers |-> IF c = c1 THEN 2 ELSE 1]

MCKeys == {k1, k2}
MCEnvKeys == {k1}
MCProvider == (k1 :> real) @@ (k2 :> real)
MCPriority == (k1 :> 1) @@ (k2 :> 2)
MCQuotaLimit == (k1 :> Limit) @@ (k2 :> Unlimited)
MCModelProvider == (m1 :> real) @@ (m2 :> real) @@ (mm :> mock)

\* m2 has the role's first capability only.
MCFit == <<m1, mm>>
MCRelaxed == <<m1, m2, mm>>
=============================================================================
