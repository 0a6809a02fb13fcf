--------------------------- MODULE MCSharedStores ---------------------------
(***************************************************************************)
(* Two runs and the rows of earlier ones. The prompts form a chain: each   *)
(* is similar to its neighbour and the ends are not; no run asks the first *)
(* one, which older rows answer.                                           *)
(***************************************************************************)
EXTENDS SharedStores

CONSTANTS t1, t2, p1, p2, p3

MCPromptOf == [c \in Runs |-> IF c = t1 THEN p2 ELSE p3]

MCSimilar == {<<p1, p1>>, <<p2, p2>>, <<p3, p3>>, <<p1, p2>>, <<p2, p1>>, <<p2, p3>>, <<p3, p2>>}

MCKeys == {Counter, Session, Health} \cup Models \X Prompts

\* Requests differ in nothing, and nor do models.
Symmetry == Permutations(Requests) \cup Permutations(Models)
=============================================================================
