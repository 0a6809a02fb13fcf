--------------------------- MODULE MCPersistence ---------------------------
(* Two runs of a task of two nodes, and the other areas at small sizes.    *)
EXTENDS Persistence
=============================================================================
