----------------------------- MODULE MCTaskSync -----------------------------
(***************************************************************************)
(* Two tasks, the older of which the server may forget, and runs of the    *)
(* worker that take one row each, for TLC.                                 *)
(***************************************************************************)
EXTENDS TaskSync
=============================================================================
