--------------------------- MODULE MCTraceStream ---------------------------
(***************************************************************************)
(* One phone and one SSE viewer on one task, for TLC. Phones meet only in  *)
(* the slots, and the broken connections of one fill them just as well.    *)
(* The task is run twice: its first run emits task_received at offset 0    *)
(* and then classifying, the second task_received at 0 and then completed. *)
(***************************************************************************)
EXTENDS TraceStream

MCOrder == <<1, 3, 2, 4>>
MCIdentity == <<"task_received", "task_received", "classifying", "completed">>
=============================================================================
