------------------------------- MODULE MCTimer -------------------------------
(* A hard timer, a soft one-shot and a soft periodic timer. *)
EXTENDS Timer
=============================================================================
