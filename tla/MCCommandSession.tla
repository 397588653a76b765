-------------------------- MODULE MCCommandSession --------------------------
(* The instance of CommandSession that TLC checks: empty chunks and chunks  *)
(* longer than the limit, a live queue of one place.                       *)
EXTENDS CommandSession
=============================================================================
