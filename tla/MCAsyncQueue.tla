----------------------------- MODULE MCAsyncQueue -----------------------------
(* The instance of AsyncQueue that TLC checks: two producers, two calls of  *)
(* next() and a queue of two places, which either producer can find full.   *)
EXTENDS AsyncQueue

CONSTANTS p1, p2, c1, c2
=============================================================================
