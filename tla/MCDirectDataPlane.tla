-------------------------- MODULE MCDirectDataPlane --------------------------
(* The instance of DirectDataPlane that TLC checks. *)
EXTENDS DirectDataPlane

CONSTANTS s1, s2, c1, c2, o1, o2, k1, k2, e1, e2
=============================================================================
