------------------------- MODULE MCDirectChannelPool -------------------------
(* The instance of DirectChannelPool that TLC checks. *)
EXTENDS DirectChannelPool

CONSTANTS k1, k2, e1, e2, e3, l1, l2, l3
=============================================================================
