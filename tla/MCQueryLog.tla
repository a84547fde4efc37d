----------------------------- MODULE MCQueryLog ------------------------------
(* A ring of three slots, three pushers and two and a half laps. *)
EXTENDS QueryLog, TLC

CONSTANTS p1, p2, p3

MCPushers == {p1, p2, p3}
MCLimits == {0, 2, 3, 5}

Symmetry == Permutations(MCPushers)
=============================================================================
