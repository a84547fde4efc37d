----------------------------- MODULE MCLRUCache ------------------------------
(***************************************************************************)
(* A small instance of LRUCache: three keys for a cache of at most two,    *)
(* half-second ticks, responses of every class Set tells apart and a       *)
(* configuration for every branch of NewCache and of the clamp.            *)
(***************************************************************************)
EXTENDS LRUCache

CONSTANTS k1, k2, k3, p1, p2

MCKeys == {k1, k2, k3}
MCProcs == {p1, p2}

MCResponses ==
    {[rcode |-> "NOERROR",  truncated |-> FALSE, ttls |-> {1, 2}],
     [rcode |-> "NXDOMAIN", truncated |-> FALSE, ttls |-> {}],
     [rcode |-> "NOERROR",  truncated |-> FALSE, ttls |-> {0, 5}],
     [rcode |-> "NOERROR",  truncated |-> TRUE,  ttls |-> {1}],
     [rcode |-> "SERVFAIL", truncated |-> FALSE, ttls |-> {1}]}

Section(enabled, size, min, max) ==
    [enabled |-> enabled, size |-> size, minTTL |-> min, maxTTL |-> max]

MCConfigs ==
    {Section(FALSE, 2, 2, 4), Section(TRUE, 0, 2, 4),  \* disabled, by flag and by size
     Section(TRUE, 2, 3, 3),   \* 1.5s each, truncated to 1s
     Section(TRUE, 1, 1, 1),   \* both below a second: no clamp at all
     Section(TRUE, 1, 4, 2),   \* min above max: max wins
     Section(TRUE, 1, 0, 0)}   \* defaults: 60s and 86400s

Symmetry == Permutations(MCKeys) \cup Permutations(MCProcs)
=============================================================================
