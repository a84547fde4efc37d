----------------------------- MODULE MCForwarder -----------------------------
(***************************************************************************)
(* Three resolvers, a timeout of two ticks and a budget of three.  The     *)
(* profiles cover both kinds of resolver and every behaviour of each       *)
(* transport that the code tells apart.  Queries share the round-robin     *)
(* counter only, so that of parallel calls one is enough.                  *)
(***************************************************************************)
EXTENDS Forwarder

CONSTANTS q1, q2

OneQuery == {q1}
TwoQueries == {q1, q2}

(* A strategy the code does not know is round robin. *)
AllStrategies == {"parallel", "failover", "round_robin", "fastest"}
RoundRobinOnly == {"round_robin"}

Profile(kind, udp, tcp) == [kind |-> kind, udp |-> udp, tcp |-> tcp]

MCProfiles ==
    {Profile("standard", "ok", "ok"),
     Profile("standard", "truncated", "slow"),
     Profile("standard", "refused", "ok"),
     Profile("standard", "truncated", "ok"),
     Profile("standard", "hang", "ok"),
     Profile("encrypted", "hang", "slow"),
     Profile("encrypted", "hang", "hang")}
=============================================================================
