------------------------------ MODULE MCHandler ------------------------------
(***************************************************************************)
(* Two clients and two names: one that is whitelisted, and a tracker that  *)
(* it may be an alias of, that some snapshots block and that is local.     *)
(* Answers with and without aliases, private and public, cacheable or not. *)
(***************************************************************************)
EXTENDS Handler

CONSTANTS c1, c2

MCClients == {c1, c2}
MCNames == {"site", "tracker"}
MCCasings == {"lower"}
MCTypes == {"A"}
MCWhitelist == {"site"}
MCBlacklists == {{}, {"tracker", "site"}}
MCLocalNames == {"tracker"}

Answer(aliases, private, cacheable) ==
    [rcode |-> "NOERROR", aliases |-> aliases, private |-> private, cacheable |-> cacheable]

MCAnswers == {Answer(<< >>, TRUE, FALSE), Answer(<<"site", "tracker">>, TRUE, TRUE),
              Answer(<<"site", "tracker">>, FALSE, TRUE)}

MCConfigs == {[uncloak |-> TRUE, rebind |-> TRUE, mode |-> "nxdomain"],
              [uncloak |-> FALSE, rebind |-> TRUE, mode |-> "zero_ip"],
              [uncloak |-> TRUE, rebind |-> FALSE, mode |-> "zero_ip"]}
=============================================================================
