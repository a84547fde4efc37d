------------------------------- MODULE MCDaemon ------------------------------
(***************************************************************************)
(* Files of every kind Load and Validate tell apart.  Budgets below, at    *)
(* and above the grace period of two ticks; a port that another process    *)
(* may take after the pre-flight check; hosts that resolve through the     *)
(* daemon and hosts that do not.                                           *)
(***************************************************************************)
EXTENDS Daemon

CONSTANTS q1

File(set) == [readable |-> TRUE, wellFormed |-> TRUE, set |-> set]
NotYAML == [readable |-> TRUE, wellFormed |-> FALSE, set |-> << >>]
One == <<IPv4>>

(* Those that get as far as serving: with updates, with a first load only, *)
(* without blocking and the address given the old way, with an address     *)
(* listed twice.                                                           *)
Updated == File([listen_addrs |-> One, timeout |-> 0])
LoadedOnce == File([listen_addrs |-> One, timeout |-> 1, update_interval |-> 0])
Unblocked ==
    File([listen_addrs |-> << >>, listen_addr |-> IPv4, timeout |-> 3, enabled |-> FALSE,
          size |-> -1, padding_block_size |-> 0, ring_buffer_size |-> -5, ttl |-> 0,
          custom_zero_ipv4 |-> "", custom_zero_ipv6 |-> "", block_mode |-> "nxdomain"])
Twice == File([listen_addrs |-> <<IPv4, IPv4>>, servers |-> <<"blank", "dot">>, timeout |-> -3,
               enabled |-> FALSE])

Failing ==
    {NotYAML,
     File([listen_addrs |-> One, servers |-> <<"blank">>]),
     File([listen_addrs |-> <<Address("::1", "colon")>>]),
     File([listen_addrs |-> <<Address("localhost", "bare")>>]),
     File([servers |-> << >>]),
     File([block_mode |-> "refuse"])}

Launch(file, testConfig, selfResolving) ==
    [file |-> file, testConfig |-> testConfig, selfResolving |-> selfResolving]

MCStarts ==
    {Launch(Updated, FALSE, TRUE), Launch(LoadedOnce, FALSE, FALSE),
     Launch(Unblocked, FALSE, TRUE), Launch(Twice, FALSE, FALSE), Launch(NoFile, TRUE, TRUE)}
    \cup {Launch(f, FALSE, FALSE) : f \in Failing}

MCQueries == {q1}
MCContended == {<<"127.0.0.1", "tcp">>}
=============================================================================
