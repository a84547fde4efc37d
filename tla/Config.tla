-------------------------------- MODULE Config -------------------------------
(***************************************************************************)
(* Load and Validate of internal/config/config.go, and GetListenAddrs, as  *)
(* operators on the settings that another component's control depends on.  *)
(* A configuration file is a record [readable, wellFormed, set], where     *)
(* `set' is a record of the settings it mentions; no file is NoFile.       *)
(*                                                                         *)
(* An address is a record [host, form].  Forms: "hostport" (or ":port"),   *)
(* which net.SplitHostPort accepts; "colon", which it rejects although the *)
(* text begins with a colon ("::1"); "bare", anything else it rejects.     *)
(***************************************************************************)
EXTENDS Integers, Sequences

Address(host, form) == [host |-> host, form |-> form]
IPv4 == Address("127.0.0.1", "hostport")
IPv6 == Address("[::1]", "hostport")
NoAddress == Address("", "bare")

NoFile == [readable |-> FALSE, wellFormed |-> FALSE, set |-> << >>]

(* The time settings are in seconds; an update interval is only ever       *)
(* compared with zero.                                                     *)
DefaultConfig ==
    [listen_addrs |-> <<IPv4, IPv6>>, listen_addr |-> NoAddress,
     servers |-> <<"doh", "doh", "doh">>, timeout |-> 4,
     enabled |-> TRUE, block_mode |-> "zero_ip", update_interval |-> 86400,
     custom_zero_ipv4 |-> "0.0.0.0", custom_zero_ipv6 |-> "::", ttl |-> 300,
     size |-> 10000, padding_block_size |-> 128, ring_buffer_size |-> 1000]

(* What the types of the Config structures accept. *)
WellTyped(set) ==
    /\ "listen_addrs" \in DOMAIN set => set.listen_addrs \in Seq([host : STRING, form : STRING])
    /\ \A k \in {"timeout", "size", "padding_block_size", "ring_buffer_size"} :
          k \in DOMAIN set => set[k] \in Int

GetListenAddrs(c) ==
    IF c.listen_addrs # << >> THEN c.listen_addrs
    ELSE IF c.listen_addr # NoAddress THEN <<c.listen_addr>>
    ELSE <<IPv4, IPv6>>

Replace(set, c) == [k \in DOMAIN c |-> IF k \in DOMAIN set THEN set[k] ELSE c[k]]

(* yaml.Unmarshal into the defaults: what the file does not mention stays. *)
Unmarshal(set, c) == Replace(set, c)

(* The checks of Validate... *)
Acceptable(c) ==
    /\ \A i \in DOMAIN GetListenAddrs(c) : GetListenAddrs(c)[i].form \in {"hostport", "colon"}
    /\ c.servers # << >>
    /\ c.block_mode \in {"zero_ip", "nxdomain"}

(* ... and the values it repairs. *)
Positive(n, default) == IF n <= 0 THEN default ELSE n

Repairs(c) ==
    [custom_zero_ipv4   |-> IF c.custom_zero_ipv4 = "" THEN "0.0.0.0" ELSE c.custom_zero_ipv4,
     custom_zero_ipv6   |-> IF c.custom_zero_ipv6 = "" THEN "::" ELSE c.custom_zero_ipv6,
     ttl                |-> IF c.ttl = 0 THEN 300 ELSE c.ttl,
     size               |-> Positive(c.size, 10000),
     padding_block_size |-> Positive(c.padding_block_size, 128),
     ring_buffer_size   |-> IF c.ring_buffer_size < 0 THEN 1000 ELSE c.ring_buffer_size]

(* Mutant: only a size that is not given is replaced, not a negative one. *)
MutantNegativeSize(c) ==
    Replace([Repairs(c) EXCEPT !.size = IF c.size = 0 THEN 10000 ELSE c.size], c)

Repaired(c) == Replace(Repairs(c), c)

(* Load succeeds.  Without a file the defaults are not validated. *)
Loads(file) ==
    \/ file = NoFile
    \/ file.readable /\ file.wellFormed /\ Acceptable(Unmarshal(file.set, DefaultConfig))

Load(file) ==
    IF file = NoFile THEN DefaultConfig ELSE Repaired(Unmarshal(file.set, DefaultConfig))
=============================================================================
