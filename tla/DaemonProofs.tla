---------------------------- MODULE DaemonProofs -----------------------------
(***************************************************************************)
(* Proofs about Daemon, for any configuration file the types of the Config *)
(* structures accept, any ports, any number of queries and any grace       *)
(* period.                                                                 *)
(***************************************************************************)
EXTENDS Daemon, SequenceTheorems, TLAPS

-----------------------------------------------------------------------------
(* What Load returns. *)
Checked(c) ==
    /\ c.timeout \in Int
    /\ Len(GetListenAddrs(c)) > 0
    /\ \A i \in DOMAIN GetListenAddrs(c) : GetListenAddrs(c)[i].form # "bare"
    /\ c.size > 0 /\ c.padding_block_size > 0 /\ c.ring_buffer_size >= 0
    /\ c.ttl # 0 /\ "" \notin {c.custom_zero_ipv4, c.custom_zero_ipv6}
    /\ c.block_mode \in {"zero_ip", "nxdomain"}

Hosts == [host : STRING, form : STRING]

LEMMA DefaultsChecked ==
    /\ Checked(DefaultConfig)
    /\ DefaultConfig.listen_addrs = <<IPv4, IPv6>>
    /\ \A k \in {"timeout", "size", "padding_block_size", "ring_buffer_size"} :
          k \in DOMAIN DefaultConfig /\ DefaultConfig[k] \in Int
    /\ {"listen_addrs", "listen_addr", "custom_zero_ipv4", "custom_zero_ipv6", "ttl", "block_mode"}
          \subseteq DOMAIN DefaultConfig
<1>1. /\ DefaultConfig.listen_addrs = <<IPv4, IPv6>> /\ DefaultConfig.timeout = 4
      /\ DefaultConfig.size = 10000 /\ DefaultConfig.padding_block_size = 128
      /\ DefaultConfig.ring_buffer_size = 1000 /\ DefaultConfig.ttl = 300
      /\ DefaultConfig.custom_zero_ipv4 = "0.0.0.0" /\ DefaultConfig.custom_zero_ipv6 = "::"
      /\ DefaultConfig.block_mode = "zero_ip"
  BY DEF DefaultConfig
<1>2. IPv4.form = "hostport" /\ IPv6.form = "hostport"
  BY DEF IPv4, IPv6, Address
<1>3. GetListenAddrs(DefaultConfig) = <<IPv4, IPv6>>
  <2>1. <<IPv4, IPv6>> # << >>
    OBVIOUS
  <2> QED
    BY <1>1, <2>1 DEF GetListenAddrs
<1>4. \A i \in DOMAIN <<IPv4, IPv6>> : <<IPv4, IPv6>>[i].form = "hostport"
  BY <1>2
<1>5. Checked(DefaultConfig)
  BY <1>1, <1>3, <1>4 DEF Checked
<1>6. /\ \A k \in {"timeout", "size", "padding_block_size", "ring_buffer_size"} :
            k \in DOMAIN DefaultConfig /\ DefaultConfig[k] \in Int
      /\ {"listen_addrs", "listen_addr", "custom_zero_ipv4", "custom_zero_ipv6", "ttl", "block_mode"}
            \subseteq DOMAIN DefaultConfig
  BY DEF DefaultConfig
<1> QED
  BY <1>1, <1>5, <1>6

(* The values Validate repairs. *)
LEMMA RepairedSize ==
    ASSUME NEW c, c["size"] \in Int PROVE Repairs(c)["size"] > 0
  BY DEF Repairs, Positive

LEMMA RepairedBlock ==
    ASSUME NEW c, c["padding_block_size"] \in Int PROVE Repairs(c)["padding_block_size"] > 0
  BY DEF Repairs, Positive

LEMMA RepairedRing ==
    ASSUME NEW c, c["ring_buffer_size"] \in Int PROVE Repairs(c)["ring_buffer_size"] >= 0
  BY DEF Repairs

LEMMA RepairedTTL == ASSUME NEW c PROVE Repairs(c)["ttl"] # 0
  BY DEF Repairs

LEMMA RepairedAddresses ==
    ASSUME NEW c
    PROVE  Repairs(c)["custom_zero_ipv4"] # "" /\ Repairs(c)["custom_zero_ipv6"] # ""
<1>1. Repairs(c)["custom_zero_ipv4"] = IF c.custom_zero_ipv4 = "" THEN "0.0.0.0" ELSE c.custom_zero_ipv4
  BY DEF Repairs
<1>2. Repairs(c)["custom_zero_ipv6"] = IF c.custom_zero_ipv6 = "" THEN "::" ELSE c.custom_zero_ipv6
  BY DEF Repairs
<1>3. "0.0.0.0" # "" /\ "::" # ""
  OBVIOUS
<1> QED
  BY <1>1, <1>2, <1>3, Zenon

LEMMA RepairedDomain ==
    ASSUME NEW c
    PROVE  DOMAIN Repairs(c) = {"custom_zero_ipv4", "custom_zero_ipv6", "ttl", "size",
                                "padding_block_size", "ring_buffer_size"}
  BY DEF Repairs

LEMMA RepairedSettings ==
    ASSUME NEW c,
           {"timeout", "size", "padding_block_size", "ring_buffer_size", "listen_addrs", "listen_addr",
            "custom_zero_ipv4", "custom_zero_ipv6", "ttl", "block_mode"} \subseteq DOMAIN c,
           c["size"] \in Int, c["padding_block_size"] \in Int, c["ring_buffer_size"] \in Int,
           NEW r, r = Repaired(c)
    PROVE  /\ \A k \in {"timeout", "listen_addrs", "listen_addr", "block_mode"} : r[k] = c[k]
           /\ r["size"] > 0 /\ r["padding_block_size"] > 0 /\ r["ring_buffer_size"] >= 0
           /\ r["ttl"] # 0 /\ r["custom_zero_ipv4"] # "" /\ r["custom_zero_ipv6"] # ""
<1>1. PICK R : R = Repairs(c)
  OBVIOUS
<1>2. r = Replace(R, c)
  BY <1>1 DEF Repaired
<1>3. DOMAIN R = {"custom_zero_ipv4", "custom_zero_ipv6", "ttl", "size", "padding_block_size",
                  "ring_buffer_size"}
  BY <1>1, RepairedDomain, Zenon
<1>4. /\ \A k \in DOMAIN c : k \notin DOMAIN R => r[k] = c[k]
      /\ \A k \in DOMAIN R : r[k] = R[k]
  BY <1>2, <1>3 DEF Replace
<1>5. R["size"] > 0 /\ R["padding_block_size"] > 0
  BY <1>1, RepairedSize, RepairedBlock, Zenon
<1>6. R["ring_buffer_size"] >= 0
  BY <1>1, RepairedRing, Zenon
<1>7. R["ttl"] # 0
  BY <1>1, RepairedTTL, Zenon
<1>8. R["custom_zero_ipv4"] # "" /\ R["custom_zero_ipv6"] # ""
  BY <1>1, RepairedAddresses, Zenon
<1>9. \A k \in {"timeout", "listen_addrs", "listen_addr", "block_mode"} : r[k] = c[k]
  BY <1>3, <1>4
<1>10. /\ r["size"] = R["size"] /\ r["padding_block_size"] = R["padding_block_size"]
       /\ r["ring_buffer_size"] = R["ring_buffer_size"] /\ r["ttl"] = R["ttl"]
       /\ r["custom_zero_ipv4"] = R["custom_zero_ipv4"]
       /\ r["custom_zero_ipv6"] = R["custom_zero_ipv6"]
  BY <1>3, <1>4
<1>11. r["size"] > 0 /\ r["padding_block_size"] > 0 /\ r["ring_buffer_size"] >= 0
  BY <1>5, <1>6, <1>10
<1>12. r["ttl"] # 0
  BY <1>7, <1>10
<1>13. r["custom_zero_ipv4"] # "" /\ r["custom_zero_ipv6"] # ""
  BY <1>8, <1>10
<1> QED
  BY <1>9, <1>11, <1>12, <1>13

LEMMA LoadChecked == ASSUME NEW file, WellTyped(file.set), Loads(file) PROVE Checked(Load(file))
<1>1. CASE file = NoFile
  BY <1>1, DefaultsChecked DEF Load
<1>2. CASE file # NoFile
  <2>1. PICK c : c = Unmarshal(file.set, DefaultConfig)
    OBVIOUS
  <2>2. PICK D : D = DOMAIN DefaultConfig
    OBVIOUS
  <2>3. c = [k \in D |-> IF k \in DOMAIN file.set THEN file.set[k] ELSE DefaultConfig[k]]
    BY <2>1, <2>2 DEF Unmarshal, Replace
  <2>4. DOMAIN c = D /\ c = [k \in D |-> c[k]]
    BY <2>3
  <2>5. {"timeout", "size", "padding_block_size", "ring_buffer_size", "listen_addrs", "listen_addr",
         "custom_zero_ipv4", "custom_zero_ipv6", "ttl", "block_mode"} \subseteq D
    BY <2>2, DefaultsChecked
  <2>6. \A k \in {"timeout", "size", "padding_block_size", "ring_buffer_size"} : c[k] \in Int
    BY <2>3, <2>5, DefaultsChecked DEF WellTyped
  <2>7. c["listen_addrs"] = <<IPv4, IPv6>> \/ c["listen_addrs"] \in Seq(Hosts)
    BY <2>3, <2>5, DefaultsChecked DEF WellTyped, Hosts
  <2>8. Acceptable(c) /\ Load(file) = Repaired(c)
    BY <1>2, <2>1 DEF Loads, Load
  <2>9. PICK r : r = Repaired(c)
    OBVIOUS
  <2>10. /\ \A k \in {"timeout", "listen_addrs", "listen_addr", "block_mode"} : r[k] = c[k]
         /\ r["size"] > 0 /\ r["padding_block_size"] > 0 /\ r["ring_buffer_size"] >= 0
         /\ r["ttl"] # 0 /\ r["custom_zero_ipv4"] # "" /\ r["custom_zero_ipv6"] # ""
    BY <2>4, <2>5, <2>6, <2>9, RepairedSettings
  <2>11. GetListenAddrs(r) = GetListenAddrs(c)
    BY <2>10 DEF GetListenAddrs
  <2>12. Len(GetListenAddrs(c)) > 0
    <3>1. CASE c.listen_addrs = << >>
      BY <3>1 DEF GetListenAddrs
    <3>2. CASE c.listen_addrs # << >>
      BY <2>7, <3>2, EmptySeq, LenProperties DEF GetListenAddrs
    <3> QED
      BY <3>1, <3>2
  <2>13. \A i \in DOMAIN GetListenAddrs(c) : GetListenAddrs(c)[i].form # "bare"
    BY <2>8 DEF Acceptable
  <2>14. r.block_mode \in {"zero_ip", "nxdomain"}
    BY <2>8, <2>10 DEF Acceptable
  <2>15. r.timeout \in Int
    BY <2>6, <2>10
  <2> QED
    BY <2>8, <2>9, <2>10, <2>11, <2>12, <2>13, <2>14, <2>15 DEF Checked
<1> QED
  BY <1>1, <1>2

-----------------------------------------------------------------------------
SettingsOK == Checked(cfg) /\ UsableConfig

(* Listeners are started only once signals are caught. *)
StageOK ==
    /\ \A s \in DOMAIN sock : sock[s] \in {"down", "up", "draining", "failed"}
    /\ (pc \in {"start", "serve"}) <=> (sig # "none")
    /\ pc # "serve" => DOMAIN sock = {}
    /\ sig = "none" => sock = << >>
    /\ status = "killed" => sig = "none"

(* A listener drains only after a SIGTERM, and then no reload of the signal *)
(* goroutine is under way.                                                 *)
DrainOK ==
    /\ \A s \in DOMAIN sock : sock[s] = "draining" => sig = "drain" /\ cancelled
    /\ sig # "reload" => loader["signal"].pc = "idle"
    /\ sig # "drain" => grace = Grace

(* One LoadRules call at a time is between the mutex and the snapshot. *)
LoaderStates ==
    [pc : {"idle", "wait", "fetch", "publish"},
     why : {"none", "cancelled", "unreachable", "unresolved"}]

LoadersOK ==
    /\ loader \in [Callers -> LoaderStates]
    /\ \A l \in Callers : loader[l].pc \in {"fetch", "publish"} => reloadMu = l

(* Lists were only ever fetched through a listener that has been up. *)
Reached == \E s \in DOMAIN sock : s[2] = "udp" /\ sock[s] # "down"
Broken == \E s \in DOMAIN sock : sock[s] = "failed"

ListsOK ==
    /\ rules = "full" /\ env.selfResolving => Reached
    /\ \A l \in Callers : loader[l].pc = "publish" =>
          /\ loader[l].why = "none" /\ env.selfResolving => Reached
          /\ loader[l].why = "unresolved" /\ rules = "full" => Broken

(* A query of a draining listener has been in progress for as long as the  *)
(* shutdown.                                                               *)
QueryOK(q) ==
    /\ query[q] \in [at : {query[q].at}, left : Int]
    /\ Busy(q) =>
          /\ query[q].at \in DOMAIN sock
          /\ query[q].left <= Budget
          /\ sock[query[q].at] = "draining" => Budget - query[q].left >= Grace - grace

QueriesOK ==
    /\ grace \in Int
    /\ query = [q \in Queries |-> query[q]]
    /\ \A q \in Queries : QueryOK(q)

ExitOK ==
    status = "exit0" => \A q \in Queries :
        Busy(q) /\ sock[query[q].at] = "draining" => Budget - query[q].left >= Grace

Inv ==
    /\ env \in Starts
    /\ SettingsOK /\ StageOK /\ DrainOK /\ LoadersOK /\ ListsOK /\ QueriesOK /\ ExitOK

-----------------------------------------------------------------------------
LEMMA SettingsFromChecked == Checked(cfg) => SettingsOK
BY DEF SettingsOK, Checked, UsableConfig, Addrs

LEMMA BudgetNat == SettingsOK => Budget \in Nat
<1> SUFFICES ASSUME SettingsOK PROVE Budget \in Nat
  OBVIOUS
<1>1. PICK t \in Int : t = cfg.timeout
  BY DEF SettingsOK, Checked
<1>2. Budget = IF t + 1 < 0 THEN 0 ELSE t + 1
  BY <1>1 DEF Budget
<1> QED
  BY <1>2

LEMMA InvInit == Init => Inv
<1> SUFFICES ASSUME Init PROVE Inv
  OBVIOUS
<1>1. SettingsOK
  BY DefaultsChecked, SettingsFromChecked DEF Init
<1>2. DOMAIN sock = {}
  BY DEF Init
<1>3. StageOK
  BY <1>2 DEF Init, StageOK
<1>4. LoadersOK /\ \A l \in Callers : loader[l].pc = "idle"
  BY DEF Init, LoadersOK, LoaderStates, Idle
<1>5. DrainOK
  BY <1>2, <1>4 DEF Init, DrainOK, Callers
<1>6. ListsOK
  BY <1>4 DEF Init, ListsOK
<1>7. QueriesOK
  <2>1. NoQuery \in [at : {NoQuery.at}, left : Int]
    BY DEF NoQuery
  <2>2. \A q \in Queries : query[q] = NoQuery
    BY DEF Init
  <2>3. \A q \in Queries : QueryOK(q)
    BY <2>1, <2>2 DEF QueryOK, Busy
  <2>4. grace \in Int
    BY DaemonAssumption DEF Init
  <2> QED
    BY <2>2, <2>3, <2>4 DEF Init, QueriesOK
<1>8. ExitOK
  BY DEF Init, ExitOK
<1> QED
  BY <1>1, <1>3, <1>4, <1>5, <1>6, <1>7, <1>8 DEF Init, Inv

(* What a step leaves alone keeps to its part of the invariant. *)
LEMMA SettingsFrame == ASSUME SettingsOK, UNCHANGED cfg PROVE SettingsOK' /\ UNCHANGED Budget
BY DEF SettingsOK, Checked, UsableConfig, Addrs, Budget

LEMMA StageFrame == ASSUME StageOK, UNCHANGED <<pc, sig, sock, status>> PROVE StageOK'
BY DEF StageOK

LEMMA DrainFrame == ASSUME DrainOK, UNCHANGED <<sock, sig, cancelled, loader, grace>> PROVE DrainOK'
BY DEF DrainOK

LEMMA LoadersFrame == ASSUME LoadersOK, UNCHANGED <<loader, reloadMu>> PROVE LoadersOK'
BY DEF LoadersOK

LEMMA ListsFrame == ASSUME ListsOK, UNCHANGED <<env, rules, loader, sock>> PROVE ListsOK'
BY DEF ListsOK, Reached, Broken

LEMMA QueriesFrame == ASSUME QueriesOK, UNCHANGED <<query, sock, cfg, grace>> PROVE QueriesOK'
BY DEF QueriesOK, QueryOK, Busy, Budget

LEMMA ExitFrame == ASSUME ExitOK, UNCHANGED <<status, query, sock, cfg>> PROVE ExitOK'
BY DEF ExitOK, Busy, Budget

LEMMA ExitRunning == ASSUME status' # "exit0" PROVE ExitOK'
BY DEF ExitOK

-----------------------------------------------------------------------------
(* No query is in progress before the listeners have been started. *)
LEMMA NoQueryEarly == ASSUME Inv, pc # "serve" PROVE \A q \in Queries : ~Busy(q)
BY DEF Inv, StageOK, QueriesOK, QueryOK

LEMMA ExitStep ==
    ASSUME Inv, Running, NEW code, code # "killed", Exit(code),
           code = "exit0" => \/ pc # "serve"
                             \/ sig = "drain" /\ (Drained \/ grace = 0)
    PROVE  Inv'
<1>1. UNCHANGED <<env, pc, cfg, sock, sig, cancelled, loader, reloadMu, rules, query, grace>>
  BY DEF Exit, world, signals, updates, traffic
<1>2. StageOK'
  BY <1>1 DEF Inv, StageOK, Exit
<1>3. ExitOK'
  <2> SUFFICES ASSUME status' = "exit0", NEW q \in Queries, Busy(q)', sock'[query'[q].at] = "draining"
               PROVE  Budget' - query'[q].left >= Grace
    BY DEF ExitOK
  <2>1. code = "exit0" /\ Busy(q) /\ UNCHANGED Budget
    BY <1>1, SettingsFrame DEF Exit, Busy, Inv
  <2>2. sig = "drain" /\ (Drained \/ grace = 0)
    BY <2>1, NoQueryEarly
  <2>3. grace = 0
    BY <1>1, <2>1, <2>2 DEF Drained
  <2>4. /\ query[q].left \in Int /\ Budget - query[q].left >= Grace - grace
    BY <1>1, <2>1 DEF Inv, QueriesOK, QueryOK
  <2> QED
    BY <1>1, <2>1, <2>3, <2>4, DaemonAssumption
<1> QED
  BY <1>1, <1>2, <1>3, SettingsFrame, DrainFrame, LoadersFrame, ListsFrame, QueriesFrame DEF Inv

(* A LoadRules call goes to another step before the snapshot. *)
LEMMA LoaderPc ==
    ASSUME LoadersOK, NEW l \in Callers, NEW x \in {"idle", "wait", "fetch"},
           loader' = [loader EXCEPT ![l].pc = x]
    PROVE  /\ loader' \in [Callers -> LoaderStates]
           /\ loader'[l].pc = x
           /\ \A m \in Callers : m # l => loader'[m] = loader[m]
BY DEF LoadersOK, LoaderStates

LEMMA ListsKept ==
    ASSUME ListsOK, UNCHANGED <<env, rules, sock>>,
           \A m \in Callers : loader'[m] = loader[m] \/ loader'[m].pc # "publish"
    PROVE  ListsOK'
<1>1. (Reached' <=> Reached) /\ (Broken' <=> Broken)
  BY DEF Reached, Broken
<1> QED
  BY <1>1 DEF ListsOK

LEMMA LoadConfigStep == ASSUME Inv, LoadConfig PROVE Inv'
<1>1. /\ UNCHANGED <<env, status, sock, sig, cancelled, loader, reloadMu, rules, query, grace>>
      /\ status = "running" /\ pc = "config" /\ pc' = "ports"
  BY DEF LoadConfig, Goto, Running, world, signals, traffic
<1>2. Checked(cfg')
  <2>1. WellTyped(env.file.set) /\ Loads(env.file) /\ cfg' = Load(env.file)
    BY DaemonAssumption DEF Inv, LoadConfig
  <2> QED
    BY <2>1, LoadChecked
<1>3. SettingsOK'
  BY <1>2 DEF SettingsOK, Checked, UsableConfig, Addrs
<1>4. StageOK'
  BY <1>1 DEF Inv, StageOK
<1>5. QueriesOK'
  <2>1. \A q \in Queries : ~Busy(q) /\ ~Busy(q)'
    BY <1>1, NoQueryEarly DEF Busy
  <2> QED
    BY <1>1, <2>1 DEF Inv, QueriesOK, QueryOK
<1> QED
  BY <1>1, <1>3, <1>4, <1>5, DrainFrame, LoadersFrame, ListsFrame, ExitRunning DEF Inv

LEMMA PortsFreeStep == ASSUME Inv, PortsFree PROVE Inv'
<1>1. /\ UNCHANGED <<env, status, cfg, sock, sig, cancelled, reloadMu, rules, query, grace>>
      /\ status = "running" /\ pc = "ports" /\ pc' \in {"load", "init"}
  BY DEF PortsFree, Goto, Running, world, signals, traffic
<1>3. /\ loader' \in [Callers -> LoaderStates]
      /\ loader'["main"].pc \in {"idle", "wait"}
      /\ \A m \in Callers : m # "main" => loader'[m] = loader[m]
  <2>1. "main" \in Callers
    BY DEF Callers
  <2>2. PICK y \in {"idle", "wait"} : loader' = [loader EXCEPT !["main"].pc = y]
    BY DEF PortsFree
  <2> QED
    BY <2>1, <2>2, LoaderPc DEF Inv
<1>4. StageOK'
  BY <1>1 DEF Inv, StageOK
<1>5. DrainOK'
  BY <1>1, <1>3 DEF Inv, DrainOK, Callers
<1>6. LoadersOK'
  BY <1>1, <1>3 DEF Inv, LoadersOK
<1>7. ListsOK'
  BY <1>1, <1>3, ListsKept DEF Inv
<1> QED
  BY <1>1, <1>4, <1>5, <1>6, <1>7, SettingsFrame, QueriesFrame, ExitRunning DEF Inv

(* The steps of main that only go on. *)
LEMMA GotoStep ==
    ASSUME Inv, Running, pc \notin {"start", "serve"}, NEW next \in {"init", "notify"}, Goto(next),
           UNCHANGED <<cfg, sock, loader, reloadMu>>
    PROVE  Inv'
<1>1. /\ UNCHANGED <<env, status, cfg, sock, sig, cancelled, loader, reloadMu, rules, query, grace>>
      /\ status = "running" /\ pc' = next
  BY DEF Goto, Running, world, signals, traffic
<1>2. StageOK'
  BY <1>1 DEF Inv, StageOK
<1> QED
  BY <1>1, <1>2, SettingsFrame, DrainFrame, LoadersFrame, ListsFrame, QueriesFrame, ExitRunning DEF Inv

LEMMA NotifyStep == ASSUME Inv, Notify PROVE Inv'
<1>1. /\ UNCHANGED <<env, status, cfg, sock, cancelled, loader, reloadMu, rules, query, grace>>
      /\ status = "running" /\ pc = "notify" /\ pc' = "start" /\ sig' = "recv"
  BY DEF Notify, Running, world, updates, traffic
<1>2. sig = "none"
  BY <1>1 DEF Inv, StageOK
<1>3. StageOK'
  BY <1>1 DEF Inv, StageOK
<1>4. DrainOK'
  BY <1>1, <1>2 DEF Inv, DrainOK
<1> QED
  BY <1>1, <1>3, <1>4, SettingsFrame, LoadersFrame, ListsFrame, QueriesFrame, ExitRunning DEF Inv

LEMMA StartStep == ASSUME Inv, Start PROVE Inv'
<1>1. /\ UNCHANGED <<env, status, cfg, sig, cancelled, loader, reloadMu, rules, query, grace>>
      /\ status = "running" /\ pc = "start" /\ pc' = "serve"
  BY DEF Start, Goto, Running, world, signals, traffic
<1>2. DOMAIN sock = {} /\ sig # "none" /\ \A s \in DOMAIN sock' : sock'[s] = "down"
  BY <1>1 DEF Inv, StageOK, Start
<1>3. StageOK'
  BY <1>1, <1>2 DEF Inv, StageOK
<1>4. DrainOK'
  BY <1>1, <1>2 DEF Inv, DrainOK
<1>5. ListsOK'
  <2>1. ~Reached /\ ~Broken
    BY <1>2 DEF Reached, Broken
  <2> QED
    BY <1>1, <2>1 DEF Inv, ListsOK
<1>6. QueriesOK'
  <2>1. \A q \in Queries : ~Busy(q) /\ ~Busy(q)'
    BY <1>1, NoQueryEarly DEF Busy
  <2> QED
    BY <1>1, <2>1 DEF Inv, QueriesOK, QueryOK
<1> QED
  BY <1>1, <1>3, <1>4, <1>5, <1>6, SettingsFrame, LoadersFrame, ExitRunning DEF Inv

LEMMA MainStep == ASSUME Inv, Main PROVE Inv'
<1>1. CASE LoadConfig
  BY <1>1, LoadConfigStep
<1>2. CASE ConfigTested
  BY <1>2, ExitStep DEF ConfigTested
<1>3. CASE ConfigRejected \/ PortConflict \/ NoForwarder \/ StartReturns
  BY <1>3, ExitStep DEF ConfigRejected, PortConflict, NoForwarder, StartReturns
<1>4. CASE PortsFree
  BY <1>4, PortsFreeStep
<1>5. CASE StartAutoUpdate
  BY <1>5, GotoStep DEF StartAutoUpdate
<1>6. CASE NewForwarder
  BY <1>6, GotoStep DEF NewForwarder
<1>7. CASE Notify \/ Start
  BY <1>7, NotifyStep, StartStep
<1> QED
  BY <1>1, <1>2, <1>3, <1>4, <1>5, <1>6, <1>7 DEF Main

-----------------------------------------------------------------------------
(* No listener goes back to where it came from. *)
LEMMA SockStep ==
    ASSUME Inv, Running, NEW s \in DOMAIN sock, sock[s] \in {"down", "up"},
           NEW state \in {"up", "failed"}, SockTo(s, state)
    PROVE  Inv'
<1>1. /\ UNCHANGED <<env, status, pc, cfg, sig, cancelled, loader, reloadMu, rules, query, grace>>
      /\ status = "running"
  BY DEF SockTo, Running, world, signals, updates, traffic
<1>2. /\ DOMAIN sock' = DOMAIN sock /\ sock'[s] = state
      /\ \A t \in DOMAIN sock : t # s => sock'[t] = sock[t]
  BY DEF SockTo
<1>3. StageOK'
  BY <1>1, <1>2 DEF Inv, StageOK
<1>4. DrainOK'
  BY <1>1, <1>2 DEF Inv, DrainOK
<1>5. ListsOK'
  <2>1. (Reached => Reached') /\ (Broken => Broken')
    BY <1>2 DEF Reached, Broken
  <2> QED
    BY <1>1, <2>1 DEF Inv, ListsOK
<1>6. QueriesOK'
  <2>1. UNCHANGED Budget /\ \A q \in Queries : Busy(q)' <=> Busy(q)
    BY <1>1 DEF Budget, Busy
  <2> QED
    BY <1>1, <1>2, <2>1 DEF Inv, QueriesOK, QueryOK
<1> QED
  BY <1>1, <1>3, <1>4, <1>5, <1>6, SettingsFrame, LoadersFrame, ExitRunning DEF Inv

LEMMA DeliverStep == ASSUME Inv, NEW s, Deliver(s) PROVE Inv'
<1>1. /\ UNCHANGED <<env, pc, cfg, sock, sig, cancelled, loader, reloadMu, rules, query, grace>>
      /\ status = "running" /\ \/ sig = "none" /\ status' = "killed"
                               \/ UNCHANGED status
  BY DEF Deliver, Running, world, updates, traffic
<1>2. StageOK'
  BY <1>1 DEF Inv, StageOK
<1>3. ExitOK'
  BY <1>1, ExitRunning
<1> QED
  BY <1>1, <1>2, <1>3, SettingsFrame, DrainFrame, LoadersFrame, ListsFrame, QueriesFrame DEF Inv

LEMMA TakeHangupStep == ASSUME Inv, TakeHangup PROVE Inv'
<1>1. /\ UNCHANGED <<env, status, pc, cfg, sock, cancelled, reloadMu, rules, query, grace>>
      /\ status = "running" /\ sig = "recv" /\ sig' = "reload"
  BY DEF TakeHangup, Running, world, process, traffic
<1>2. /\ loader' \in [Callers -> LoaderStates] /\ loader'["signal"].pc = "wait"
      /\ \A m \in Callers : m # "signal" => loader'[m] = loader[m]
  <2>1. "signal" \in Callers /\ loader' = [loader EXCEPT !["signal"].pc = "wait"]
    BY DEF Callers, TakeHangup
  <2> QED
    BY <2>1, LoaderPc DEF Inv
<1>3. StageOK'
  BY <1>1 DEF Inv, StageOK
<1>4. DrainOK'
  BY <1>1 DEF Inv, DrainOK
<1>5. LoadersOK'
  BY <1>1, <1>2 DEF Inv, LoadersOK
<1>6. ListsOK'
  BY <1>1, <1>2, ListsKept DEF Inv
<1> QED
  BY <1>1, <1>3, <1>4, <1>5, <1>6, SettingsFrame, QueriesFrame, ExitRunning DEF Inv

LEMMA ReloadReturnsStep == ASSUME Inv, ReloadReturns PROVE Inv'
<1>1. /\ UNCHANGED <<env, status, pc, cfg, sock, cancelled, loader, reloadMu, rules, query, grace>>
      /\ status = "running" /\ sig = "reload" /\ sig' = "recv" /\ loader["signal"].pc = "idle"
  BY DEF ReloadReturns, Running, world, process, updates, traffic
<1>2. StageOK'
  BY <1>1 DEF Inv, StageOK
<1>3. DrainOK'
  BY <1>1 DEF Inv, DrainOK
<1> QED
  BY <1>1, <1>2, <1>3, SettingsFrame, LoadersFrame, ListsFrame, QueriesFrame, ExitRunning DEF Inv

(* At the SIGTERM the whole grace period is left. *)
LEMMA TakeTermStep == ASSUME Inv, TakeTerm PROVE Inv'
<1>1. /\ UNCHANGED <<env, status, pc, cfg, loader, reloadMu, rules, query, grace>>
      /\ status = "running" /\ sig = "recv" /\ sig' = "drain" /\ cancelled'
  BY DEF TakeTerm, Running, world, updates, traffic
<1>2. /\ DOMAIN sock' = DOMAIN sock
      /\ \A s \in DOMAIN sock :
            sock'[s] = IF sock[s] = "up" THEN "draining" ELSE sock[s]
  BY DEF TakeTerm
<1>3. StageOK'
  BY <1>1, <1>2 DEF Inv, StageOK
<1>4. DrainOK'
  BY <1>1 DEF Inv, DrainOK
<1>5. ListsOK'
  <2>1. (Reached => Reached') /\ (Broken => Broken')
    BY <1>2 DEF Reached, Broken
  <2> QED
    BY <1>1, <2>1 DEF Inv, ListsOK
<1>6. QueriesOK'
  <2>1. UNCHANGED Budget /\ Budget \in Nat /\ \A q \in Queries : Busy(q)' <=> Busy(q)
    BY <1>1, BudgetNat DEF Budget, Busy, Inv
  <2>2. grace = Grace
    BY <1>1 DEF Inv, DrainOK
  <2>3. ASSUME NEW q \in Queries PROVE QueryOK(q)'
    <3>1. QueryOK(q) /\ query[q].left \in Int
      BY DEF Inv, QueriesOK, QueryOK
    <3>2. Busy(q) => Budget - query[q].left >= Grace - grace
      BY <2>1, <2>2, <3>1, DaemonAssumption DEF QueryOK
    <3> QED
      BY <1>1, <1>2, <2>1, <3>1, <3>2 DEF QueryOK
  <2> QED
    BY <1>1, <2>3 DEF Inv, QueriesOK
<1> QED
  BY <1>1, <1>3, <1>4, <1>5, <1>6, SettingsFrame, LoadersFrame, ExitRunning DEF Inv

LEMMA SignalStep == ASSUME Inv, SignalGoroutine PROVE Inv'
<1>1. CASE Leave
  BY <1>1, ExitStep DEF Leave
<1> QED
  BY <1>1, TakeHangupStep, ReloadReturnsStep, TakeTermStep DEF SignalGoroutine

-----------------------------------------------------------------------------
LEMMA TickerStep == ASSUME Inv, Ticker PROVE Inv'
<1>1. /\ UNCHANGED <<env, status, pc, cfg, sock, sig, cancelled, reloadMu, rules, query, grace>>
      /\ status = "running"
  BY DEF Ticker, TickerFires, TickerStops, UpdateReturns, Running, world, process, signals, traffic
<1>2. CASE UNCHANGED loader
  BY <1>1, <1>2, SettingsFrame, StageFrame, DrainFrame, LoadersFrame, ListsFrame, QueriesFrame,
     ExitRunning DEF Inv
<1>3. CASE TickerFires
  <2>1. "ticker" \in Callers /\ loader' = [loader EXCEPT !["ticker"].pc = "wait"]
    BY <1>3 DEF Callers, TickerFires
  <2>2. /\ loader' \in [Callers -> LoaderStates] /\ loader'["ticker"].pc = "wait"
        /\ \A m \in Callers : m # "ticker" => loader'[m] = loader[m]
    BY <2>1, LoaderPc DEF Inv
  <2>3. DrainOK'
    BY <1>1, <2>2 DEF Inv, DrainOK, Callers
  <2>4. LoadersOK'
    BY <1>1, <2>2 DEF Inv, LoadersOK
  <2>5. ListsOK'
    BY <1>1, <2>2, ListsKept DEF Inv
  <2> QED
    BY <1>1, <2>3, <2>4, <2>5, SettingsFrame, StageFrame, QueriesFrame, ExitRunning DEF Inv
<1> QED
  BY <1>2, <1>3 DEF Ticker, TickerStops, UpdateReturns

LEMMA LockStep == ASSUME Inv, NEW l \in Callers, Lock(l) PROVE Inv'
<1>1. /\ UNCHANGED <<env, status, pc, cfg, sock, sig, cancelled, rules, query, grace>>
      /\ status = "running" /\ loader[l].pc = "wait" /\ reloadMu = "free"
  BY DEF Lock, Running, world, process, signals, traffic
<1>2. PICK x \in {"idle", "fetch"} : /\ loader' = [loader EXCEPT ![l].pc = x]
                                     /\ x = "fetch" => reloadMu' = l
  BY DEF Lock
<1>3. /\ loader' \in [Callers -> LoaderStates] /\ loader'[l].pc = x
      /\ \A m \in Callers : m # l => loader'[m] = loader[m]
  BY <1>2, LoaderPc DEF Inv
<1>4. \A m \in Callers : loader[m].pc \notin {"fetch", "publish"}
  BY <1>1 DEF Inv, LoadersOK, Callers
<1>5. LoadersOK'
  BY <1>2, <1>3, <1>4 DEF LoadersOK
<1>6. DrainOK'
  BY <1>1, <1>3 DEF Inv, DrainOK, Callers
<1>7. ListsOK'
  BY <1>1, <1>3, ListsKept DEF Inv
<1> QED
  BY <1>1, <1>5, <1>6, <1>7, SettingsFrame, StageFrame, QueriesFrame, ExitRunning DEF Inv

(* A list whose server could not be resolved although the lists are there: *)
(* the listener that resolved it then has failed.  It is not draining,     *)
(* since the update would have been cancelled.                             *)
LEMMA UnresolvedBroken ==
    ASSUME Inv, NEW l \in Callers, loader[l].pc = "fetch", rules = "full", Obstacle(l) = "unresolved"
    PROVE  Broken
<1>1. ~Resolves /\ ~(cancelled /\ l # "signal")
  BY DEF Obstacle
<1>2. env.selfResolving /\ \A s \in DOMAIN sock : ~(Up(s) /\ s[2] = "udp")
  BY <1>1 DEF Resolves
<1>3. PICK s \in DOMAIN sock : s[2] = "udp" /\ sock[s] # "down"
  BY <1>2 DEF Inv, ListsOK, Reached
<1>4. sock[s] # "up"
  BY <1>2, <1>3 DEF Up
<1>5. sock[s] # "draining"
  <2> SUFFICES ASSUME sock[s] = "draining" PROVE FALSE
    OBVIOUS
  <2>1. sig = "drain" /\ cancelled /\ loader["signal"].pc = "idle"
    BY DEF Inv, DrainOK
  <2> QED
    BY <1>1, <2>1
<1> QED
  BY <1>3, <1>4, <1>5 DEF Inv, StageOK, Broken

LEMMA FetchStep == ASSUME Inv, NEW l \in Callers, Fetch(l) PROVE Inv'
<1>1. /\ UNCHANGED <<env, status, pc, cfg, sock, sig, cancelled, reloadMu, rules, query, grace>>
      /\ status = "running" /\ loader[l].pc = "fetch"
  BY DEF Fetch, Running, world, process, signals, traffic
<1>2. PICK why \in {"none", "cancelled", "unreachable", "unresolved"} : why = Obstacle(l)
  BY DEF Obstacle
<1>3. PICK r \in LoaderStates : r = [pc |-> "publish", why |-> why]
  BY DEF LoaderStates
<1>4. /\ loader' \in [Callers -> LoaderStates] /\ loader'[l] = r /\ r.pc = "publish" /\ r.why = why
      /\ \A m \in Callers : m # l => loader'[m] = loader[m]
  <2>1. loader' = [loader EXCEPT ![l] = r] /\ loader \in [Callers -> LoaderStates]
    BY <1>2, <1>3 DEF Fetch, Inv, LoadersOK
  <2> QED
    BY <1>3, <2>1
<1>5. LoadersOK'
  BY <1>1, <1>4 DEF Inv, LoadersOK
<1>6. DrainOK'
  BY <1>1, <1>4 DEF Inv, DrainOK, Callers
<1>7. ListsOK'
  <2>1. (Reached' <=> Reached) /\ (Broken' <=> Broken)
    BY <1>1 DEF Reached, Broken
  <2>2. why = "unresolved" /\ rules = "full" => Broken
    BY <1>1, <1>2, UnresolvedBroken
  <2>3. why = "none" /\ env.selfResolving => Reached
    <3> SUFFICES ASSUME why = "none", env.selfResolving PROVE Reached
      OBVIOUS
    <3>1. Resolves
      BY <1>2 DEF Obstacle
    <3> QED
      BY <3>1 DEF Resolves, Reached, Up
  <2> QED
    BY <1>1, <1>4, <2>1, <2>2, <2>3 DEF Inv, ListsOK
<1> QED
  BY <1>1, <1>5, <1>6, <1>7, SettingsFrame, StageFrame, QueriesFrame, ExitRunning DEF Inv

LEMMA PublishStep == ASSUME Inv, NEW l \in Callers, Publish(l) PROVE Inv'
<1>1. /\ UNCHANGED <<env, status, pc, cfg, sock, sig, cancelled, query, grace>>
      /\ status = "running" /\ loader[l].pc = "publish"
      /\ rules' = "full" => loader[l].why = "none"
  BY DEF Publish, Running, world, process, signals, traffic
<1>2. Idle \in LoaderStates /\ Idle.pc = "idle"
  BY DEF Idle, LoaderStates
<1>3. /\ loader' \in [Callers -> LoaderStates] /\ loader'[l].pc = "idle"
      /\ \A m \in Callers : m # l => loader'[m] = loader[m]
  BY <1>2 DEF Publish, Inv, LoadersOK
<1>4. \A m \in Callers : loader'[m].pc \notin {"fetch", "publish"}
  BY <1>1, <1>3 DEF Inv, LoadersOK
<1>5. LoadersOK'
  BY <1>3, <1>4 DEF LoadersOK
<1>6. DrainOK'
  BY <1>1, <1>3 DEF Inv, DrainOK, Callers
<1>7. ListsOK'
  <2>1. Reached' <=> Reached
    BY <1>1 DEF Reached
  <2>2. rules' = "full" /\ env.selfResolving => Reached
    BY <1>1 DEF Inv, ListsOK
  <2> QED
    BY <1>1, <1>4, <2>1, <2>2 DEF ListsOK
<1> QED
  BY <1>1, <1>5, <1>6, <1>7, SettingsFrame, StageFrame, QueriesFrame, ExitRunning DEF Inv

-----------------------------------------------------------------------------
LEMMA AcceptStep ==
    ASSUME Inv, NEW q \in Queries, NEW s \in DOMAIN sock, Accept(q, s)
    PROVE  Inv'
<1>1. /\ UNCHANGED <<env, status, pc, cfg, sock, sig, cancelled, loader, reloadMu, rules, grace>>
      /\ status = "running" /\ sock[s] = "up"
  BY DEF Accept, Up, Running, world, process, signals, updates
<1>2. UNCHANGED Budget /\ Budget \in Nat
  BY <1>1, BudgetNat, SettingsFrame DEF Inv
<1>3. PICK b \in Nat : b = Budget
  BY <1>2
<1>4. query' = [query EXCEPT ![q] = [at |-> s, left |-> b]]
  BY <1>3 DEF Accept
<1>5. /\ query' = [p \in Queries |-> query'[p]]
      /\ query'[q] = [at |-> s, left |-> b]
      /\ \A p \in Queries : p # q => query'[p] = query[p]
  BY <1>4 DEF Inv, QueriesOK
<1>6. QueryOK(q)'
  BY <1>1, <1>2, <1>3, <1>5 DEF QueryOK
<1>7. ASSUME NEW p \in Queries, p # q PROVE QueryOK(p)'
  BY <1>1, <1>2, <1>5, <1>7 DEF Inv, QueriesOK, QueryOK, Busy
<1>8. QueriesOK'
  BY <1>1, <1>5, <1>6, <1>7 DEF Inv, QueriesOK
<1> QED
  BY <1>1, <1>8, SettingsFrame, StageFrame, DrainFrame, LoadersFrame, ListsFrame, ExitRunning DEF Inv

LEMMA AnswerStep == ASSUME Inv, NEW q \in Queries, Answer(q) PROVE Inv'
<1>1. /\ UNCHANGED <<env, status, pc, cfg, sock, sig, cancelled, loader, reloadMu, rules, grace>>
      /\ status = "running"
  BY DEF Answer, Running, world, process, signals, updates
<1>2. UNCHANGED Budget
  BY <1>1, SettingsFrame DEF Inv
<1>3. /\ query' = [p \in Queries |-> query'[p]] /\ query'[q] = NoQuery
      /\ \A p \in Queries : p # q => query'[p] = query[p]
  BY DEF Inv, QueriesOK, Answer
<1>4. QueryOK(q)'
  <2>1. NoQuery \in [at : {NoQuery.at}, left : Int]
    BY DEF NoQuery
  <2> QED
    BY <1>3, <2>1 DEF QueryOK, Busy
<1>5. ASSUME NEW p \in Queries, p # q PROVE QueryOK(p)'
  BY <1>1, <1>2, <1>3, <1>5 DEF Inv, QueriesOK, QueryOK, Busy
<1>6. QueriesOK'
  BY <1>1, <1>3, <1>4, <1>5 DEF Inv, QueriesOK
<1> QED
  BY <1>1, <1>6, SettingsFrame, StageFrame, DrainFrame, LoadersFrame, ListsFrame, ExitRunning DEF Inv

(* Time passes for the shutdown and for every query alike. *)
LEMMA TickStep == ASSUME Inv, Tick PROVE Inv'
<1>1. /\ UNCHANGED <<env, status, pc, cfg, sock, sig, cancelled, loader, reloadMu, rules>>
      /\ status = "running" /\ grace' = IF sig = "drain" THEN grace - 1 ELSE grace
  BY DEF Tick, Running, world, process, signals, updates
<1>2. UNCHANGED Budget /\ Budget \in Nat /\ grace \in Int /\ grace' \in Int
  BY <1>1, BudgetNat, SettingsFrame DEF Inv, QueriesOK
<1>3. DrainOK'
  BY <1>1 DEF Inv, DrainOK
<1>4. ASSUME NEW q \in Queries PROVE QueryOK(q)'
  <2>1. QueryOK(q) /\ query[q] \in [at : {query[q].at}, left : Int]
    BY DEF Inv, QueriesOK, QueryOK
  <2>2. CASE ~Busy(q)
    <3>1. query'[q] = query[q]
      BY <2>2 DEF Tick
    <3> QED
      BY <2>1, <2>2, <3>1 DEF QueryOK, Busy
  <2>3. CASE Busy(q)
    <3>1. PICK n \in Int : n = query[q].left
      BY <2>1
    <3>2. query'[q] = [query[q] EXCEPT !.left = n - 1]
      BY <2>3, <3>1 DEF Tick
    <3>3. /\ query'[q] \in [at : {query'[q].at}, left : Int] /\ query'[q].left = n - 1
          /\ query'[q].at = query[q].at
      BY <2>1, <3>1, <3>2
    <3>4. /\ query[q].at \in DOMAIN sock /\ n <= Budget
          /\ sock[query[q].at] = "draining" => Budget - n >= Grace - grace
      BY <2>1, <2>3, <3>1 DEF QueryOK
    <3>5. n - 1 <= Budget /\ (Budget - n >= Grace - grace => Budget - (n - 1) >= Grace - grace')
      BY <1>1, <1>2, <3>4, DaemonAssumption
    <3> QED
      BY <1>1, <1>2, <3>3, <3>4, <3>5 DEF QueryOK
  <2> QED
    BY <2>2, <2>3
<1>5. QueriesOK'
  BY <1>2, <1>4 DEF QueriesOK, Tick
<1> QED
  BY <1>1, <1>3, <1>5, SettingsFrame, StageFrame, LoadersFrame, ListsFrame, ExitRunning DEF Inv

LEMMA InvStep == Inv /\ [Next]_vars => Inv'
<1> SUFFICES ASSUME Inv, [Next]_vars PROVE Inv'
  OBVIOUS
<1>1. ASSUME UNCHANGED <<env, process, signals, updates, traffic>> PROVE Inv'
  <2>1. UNCHANGED <<status, pc, cfg, sock, sig, cancelled, loader, reloadMu, rules, query, grace>>
    BY <1>1 DEF process, signals, updates, traffic
  <2> QED
    BY <1>1, <2>1, SettingsFrame, StageFrame, DrainFrame, LoadersFrame, ListsFrame, QueriesFrame,
       ExitFrame DEF Inv
<1>2. CASE UNCHANGED vars
  BY <1>1, <1>2 DEF vars, world
<1>3. CASE NetChanges \/ \E p \in Contended : PortChanges(p)
  BY <1>1, <1>3 DEF NetChanges, PortChanges
<1>4. CASE \E s \in DOMAIN sock : Listen(s) \/ ListenFails(s) \/ ServeFails(s)
  BY <1>4, SockStep DEF Listen, ListenFails, ServeFails, Up
<1>5. CASE \E l \in Callers : LoadRules(l)
  BY <1>5, LockStep, FetchStep, PublishStep DEF LoadRules
<1> QED
  BY <1>2, <1>3, <1>4, <1>5, MainStep, SignalStep, TickerStep, DeliverStep, AnswerStep, AcceptStep,
     TickStep DEF Next

-----------------------------------------------------------------------------
(* The inductive invariant. *)
THEOREM Invariance == Spec => []Inv
BY InvInit, InvStep, PTL DEF Spec

(* Validate leaves nothing unusable in the configuration, whatever the     *)
(* file says.                                                              *)
THEOREM ConfigUsable == Spec => []UsableConfig
<1>1. Inv => UsableConfig
  BY DEF Inv, SettingsOK
<1> QED
  BY <1>1, Invariance, PTL

(* The signal goroutine and Shutdown: a signal kills only what does not    *)
(* serve yet, and the exit drops only queries as old as the grace period.  *)
THEOREM ShutdownCoversQueries == Spec => []GraceCoversQueries
<1>1. Inv => GraceCoversQueries
  BY DEF Inv, StageOK, ExitOK, GraceCoversQueries
<1> QED
  BY <1>1, Invariance, PTL

(* A step that publishes a snapshot without the lists had a cause outside. *)
LEMMA LostForCause ==
    ASSUME Inv, [Next]_vars, rules = "full", rules' = "empty"
    PROVE  \/ \E l \in Callers : /\ loader[l].pc = "publish"
                                 /\ loader[l].why \in {"unreachable", "cancelled"}
           \/ \E s \in DOMAIN sock : sock[s] = "failed"
<1>1. PICK l \in Callers : Publish(l)
  <2>1. rules' # rules
    OBVIOUS
  <2>2. ~UNCHANGED vars
    BY <2>1 DEF vars, updates
  <2>3. ~Main
    BY <2>1 DEF Main, LoadConfig, ConfigTested, ConfigRejected, PortsFree, PortConflict,
       StartAutoUpdate, NewForwarder, NoForwarder, Notify, Start, StartReturns, Goto, Exit, updates
  <2>4. ~SignalGoroutine /\ ~Ticker
    BY <2>1 DEF SignalGoroutine, TakeHangup, ReloadReturns, TakeTerm, Leave, Exit, Ticker,
       TickerFires, TickerStops, UpdateReturns, updates
  <2>5. /\ ~\E s \in DOMAIN sock : Listen(s) \/ ListenFails(s) \/ ServeFails(s)
        /\ ~\E s \in {"HUP", "TERM"} : Deliver(s)
    BY <2>1 DEF Listen, ListenFails, ServeFails, SockTo, Deliver, updates
  <2>6. /\ ~\E q \in Queries : Answer(q) \/ (\E s \in DOMAIN sock : Accept(q, s))
        /\ ~Tick /\ ~NetChanges /\ ~\E p \in Contended : PortChanges(p)
    BY <2>1 DEF Answer, Accept, Tick, NetChanges, PortChanges, updates
  <2>7. \A l \in Callers : ~Lock(l) /\ ~Fetch(l)
    BY <2>1 DEF Lock, Fetch
  <2> QED
    BY <2>2, <2>3, <2>4, <2>5, <2>6, <2>7 DEF Next, LoadRules
<1>2. loader[l].pc = "publish" /\ loader[l].why # "none"
  BY <1>1 DEF Publish
<1>3. loader[l].why \in {"cancelled", "unreachable", "unresolved"}
  BY <1>2 DEF Inv, LoadersOK, LoaderStates
<1>4. loader[l].why = "unresolved" => Broken
  BY <1>2 DEF Inv, ListsOK
<1> QED
  BY <1>2, <1>3, <1>4 DEF Broken

(* LoadRules under the reload mutex: while the daemon serves, a list it    *)
(* has is lost only to an unreachable server, to the termination or with a *)
(* listener, whatever reloads and updates overlap.                         *)
THEOREM ListsKeptWithoutCause == Spec => ListsLostOnlyForCause
<1>1. Inv /\ [Next]_vars =>
        [rules = "full" /\ rules' = "empty" =>
            \/ \E l \in Callers : loader[l].pc = "publish" /\ loader[l].why \in {"unreachable", "cancelled"}
            \/ \E s \in DOMAIN sock : sock[s] = "failed"]_vars
  BY LostForCause
<1> QED
  BY <1>1, Invariance, PTL DEF Spec, ListsLostOnlyForCause
=============================================================================
