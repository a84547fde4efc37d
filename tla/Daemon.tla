-------------------------------- MODULE Daemon -------------------------------
(***************************************************************************)
(* The life of the process: main of cmd/tuxdnshole/main.go, its signal     *)
(* goroutine and the update ticker, with the listeners of                  *)
(* internal/dns/server.go.                                                 *)
(*                                                                         *)
(* Seen from outside: a LoadRules call takes the reload mutex, fetches the *)
(* lists and publishes what it could fetch (FilterEngine); a query is in   *)
(* progress for at most timeout + 1s (Forwarder).  A host may resolve      *)
(* names through this very daemon, as scripts/setup-resolvconf.sh sets it  *)
(* up: then a list can be fetched only while a UDP listener serves.        *)
(***************************************************************************)
EXTENDS Config, FiniteSets

CONSTANTS
    Starts,       \* how the process may be started: [file, testConfig, selfResolving]
    Contended,    \* <<host, protocol>> pairs that other processes may bind
    Queries,      \* queries in progress
    Grace         \* the 5 s Shutdown waits for queries, in ticks

ASSUME DaemonAssumption ==
    /\ Grace \in Nat
    /\ \A start \in Starts : WellTyped(start.file.set)

VARIABLES
    env,       \* how it was started, never changes
    taken,     \* those of Contended that another process holds
    netUp,     \* whether the list servers can be reached
    status,    \* "running", "exit0", "exit1" or "killed"
    pc,        \* the step main is at
    cfg,       \* the loaded configuration
    sock,      \* the listeners, by [number of the address, protocol]
    sigCh,     \* the signal channel
    sig,       \* the signal goroutine: "none", "recv", "reload" or "drain"
    cancelled, \* the root context is cancelled
    ticker,    \* the update goroutine: "none", "select", "load" or "stopped"
    loader,    \* the LoadRules call of each caller
    reloadMu,  \* holder of the reload mutex
    rules,     \* the published snapshot: "empty", or "full" with the remote lists
    query,     \* per query: [at, left], the listener it came from and its time left
    grace      \* what is left of the shutdown timeout

world == <<env, taken, netUp>>
process == <<status, pc, cfg, sock>>
signals == <<sigCh, sig, cancelled>>
updates == <<ticker, loader, reloadMu, rules>>
traffic == <<query, grace>>
vars == <<world, process, signals, updates, traffic>>

Callers == {"main", "signal", "ticker"}
Protocols == {"udp", "tcp"}

Addrs == GetListenAddrs(cfg)
Sockets == (1..Len(Addrs)) \X Protocols
Port(s) == <<Addrs[s[1]].host, s[2]>>

Running == status = "running"
Up(s) == s \in DOMAIN sock /\ sock[s] = "up"

NoQuery == [at |-> << >>, left |-> 0]
Idle == [pc |-> "idle", why |-> "none"]

(* The budget of handler.go:96; a context may be made past its deadline. *)
Budget == IF cfg.timeout + 1 < 0 THEN 0 ELSE cfg.timeout + 1

-----------------------------------------------------------------------------
Init ==
    /\ env \in Starts
    /\ taken \in SUBSET Contended
    /\ netUp \in BOOLEAN
    /\ status = "running"
    /\ pc = "config"
    /\ cfg = DefaultConfig
    /\ sock = << >>
    /\ sigCh = << >>
    /\ sig = "none"
    /\ cancelled = FALSE
    /\ ticker = "none"
    /\ loader = [l \in Callers |-> Idle]
    /\ reloadMu = "free"
    /\ rules = "empty"
    /\ query = [q \in Queries |-> NoQuery]
    /\ grace = Grace

Exit(code) ==
    /\ status' = code
    /\ UNCHANGED <<world, pc, cfg, sock, signals, updates, traffic>>

Goto(next) ==
    /\ pc' = next
    /\ UNCHANGED <<world, status, signals, rules, traffic>>

(* 1. Load the configuration; -test-config goes no further. *)
LoadConfig ==
    /\ Running /\ pc = "config" /\ Loads(env.file) /\ ~env.testConfig
    /\ cfg' = Load(env.file)
    /\ Goto("ports")
    /\ UNCHANGED <<sock, ticker, loader, reloadMu>>

ConfigTested ==
    /\ Running /\ pc = "config" /\ Loads(env.file) /\ env.testConfig
    /\ Exit("exit0")

ConfigRejected ==
    /\ Running /\ pc = "config" /\ ~Loads(env.file)
    /\ Exit("exit1")

(* 2. checkPortAvailability binds every address, one at a time, and lets   *)
(* it go again.                                                            *)
Bindable(s) == Addrs[s[1]].form = "hostport" /\ Port(s) \notin taken

PortsFree ==
    /\ Running /\ pc = "ports"
    /\ \A s \in Sockets : Bindable(s)
    /\ Goto(IF cfg.enabled THEN "load" ELSE "init")
    /\ loader' = [loader EXCEPT !["main"].pc = IF cfg.enabled THEN "wait" ELSE "idle"]
    /\ UNCHANGED <<cfg, sock, ticker, reloadMu>>

PortConflict ==
    /\ Running /\ pc = "ports"
    /\ \E s \in Sockets : ~Bindable(s)
    /\ Exit("exit1")

(* 5. The first load has returned: StartAutoUpdate. *)
StartAutoUpdate ==
    /\ Running /\ pc = "load" /\ loader["main"].pc = "idle"
    /\ ticker' = IF cfg.update_interval > 0 THEN "select" ELSE "none"
    /\ Goto("init")
    /\ UNCHANGED <<cfg, sock, loader, reloadMu>>

(* 6. NewForwarder skips blank servers and fails if none is left. *)
Usable == {i \in DOMAIN cfg.servers : cfg.servers[i] # "blank"}

NewForwarder ==
    /\ Running /\ pc = "init" /\ Usable # {}
    /\ Goto("notify")
    /\ UNCHANGED <<cfg, sock, ticker, loader, reloadMu>>

NoForwarder ==
    /\ Running /\ pc = "init" /\ Usable = {}
    /\ Exit("exit1")

(* 9. From here on signals go to the channel, and a goroutine takes them. *)
Notify ==
    /\ Running /\ pc = "notify"
    /\ pc' = "start" /\ sig' = "recv"
    /\ UNCHANGED <<world, status, cfg, sock, sigCh, cancelled, updates, traffic>>

(* 10. Start: one goroutine per address and protocol. *)
Start ==
    /\ Running /\ pc = "start"
    /\ sock' = [s \in Sockets |-> "down"]
    /\ Goto("serve")
    /\ UNCHANGED <<cfg, ticker, loader, reloadMu>>

(* Mutant: Start waits for every listener before it returns an error. *)
MutantWaitForAll ==
    /\ Running /\ pc = "serve"
    /\ \A s \in DOMAIN sock : sock[s] = "failed"
    /\ Exit("exit1")

(* The error of a listener reached main: fatal. *)
StartReturns ==
    /\ Running /\ pc = "serve"
    /\ \E s \in DOMAIN sock : sock[s] = "failed"
    /\ Exit("exit1")

Main ==
    \/ LoadConfig \/ ConfigTested \/ ConfigRejected \/ PortsFree \/ PortConflict
    \/ StartAutoUpdate \/ NewForwarder \/ NoForwarder \/ Notify \/ Start \/ StartReturns

-----------------------------------------------------------------------------
SockTo(s, state) ==
    /\ sock' = [sock EXCEPT ![s] = state]
    /\ UNCHANGED <<world, status, pc, cfg, signals, updates, traffic>>

(* The same address may be listed twice. *)
Mine(p) == \E s \in DOMAIN sock : sock[s] \in {"up", "draining"} /\ Port(s) = p

(* ListenAndServe: bind... *)
Listen(s) ==
    /\ Running /\ s \in DOMAIN sock /\ sock[s] = "down"
    /\ Bindable(s) /\ ~Mine(Port(s))
    /\ SockTo(s, "up")

(* ... which fails if the port went to somebody since the pre-flight check *)
ListenFails(s) ==
    /\ Running /\ s \in DOMAIN sock /\ sock[s] = "down"
    /\ ~Bindable(s) \/ Mine(Port(s))
    /\ SockTo(s, "failed")

(* ... and an error of the socket later on. *)
ServeFails(s) ==
    /\ Running /\ Up(s)
    /\ SockTo(s, "failed")

-----------------------------------------------------------------------------
(* A signal is sent.  Until Notify it has its default effect; then it is   *)
(* put into the channel if there is room, which is one place.              *)
Deliver(s) ==
    /\ Running
    /\ IF sig = "none"
       THEN status' = "killed" /\ UNCHANGED sigCh
       ELSE /\ sigCh' = IF sigCh = << >> THEN <<s>> ELSE sigCh
            /\ UNCHANGED status
    /\ UNCHANGED <<world, pc, cfg, sock, sig, cancelled, updates, traffic>>

(* The signal goroutine takes a SIGHUP and calls LoadRules... *)
TakeHangup ==
    /\ Running /\ sig = "recv" /\ sigCh = <<"HUP">>
    /\ sigCh' = << >>
    /\ sig' = "reload"
    /\ loader' = [loader EXCEPT !["signal"].pc = "wait"]
    /\ UNCHANGED <<world, process, cancelled, ticker, reloadMu, rules, traffic>>

ReloadReturns ==
    /\ Running /\ sig = "reload" /\ loader["signal"].pc = "idle"
    /\ sig' = "recv"
    /\ UNCHANGED <<world, process, sigCh, cancelled, updates, traffic>>

(* ... or a SIGTERM: the root context is cancelled and every listener that *)
(* has been started takes no more queries.  One that has not is an error,  *)
(* which is only logged.                                                   *)
TakeTerm ==
    /\ Running /\ sig = "recv" /\ sigCh = <<"TERM">>
    /\ sigCh' = << >>
    /\ sig' = "drain"
    /\ cancelled' = TRUE
    /\ sock' = [s \in DOMAIN sock |-> IF sock[s] = "up" THEN "draining" ELSE sock[s]]
    /\ UNCHANGED <<world, status, pc, cfg, updates, traffic>>

Busy(q) == query[q] # NoQuery
Drained == \A q \in Queries : Busy(q) => sock[query[q].at] # "draining"

(* Mutant: nobody waits for the handlers. *)
MutantNoDrain ==
    /\ Running /\ sig = "drain"
    /\ Exit("exit0")

(* Shutdown returns when the queries of those listeners are answered or    *)
(* its time is up; then the process exits.                                 *)
Leave ==
    /\ Running /\ sig = "drain"
    /\ Drained \/ grace = 0
    /\ Exit("exit0")

-----------------------------------------------------------------------------
(* StartAutoUpdate's goroutine.  With the context cancelled and a tick     *)
(* pending, select may still choose the tick.                              *)
TickerFires ==
    /\ Running /\ ticker = "select"
    /\ ticker' = "load"
    /\ loader' = [loader EXCEPT !["ticker"].pc = "wait"]
    /\ UNCHANGED <<world, process, signals, reloadMu, rules, traffic>>

TickerStops ==
    /\ Running /\ ticker = "select" /\ cancelled
    /\ ticker' = "stopped"
    /\ UNCHANGED <<world, process, signals, loader, reloadMu, rules, traffic>>

(* Mutant: the goroutine ends after one update. *)
MutantOneUpdate ==
    /\ Running /\ ticker = "load" /\ loader["ticker"].pc = "idle"
    /\ ticker' = "stopped"
    /\ UNCHANGED <<world, process, signals, loader, reloadMu, rules, traffic>>

UpdateReturns ==
    /\ Running /\ ticker = "load" /\ loader["ticker"].pc = "idle"
    /\ ticker' = "select"
    /\ UNCHANGED <<world, process, signals, loader, reloadMu, rules, traffic>>

(* Mutant: the old rules are dropped when a reload begins. *)
MutantClearFirst(l) ==
    /\ Running /\ loader[l].pc = "wait" /\ reloadMu = "free"
    /\ loader' = [loader EXCEPT ![l].pc = IF cfg.enabled THEN "fetch" ELSE "idle"]
    /\ reloadMu' = IF cfg.enabled THEN l ELSE "free"
    /\ rules' = "empty"
    /\ UNCHANGED <<world, process, signals, ticker, traffic>>

(* LoadRules: the mutex (at once released if blocking is disabled)... *)
Lock(l) ==
    /\ Running /\ loader[l].pc = "wait" /\ reloadMu = "free"
    /\ loader' = [loader EXCEPT ![l].pc = IF cfg.enabled THEN "fetch" ELSE "idle"]
    /\ reloadMu' = IF cfg.enabled THEN l ELSE "free"
    /\ UNCHANGED <<world, process, signals, ticker, rules, traffic>>

(* A list server has to be resolved and reached, under the caller's        *)
(* context: the root for main and ticker, one of its own for a SIGHUP.     *)
Resolves == ~env.selfResolving \/ \E s \in DOMAIN sock : Up(s) /\ s[2] = "udp"

Obstacle(l) ==
    IF cancelled /\ l # "signal" THEN "cancelled"
    ELSE IF ~netUp THEN "unreachable"
    ELSE IF ~Resolves THEN "unresolved"
    ELSE "none"

Fetch(l) ==
    /\ Running /\ loader[l].pc = "fetch"
    /\ loader' = [loader EXCEPT ![l] = [pc |-> "publish", why |-> Obstacle(l)]]
    /\ UNCHANGED <<world, process, signals, ticker, reloadMu, rules, traffic>>

(* Mutant: the mutex is not released. *)
MutantKeepLock(l) ==
    /\ Running /\ loader[l].pc = "publish"
    /\ rules' = IF loader[l].why = "none" THEN "full" ELSE "empty"
    /\ loader' = [loader EXCEPT ![l] = Idle]
    /\ UNCHANGED <<world, process, signals, ticker, reloadMu, traffic>>

(* ... and the snapshot, with or without the list. *)
Publish(l) ==
    /\ Running /\ loader[l].pc = "publish"
    /\ rules' = IF loader[l].why = "none" THEN "full" ELSE "empty"
    /\ loader' = [loader EXCEPT ![l] = Idle]
    /\ reloadMu' = "free"
    /\ UNCHANGED <<world, process, signals, ticker, traffic>>

-----------------------------------------------------------------------------
(* A query comes in through a listener and is answered within its budget. *)
Accept(q, s) ==
    /\ Running /\ ~Busy(q) /\ Up(s)
    /\ query' = [query EXCEPT ![q] = [at |-> s, left |-> Budget]]
    /\ UNCHANGED <<world, process, signals, updates, grace>>

Answer(q) ==
    /\ Running /\ Busy(q)
    /\ query' = [query EXCEPT ![q] = NoQuery]
    /\ UNCHANGED <<world, process, signals, updates, grace>>

(* The query's context has expired: Forward returns (see Forwarder). *)
Overdue(q) == query[q].left = 0 /\ Answer(q)

(* Time passes. *)
Tick ==
    /\ Running
    /\ sig = "drain" \/ \E q \in Queries : Busy(q)
    /\ sig = "drain" => grace > 0
    /\ \A q \in Queries : Busy(q) => query[q].left > 0
    /\ query' = [q \in Queries |-> IF Busy(q) THEN [query[q] EXCEPT !.left = @ - 1] ELSE query[q]]
    /\ grace' = IF sig = "drain" THEN grace - 1 ELSE grace
    /\ UNCHANGED <<world, process, signals, updates>>

(* The world: other processes bind and release ports, the network comes    *)
(* and goes.                                                               *)
PortChanges(p) ==
    /\ Running /\ ~Mine(p)
    /\ taken' = IF p \in taken THEN taken \ {p} ELSE taken \cup {p}
    /\ UNCHANGED <<env, netUp, process, signals, updates, traffic>>

NetChanges ==
    /\ Running
    /\ netUp' = ~netUp
    /\ UNCHANGED <<env, taken, process, signals, updates, traffic>>

SignalGoroutine == TakeHangup \/ ReloadReturns \/ TakeTerm \/ Leave
Ticker == TickerFires \/ TickerStops \/ UpdateReturns
LoadRules(l) == Lock(l) \/ Fetch(l) \/ Publish(l)

Next ==
    \/ Main \/ SignalGoroutine \/ Ticker
    \/ \E l \in Callers : LoadRules(l)
    \/ \E s \in DOMAIN sock : Listen(s) \/ ListenFails(s) \/ ServeFails(s)
    \/ \E s \in {"HUP", "TERM"} : Deliver(s)
    \/ \E q \in Queries : Answer(q) \/ (\E s \in DOMAIN sock : Accept(q, s))
    \/ Tick \/ NetChanges
    \/ \E p \in Contended : PortChanges(p)

(* The Go scheduler runs every goroutine that can run, the mutex is handed *)
(* to whoever waits long enough, tickers tick and time passes.  Queries,   *)
(* signals, other processes and the network are free.                      *)
Fairness ==
    /\ WF_vars(Main) /\ WF_vars(SignalGoroutine) /\ WF_vars(Ticker)
    /\ \A l \in Callers : SF_vars(Lock(l)) /\ WF_vars(Fetch(l) \/ Publish(l))
    /\ WF_vars(\E s \in DOMAIN sock : Listen(s) \/ ListenFails(s))
    /\ WF_vars(Tick) /\ \A q \in Queries : WF_vars(Overdue(q))

Spec == Init /\ [][Next]_vars /\ Fairness

-----------------------------------------------------------------------------
Stopped == ~Running

(* Whatever the file says, what the components are built from is usable:   *)
(* NewCache gets a positive capacity, padding a positive block, the        *)
(* sinkhole an address and a mode it knows, and there is an address to     *)
(* listen on.                                                              *)
UsableConfig ==
    /\ Len(Addrs) > 0 /\ \A i \in DOMAIN Addrs : Addrs[i].form # "bare"
    /\ cfg.size > 0 /\ cfg.padding_block_size > 0 /\ cfg.ring_buffer_size >= 0
    /\ cfg.ttl # 0 /\ "" \notin {cfg.custom_zero_ipv4, cfg.custom_zero_ipv6}
    /\ cfg.block_mode \in {"zero_ip", "nxdomain"}

(* No signal cuts a query off: it kills the daemon only before a listener  *)
(* has been started (during the first load, which may take 45 s, also a    *)
(* SIGHUP does), and a query accepted before the shutdown is dropped by    *)
(* the exit only if it has been in progress for the whole grace period.    *)
(* With the default timeout of 4 s, whose budget is 5 s, that is a query   *)
(* whose upstream servers are all silent.                                  *)
GraceCoversQueries ==
    /\ status = "killed" => sock = << >>
    /\ status = "exit0" => \A q \in Queries :
          Busy(q) /\ sock[query[q].at] = "draining" => Budget - query[q].left >= Grace

(* While it serves, the daemon loses its lists only to an unreachable      *)
(* server or to its own termination, which cancels an update in progress,  *)
(* never to a name it should have resolved itself.  (That its own filter   *)
(* blocks the host of a list is not modelled.)                             *)
ListsLostOnlyForCause ==
    [][rules = "full" /\ rules' = "empty" =>
          \/ \E l \in Callers : loader[l].pc = "publish" /\ loader[l].why \in {"unreachable", "cancelled"}
          \/ \E s \in DOMAIN sock : sock[s] = "failed"]_vars

(* A port that was lost between the pre-flight check and the bind, an      *)
(* address listed twice or a listener that dies never leaves the daemon    *)
(* serving on some of its addresses: it comes to serve on all of them, or  *)
(* it stops.                                                               *)
AllListenersOrNone ==
    /\ (pc = "serve" ~> Stopped \/ \A s \in Sockets : Up(s))
    /\ ((\E s \in DOMAIN sock : sock[s] = "failed") ~> Stopped)

(* A SIGTERM that got into the channel ends the process, whatever reloads  *)
(* and queries are in progress.  (One that found a SIGHUP waiting there    *)
(* is lost.)                                                               *)
TerminationHonoured == (sigCh = <<"TERM">>) ~> Stopped

(* Cold start: on a host that resolves through the daemon the first load   *)
(* cannot succeed, but if updates are scheduled, the lists are there some  *)
(* day and from then on, once the network and the daemon stay up.          *)
ColdStartRecovers ==
    <>[](Running /\ netUp /\ cfg.enabled /\ cfg.update_interval > 0) => <>[](rules = "full")
=============================================================================
