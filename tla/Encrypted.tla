------------------------------ MODULE Encrypted ------------------------------
(***************************************************************************)
(* The clients of one encrypted upstream: DoHClient of                     *)
(* internal/upstream/doh.go and DoTClient of internal/upstream/dot.go.     *)
(* Concurrent exchanges share the counter that chooses the first bootstrap *)
(* address and, for DoH, the connection pool of the HTTP client.           *)
(*                                                                         *)
(* An address belongs to this provider or to another one, whose servers    *)
(* accept the connection but have no certificate for this host.  Code      *)
(* takes no time; `left' is the time to the deadline of an exchange.       *)
(***************************************************************************)
EXTENDS Integers, Sequences, FiniteSets, SequencesExt

CONSTANTS
    Queries,    \* exchanges in progress
    Own,        \* the addresses of this provider
    Setups,     \* [kind, hostIP, mapped, wellKnown, custom, selfResolving]
    Nets,       \* how the addresses behave: functions from addresses
    Timeout,    \* the deadline of an exchange, in ticks
    MaxStreak   \* bound on the failures counted in a row

ASSUME EncryptedAssumption ==
    /\ Timeout \in Nat /\ MaxStreak \in Nat
    /\ IsFiniteSet(Queries) /\ Queries # {}
    /\ \A s \in Setups :
          /\ s.kind \in {"doh", "dot"}
          /\ \A src \in {s.hostIP, s.mapped, s.wellKnown, s.custom} : src \in Seq(STRING)
    /\ \A n \in Nets : \A a \in DOMAIN n :
          n[a] \in {"answers", "refuses", "silent", "stalls", "errs"}

VARIABLES
    setup,      \* the client's configuration, never changes
    net,        \* the behaviour of each address, never changes
    ipCounter,  \* the shared counter, modulo the number of addresses
    pool,       \* DoH: [state, at], the pooled connection
    ex,         \* per query: [phase, start, tried, left, at]
    streak      \* history: exchanges that dialled and failed since one
                \* succeeded or a pooled connection was lost

vars == <<setup, net, ipCounter, pool, ex, streak>>

-----------------------------------------------------------------------------
(* Mutant: general addresses only if there is nothing better. *)
MutantCustomLast(s) ==
    LET found == s.hostIP \o s.mapped IN
    IF found # << >> THEN found ELSE s.wellKnown

(* NewDoHClient and NewDoTClient: the host itself if it is an address,     *)
(* the configured ones, else the well-known ones; then the general ones,   *)
(* whoever they belong to.                                                 *)
bootstrapIPs(s) ==
    LET found == s.hostIP \o s.mapped IN
    (IF found # << >> THEN found ELSE s.wellKnown) \o s.custom

IPs == bootstrapIPs(setup)
N == Len(IPs)
DoH == setup.kind = "doh"

NoConn == [state |-> "none", at |-> ""]
Quiet == [phase |-> "idle", start |-> 0, tried |-> 0, left |-> 0, at |-> ""]

Init ==
    /\ setup \in Setups
    /\ net \in Nets
    /\ ipCounter = 0
    /\ pool = NoConn
    /\ ex = [q \in Queries |-> Quiet]
    /\ streak = 0

(* The address at a turn of the loop over the bootstrap addresses. *)
Candidate(start, tried) == IPs[((start + tried) % N) + 1]

Ready(q) == ex[q].phase \in {"idle", "ok", "err"}

(* Mutant: the counter is not advanced. *)
MutantNoRotation(q) ==
    /\ Ready(q) /\ N > 0 /\ (DoH => pool = NoConn)
    /\ ex' = [ex EXCEPT ![q] = [phase |-> "dial", start |-> 0, tried |-> 0, left |-> Timeout,
                                at |-> Candidate(0, 0)]]
    /\ UNCHANGED <<setup, net, ipCounter, pool, streak>>

(* Exchange without a connection in the pool: dialContext (DoH), or the    *)
(* loop of DoTClient.Exchange, draws a starting point.                     *)
Draw(q) ==
    /\ Ready(q) /\ N > 0 /\ (DoH => pool = NoConn)
    /\ ipCounter' = (ipCounter + 1) % N
    /\ LET idx == (ipCounter + 1) % N IN
       ex' = [ex EXCEPT ![q] = [phase |-> "dial", start |-> idx, tried |-> 0, left |-> Timeout,
                                at |-> Candidate(idx, 0)]]
    /\ UNCHANGED <<setup, net, pool, streak>>

(* Without addresses the host name is dialled, and so resolved. *)
DialByName(q) ==
    /\ Ready(q) /\ N = 0 /\ (DoH => pool = NoConn)
    /\ ex' = [ex EXCEPT ![q] = [phase |-> "resolve", start |-> 0, tried |-> 0, left |-> Timeout,
                                at |-> ""]]
    /\ UNCHANGED <<setup, net, ipCounter, pool, streak>>

(* DoH: a pooled connection is used, also by a request whose dial is still *)
(* under way.                                                              *)
Reuse(q) ==
    /\ DoH /\ pool # NoConn
    /\ Ready(q) \/ ex[q].phase \in {"dial", "tls"}
    /\ ex' = [ex EXCEPT ![q] = [phase |-> "pooled", start |-> 0, tried |-> 0, at |-> pool.at,
                                left |-> IF Ready(q) THEN Timeout ELSE @.left]]
    /\ UNCHANGED <<setup, net, ipCounter, pool, streak>>

-----------------------------------------------------------------------------
Phase(q, phase) ==
    /\ ex' = [ex EXCEPT ![q].phase = phase]
    /\ UNCHANGED <<setup, net, ipCounter>>

Fail(q) ==
    /\ Phase(q, "err")
    /\ streak' = IF ex[q].phase # "pooled" /\ streak < MaxStreak THEN streak + 1 ELSE streak
    /\ UNCHANGED pool

(* Mutant: the loop begins again after the last address. *)
MutantWrapAround(q) ==
    /\ ex' = [ex EXCEPT ![q].phase = "dial", ![q].tried = (@ + 1) % N,
                        ![q].at = Candidate(ex[q].start, ex[q].tried + 1)]
    /\ UNCHANGED <<setup, net, ipCounter, pool, streak>>

(* This address failed: the next one, or an error. *)
NextAddress(q) ==
    IF ex[q].tried + 1 = N THEN Fail(q)
    ELSE /\ ex' = [ex EXCEPT ![q].phase = "dial", ![q].tried = @ + 1,
                             ![q].at = Candidate(ex[q].start, ex[q].tried + 1)]
         /\ UNCHANGED <<setup, net, ipCounter, pool, streak>>

(* The system resolver answers, unless it asks this daemon, which is       *)
(* waiting for the upstream that is being resolved.                        *)
Resolved(q) ==
    /\ ex[q].phase = "resolve" /\ ex[q].left > 0 /\ ~setup.selfResolving
    /\ \E a \in Own : ex' = [ex EXCEPT ![q].phase = "dial", ![q].at = a]
    /\ UNCHANGED <<setup, net, ipCounter, pool, streak>>

ResolveFails(q) ==
    /\ ex[q].phase = "resolve" /\ ex[q].left = 0
    /\ Fail(q)

Connected(q) ==
    /\ ex[q].phase = "dial" /\ ex[q].left > 0
    /\ net[ex[q].at] \in {"answers", "errs", "stalls"}
    /\ Phase(q, "tls")
    /\ UNCHANGED <<pool, streak>>

(* The dial is refused, or the deadline passes; then later dials fail at   *)
(* once.                                                                   *)
DialFails(q) ==
    /\ ex[q].phase = "dial"
    /\ net[ex[q].at] = "refuses" \/ ex[q].left = 0
    /\ IF N = 0 THEN Fail(q) ELSE NextAddress(q)

(* The certificate is for this host; DoH puts the connection in the pool. *)
Secured(q) ==
    /\ ex[q].phase = "tls" /\ ex[q].left > 0
    /\ ex[q].at \in Own /\ net[ex[q].at] # "stalls"
    /\ IF DoH /\ pool = NoConn
       THEN Phase(q, "pooled") /\ pool' = [state |-> "live", at |-> ex[q].at]
       ELSE Phase(q, "wait") /\ UNCHANGED pool
    /\ UNCHANGED streak

(* Mutant: DoT fails like DoH. *)
MutantNoFallback(q) ==
    /\ ex[q].phase = "tls"
    /\ ex[q].at \notin Own \/ ex[q].left = 0
    /\ Fail(q)

(* The certificate is somebody else's, or the deadline passes.  For DoH    *)
(* the dial has already succeeded: the exchange fails.  DoT goes on.       *)
HandshakeFails(q) ==
    /\ ex[q].phase = "tls"
    /\ (ex[q].at \notin Own /\ net[ex[q].at] # "stalls") \/ ex[q].left = 0
    /\ IF DoH \/ N = 0 THEN Fail(q) ELSE NextAddress(q)

(* The response arrives and is well-formed (and for DoH has status 200);   *)
(* a connection that went dead in the pool carries none.                   *)
Alive(q) == ex[q].phase = "pooled" => pool = [state |-> "live", at |-> ex[q].at]

Reply(q) ==
    /\ ex[q].phase \in {"wait", "pooled"} /\ ex[q].left > 0
    /\ net[ex[q].at] = "answers" /\ Alive(q)
    /\ Phase(q, "ok")
    /\ streak' = 0
    /\ UNCHANGED pool

(* An error status, a malformed message or the deadline. *)
ReplyFails(q) ==
    /\ ex[q].phase \in {"wait", "pooled"}
    /\ (net[ex[q].at] = "errs" /\ Alive(q)) \/ ex[q].left = 0
    /\ IF DoH \/ N = 0 THEN Fail(q) ELSE NextAddress(q)

Exchange(q) ==
    \/ Resolved(q) \/ ResolveFails(q) \/ Connected(q) \/ DialFails(q)
    \/ Secured(q) \/ HandshakeFails(q) \/ Reply(q) \/ ReplyFails(q)

-----------------------------------------------------------------------------
(* The path of a pooled connection is lost without notice... *)
ConnDies ==
    /\ pool.state = "live"
    /\ pool' = [pool EXCEPT !.state = "dead"]
    /\ streak' = 0
    /\ UNCHANGED <<setup, net, ipCounter, ex>>

(* ... and noticed by keep-alive, or an idle connection is closed.  What   *)
(* was waiting on it fails.                                                *)
ConnCloses ==
    /\ pool # NoConn
    /\ pool.state = "live" => \A q \in Queries : ex[q].phase # "pooled"
    /\ pool' = NoConn
    /\ ex' = [q \in Queries |-> IF ex[q].phase = "pooled" THEN [ex[q] EXCEPT !.phase = "err"]
                                ELSE ex[q]]
    /\ UNCHANGED <<setup, net, ipCounter, streak>>

(* Nothing can happen to an exchange before time has passed. *)
Waits(q) ==
    \/ Ready(q)
    \/ /\ ex[q].left > 0
       /\ \/ ex[q].phase = "resolve" /\ setup.selfResolving
          \/ ex[q].phase = "dial" /\ net[ex[q].at] = "silent"
          \/ ex[q].phase \in {"tls", "wait", "pooled"} /\ net[ex[q].at] = "stalls"
          \/ ex[q].phase = "pooled" /\ ~Alive(q)

Tick ==
    /\ \A q \in Queries : Waits(q)
    /\ \E q \in Queries : ~Ready(q)
    /\ ex' = [q \in Queries |-> IF Ready(q) THEN ex[q] ELSE [ex[q] EXCEPT !.left = @ - 1]]
    /\ UNCHANGED <<setup, net, ipCounter, pool, streak>>

Next ==
    \/ \E q \in Queries : Draw(q) \/ DialByName(q) \/ Reuse(q) \/ Exchange(q)
    \/ ConnDies \/ ConnCloses \/ Tick

(* Exchanges go on, and time passes, also while other exchanges come and   *)
(* go; queries and the fate of a pooled connection are free.               *)
Fairness == (\A q \in Queries : WF_vars(Exchange(q))) /\ SF_vars(Tick)

Spec == Init /\ [][Next]_vars /\ Fairness

-----------------------------------------------------------------------------
Known == ToSet(IPs)
Good == {a \in Own \cap Known : net[a] = "answers"}

(* An address of the provider that answers, from whatever source it is     *)
(* known, spares the client the system resolver, which on a host that      *)
(* resolves through the daemon never answers.                              *)
NoColdStartDeadlock ==
    \A q \in Queries : ex[q].phase = "resolve" =>
        \A src \in {setup.hostIP, setup.mapped, setup.wellKnown, setup.custom} : src = << >>

(* DoT: an exchange fails only if no known address of the provider answers *)
(* or the ones before it used up the time.                                 *)
DoTFallsBack ==
    ~DoH => \A q \in Queries : ex[q].phase = "err" => Good = {} \/ ex[q].left = 0

(* Where every address reacts at once and those of the provider answer or  *)
(* refuse, the addresses of other providers do make DoH exchanges fail,    *)
(* but the outage is bounded: the rotation comes to one that answers, so   *)
(* that a single query at a time fails less often in a row than there are  *)
(* addresses, and concurrent ones as often as that each.                   *)
OutageBounded ==
    Good # {} /\ (\A a \in Known : net[a] \notin {"silent", "stalls", "errs"}) =>
        streak < Cardinality(Queries) * N

(* Every exchange ends, by its deadline at the latest, however many        *)
(* addresses are silent.                                                   *)
EveryExchangeReturns == \A q \in Queries : ~Ready(q) ~> Ready(q)

(* "The daemon connects directly to these IPs to reach DoH/DoT providers"  *)
(* (config.example.yaml:34).  It does not hold for DoH: a dial that comes  *)
(* to another provider's address, be it first or after one that refused,   *)
(* is content with the TCP connection; the exchange fails in the handshake *)
(* and does not try the addresses that would have answered.                *)
BootstrapReachesProvider ==
    DoH => \A q \in Queries : ex[q].phase = "err" =>
        Good = {} \/ ex[q].left = 0 \/ \E a \in Own \cap Known : net[a] = "errs"
=============================================================================
