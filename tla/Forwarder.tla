------------------------------ MODULE Forwarder ------------------------------
(***************************************************************************)
(* The upstream pool, internal/upstream/forwarder.go: Forward with its     *)
(* three strategies, and the UDP-then-TCP exchange of StandardResolver.    *)
(* Several handler goroutines are inside Forward at once and share the     *)
(* round-robin counter; in parallel mode each of them has one goroutine    *)
(* per resolver and a channel.                                             *)
(*                                                                         *)
(* Deadlines are kept as the time left.  Code takes no time: the clock     *)
(* moves only while every goroutine waits for the network.                 *)
(***************************************************************************)
EXTENDS Integers, Sequences, FiniteSets

CONSTANTS
    Queries,      \* calls of Forward
    N,            \* number of resolvers
    Strategies,   \* values of the strategy setting
    Profiles,     \* how a resolver behaves: [kind, udp, tcp]
    CfgTimeout,   \* the timeout setting, in ticks; nothing keeps it from being negative
    Second,       \* ticks in one second
    MaxParallel   \* bound on the calls of forwardParallel, which share nothing

ASSUME ForwarderAssumption ==
    /\ N \in Nat \ {0}
    /\ Strategies \subseteq STRING
    /\ CfgTimeout \in Int
    /\ Second \in Nat \ {0}
    /\ MaxParallel \in Nat
    /\ Profiles \subseteq [kind : {"standard", "encrypted"},
                           udp  : {"ok", "truncated", "refused", "slow", "hang"},
                           tcp  : {"ok", "refused", "slow", "hang"}]

VARIABLES
    strategy,   \* Forwarder.strategy, never changes
    net,        \* the profile of each resolver, never changes
    counter,    \* Forwarder.counter
    st,         \* per query: "idle", "run", then "ok" or "err"
    left,       \* per query: time left of the context ServeDNS made
    first,      \* per query: the resolver the loop starts from
    tried,      \* per query: resolvers heard of (loop variable i)
    att,        \* per query and resolver: the Exchange call [phase, left]
    ch,         \* per query: the result channel of parallel mode
    result      \* per query: what Forward returned [res, from]

vars == <<strategy, net, counter, st, left, first, tried, att, ch, result>>

Resolvers == 0..(N - 1)

(* NewForwarder repairs the setting; the context made at handler.go:96     *)
(* does not, and has expired from the start if the sum is not positive.    *)
Timeout == IF CfgTimeout <= 0 THEN 4 * Second ELSE CfgTimeout
Budget == IF CfgTimeout + Second <= 0 THEN 0 ELSE CfgTimeout + Second

(* Mutant: room for one result only. *)
MutantChanCap == 1

(* The result channel of forwardParallel is buffered for every resolver. *)
ChanCap == N

Parallel == strategy = "parallel"
Failover == strategy = "failover"

-----------------------------------------------------------------------------
NoCall == [phase |-> "none", left |-> 0]

(* Mutant: the timeout is not derived from the caller's context. *)
MutantOwnContext(r, budget) ==
    [phase |-> IF net[r].kind = "standard" THEN "udp" ELSE "tcp", left |-> Timeout]

(* context.WithTimeout(ctx, f.timeout) and the call of Exchange. *)
Call(r, budget) ==
    [phase |-> IF net[r].kind = "standard" THEN "udp" ELSE "tcp",
     left  |-> IF budget < Timeout THEN budget ELSE Timeout]

Answered(a) == a.phase \in {"answer", "truncated"}
Over(a) == Answered(a) \/ a.phase = "error"
Waiting(a) == a.phase \in {"udp", "tcp", "tcp_after_tc"}

Target(q) == (first[q] + tried[q]) % N

Init ==
    /\ strategy \in Strategies
    /\ net \in [Resolvers -> Profiles]
    /\ counter = 0
    /\ st = [q \in Queries |-> "idle"]
    /\ left = [q \in Queries |-> Budget]
    /\ first = [q \in Queries |-> 0]
    /\ tried = [q \in Queries |-> 0]
    /\ att = [q \in Queries |-> [r \in Resolvers |-> NoCall]]
    /\ ch = [q \in Queries |-> << >>]
    /\ result = [q \in Queries |-> [res |-> "none", from |-> 0]]

(* forwardParallel up to the receive loop: one goroutine per resolver. *)
BeginParallel(q) ==
    /\ st[q] = "idle" /\ Parallel
    /\ Cardinality({p \in Queries : st[p] # "idle"}) < MaxParallel
    /\ st' = [st EXCEPT ![q] = "run"]
    /\ att' = [att EXCEPT ![q] = [r \in Resolvers |-> Call(r, left[q])]]
    /\ UNCHANGED <<strategy, net, counter, left, first, tried, ch, result>>

(* forwardFailover up to the first Exchange. *)
BeginFailover(q) ==
    /\ st[q] = "idle" /\ Failover
    /\ st' = [st EXCEPT ![q] = "run"]
    /\ att' = [att EXCEPT ![q][0] = Call(0, left[q])]
    /\ UNCHANGED <<strategy, net, counter, left, first, tried, ch, result>>

(* Mutant: the counter is read but not advanced. *)
MutantCounterStuck(q) ==
    /\ st[q] = "idle" /\ ~Parallel /\ ~Failover
    /\ st' = [st EXCEPT ![q] = "run"]
    /\ att' = [att EXCEPT ![q][counter % N] = Call(counter % N, left[q])]
    /\ first' = [first EXCEPT ![q] = counter % N]
    /\ UNCHANGED <<strategy, net, counter, left, tried, ch, result>>

(* forwardRoundRobin up to the first Exchange; every other strategy too. *)
BeginRoundRobin(q) ==
    /\ st[q] = "idle" /\ ~Parallel /\ ~Failover
    /\ st' = [st EXCEPT ![q] = "run"]
    /\ counter' = counter + 1
    /\ LET idx == (counter + 1) % N IN
       /\ first' = [first EXCEPT ![q] = idx]
       /\ att' = [att EXCEPT ![q][idx] = Call(idx, left[q])]
    /\ UNCHANGED <<strategy, net, left, tried, ch, result>>

-----------------------------------------------------------------------------
To(q, r, phase) ==
    /\ att' = [att EXCEPT ![q][r].phase = phase]
    /\ UNCHANGED <<strategy, net, counter, st, left, first, tried, ch, result>>

(* StandardResolver.Exchange, the UDP attempt.  A read is not interrupted  *)
(* by cancellation, only by the deadline.                                  *)
UDPAnswer(q, r) ==
    /\ att[q][r].phase = "udp" /\ att[q][r].left > 0
    /\ net[r].udp \in {"ok", "slow"}
    /\ To(q, r, "answer")

(* Mutant: a truncated answer is returned as it is. *)
MutantTruncatedAsIs(q, r) ==
    /\ att[q][r].phase = "udp" /\ att[q][r].left > 0
    /\ net[r].udp = "truncated"
    /\ To(q, r, "truncated")

UDPTruncated(q, r) ==
    /\ att[q][r].phase = "udp" /\ att[q][r].left > 0
    /\ net[r].udp = "truncated"
    /\ To(q, r, "tcp_after_tc")

(* Mutant: no deadline on the UDP read. *)
MutantNoDeadline(q, r) ==
    /\ att[q][r].phase = "udp"
    /\ net[r].udp = "refused"
    /\ To(q, r, "tcp")

UDPError(q, r) ==
    /\ att[q][r].phase = "udp"
    /\ net[r].udp = "refused" \/ att[q][r].left = 0
    /\ To(q, r, "tcp")

(* The TCP attempt, after an error or a truncated answer, under the same   *)
(* deadline; also the one connection of an encrypted resolver.             *)
TCPAnswer(q, r) ==
    /\ att[q][r].phase \in {"tcp", "tcp_after_tc"} /\ att[q][r].left > 0
    /\ net[r].tcp \in {"ok", "slow"}
    /\ To(q, r, "answer")

TCPError(q, r) ==
    /\ att[q][r].phase \in {"tcp", "tcp_after_tc"}
    /\ \/ net[r].tcp = "refused"
       \/ att[q][r].left = 0
       \/ st[q] # "run"             \* cancelled: Forward has returned
    /\ To(q, r, IF att[q][r].phase = "tcp_after_tc" THEN "truncated" ELSE "error")

Exchange(q, r) ==
    \/ UDPAnswer(q, r) \/ UDPTruncated(q, r) \/ UDPError(q, r)
    \/ TCPAnswer(q, r) \/ TCPError(q, r)

-----------------------------------------------------------------------------
(* Round robin and failover: Exchange returned a response. *)
Accept(q) ==
    /\ st[q] = "run" /\ ~Parallel
    /\ Answered(att[q][Target(q)])
    /\ st' = [st EXCEPT ![q] = "ok"]
    /\ result' = [result EXCEPT ![q] = [res |-> att[q][Target(q)].phase, from |-> Target(q)]]
    /\ UNCHANGED <<strategy, net, counter, left, first, tried, att, ch>>

(* Exchange failed: the next resolver, with what is left of the budget. *)
NextResolver(q) ==
    /\ st[q] = "run" /\ ~Parallel
    /\ att[q][Target(q)].phase = "error"
    /\ tried[q] + 1 < N
    /\ tried' = [tried EXCEPT ![q] = @ + 1]
    /\ LET r == (Target(q) + 1) % N IN
       att' = [att EXCEPT ![q][r] = Call(r, left[q])]
    /\ UNCHANGED <<strategy, net, counter, st, left, first, ch, result>>

(* Mutant: the loop ends one resolver early. *)
MutantGiveUpEarly(q) ==
    /\ st[q] = "run" /\ ~Parallel
    /\ att[q][Target(q)].phase = "error"
    /\ tried[q] + 1 >= N - 1
    /\ tried' = [tried EXCEPT ![q] = @ + 1]
    /\ st' = [st EXCEPT ![q] = "err"]
    /\ UNCHANGED <<strategy, net, counter, left, first, att, ch, result>>

(* Exchange failed and it was the last. *)
GiveUp(q) ==
    /\ st[q] = "run" /\ ~Parallel
    /\ att[q][Target(q)].phase = "error"
    /\ tried[q] + 1 = N
    /\ tried' = [tried EXCEPT ![q] = @ + 1]
    /\ st' = [st EXCEPT ![q] = "err"]
    /\ UNCHANGED <<strategy, net, counter, left, first, att, ch, result>>

(* Parallel mode: a goroutine sends its result on the buffered channel... *)
Send(q, r) ==
    /\ Parallel
    /\ Over(att[q][r])
    /\ Len(ch[q]) < ChanCap
    /\ ch' = [ch EXCEPT ![q] = Append(@, [res |-> att[q][r].phase, from |-> r])]
    /\ att' = [att EXCEPT ![q][r].phase = "sent"]
    /\ UNCHANGED <<strategy, net, counter, st, left, first, tried, result>>

(* ... and forwardParallel returns the first response it receives, or an   *)
(* error after as many errors as there are resolvers.                      *)
Receive(q) ==
    /\ st[q] = "run" /\ Parallel
    /\ ch[q] # << >>
    /\ ch' = [ch EXCEPT ![q] = Tail(@)]
    /\ LET m == Head(ch[q]) IN
       IF m.res = "error"
       THEN /\ tried' = [tried EXCEPT ![q] = @ + 1]
            /\ st' = [st EXCEPT ![q] = IF tried[q] + 1 = N THEN "err" ELSE @]
            /\ UNCHANGED result
       ELSE /\ result' = [result EXCEPT ![q] = m]
            /\ st' = [st EXCEPT ![q] = "ok"]
            /\ UNCHANGED tried
    /\ UNCHANGED <<strategy, net, counter, left, first, att>>

(* Time passes: nothing but slow or silent servers is being waited for. *)
Patient(q, r) ==
    LET a == att[q][r] IN
    /\ ~(Over(a) /\ (Parallel \/ (st[q] = "run" /\ r = Target(q))))
    /\ Waiting(a) => /\ a.left > 0
                     /\ (IF a.phase = "udp" THEN net[r].udp ELSE net[r].tcp) \in {"slow", "hang"}

Tick ==
    /\ \E q \in Queries, r \in Resolvers : Waiting(att[q][r])
    /\ \A q \in Queries, r \in Resolvers : Patient(q, r)
    /\ \A q \in Queries : st[q] = "run" => ch[q] = << >>
    /\ left' = [q \in Queries |-> IF st[q] = "run" THEN left[q] - 1 ELSE left[q]]
    /\ att' = [q \in Queries |-> [r \in Resolvers |->
                  IF Waiting(att[q][r]) THEN [att[q][r] EXCEPT !.left = @ - 1] ELSE att[q][r]]]
    /\ UNCHANGED <<strategy, net, counter, st, first, tried, ch, result>>

Begin(q) == BeginParallel(q) \/ BeginFailover(q) \/ BeginRoundRobin(q)
Collect(q) == Accept(q) \/ NextResolver(q) \/ GiveUp(q) \/ Receive(q)

Next ==
    \/ \E q \in Queries : Begin(q) \/ Collect(q)
    \/ \E q \in Queries, r \in Resolvers : Exchange(q, r) \/ Send(q, r)
    \/ Tick

(* What the program or the clock will do by itself: a goroutine that can   *)
(* run, a server that answers or refuses at once, a deadline.              *)
Prompt(q, r) ==
    \/ att[q][r].left = 0
    \/ (IF att[q][r].phase = "udp" THEN net[r].udp ELSE net[r].tcp) \notin {"slow", "hang"}

Progress ==
    \/ \E q \in Queries : Collect(q)
    \/ \E q \in Queries, r \in Resolvers : Send(q, r) \/ (Prompt(q, r) /\ Exchange(q, r))
    \/ Tick

(* The Go scheduler runs every goroutine that can run, and time passes.    *)
(* Whether a query arrives, and whether a slow server answers in time, is  *)
(* not up to the program: neither is fair.  One condition is enough for    *)
(* all goroutines, since each has a bounded number of steps to take.       *)
Fairness == WF_vars(Progress)

Spec == Init /\ [][Next]_vars /\ Fairness

-----------------------------------------------------------------------------
Phases == {"none", "udp", "tcp", "tcp_after_tc", "answer", "truncated", "error", "sent"}

(* The type of every variable. *)
TypeOK ==
    /\ strategy \in Strategies
    /\ net \in [Resolvers -> Profiles]
    /\ counter \in Nat
    /\ st \in [Queries -> {"idle", "run", "ok", "err"}]
    /\ left \in [Queries -> 0..Budget]
    /\ first \in [Queries -> Resolvers]
    /\ tried \in [Queries -> 0..N]
    /\ att \in [Queries -> [Resolvers -> [phase : Phases, left : 0..Timeout]]]
    /\ ch \in [Queries -> Seq([res : Phases, from : Resolvers])]
    /\ result \in [Queries -> [res : Phases, from : Resolvers]]

(* A resolver that answers at once, over UDP or after a refusal over TCP. *)
Healthy(r) == IF net[r].kind = "standard" /\ net[r].udp # "refused"
              THEN net[r].udp \in {"ok", "truncated"}
              ELSE net[r].tcp = "ok"

(* Forward reports failure only after it asked every resolver and each of  *)
(* them failed, and if one of them was healthy, only because the resolvers *)
(* asked before it had used up the whole budget; in parallel mode a        *)
(* healthy resolver is never missed, unless there was no budget at all.    *)
FailsOnlyForCause ==
    \A q \in Queries : st[q] = "err" =>
        /\ \A r \in Resolvers : att[q][r].phase \in {"error", "sent"}
        /\ (\E r \in Resolvers : Healthy(r)) =>
              left[q] = 0 /\ (Parallel => Budget = 0)

(* The client is given a truncated answer only if the resolver it came     *)
(* from could not be reached over TCP.                                     *)
NoNeedlessTruncation ==
    \A q \in Queries :
        result[q].res = "truncated" => net[result[q].from].tcp # "ok"

(* Concurrent queries are spread evenly: the numbers of queries that start *)
(* at any two resolvers differ by at most one.                             *)
RoundRobinBalance ==
    ~Parallel /\ ~Failover =>
        LET load(r) == Cardinality({q \in Queries : st[q] # "idle" /\ first[q] = r})
        IN  \A r1, r2 \in Resolvers : load(r1) <= load(r2) + 1

(* Every Forward returns. *)
EveryForwardReturns == \A q \in Queries : st[q] = "run" ~> st[q] \in {"ok", "err"}

(* No goroutine of parallel mode is left behind on the channel when        *)
(* Forward has returned with an earlier answer.                            *)
NoGoroutineLeak ==
    Parallel => \A q \in Queries, r \in Resolvers :
        Waiting(att[q][r]) ~> att[q][r].phase = "sent"

(* "distributes queries across resolvers, falling back to others if the    *)
(* selected one fails" (forwarder.go:170): a query fails only if no        *)
(* resolver is healthy.  It does not hold: two silent resolvers use up the *)
(* timeout + 1s of handler.go:96 before a healthy third one is asked.      *)
FallsBackToHealthy ==
    \A q \in Queries : st[q] = "err" => \A r \in Resolvers : ~Healthy(r)
=============================================================================
