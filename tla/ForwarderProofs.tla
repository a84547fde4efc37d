--------------------------- MODULE ForwarderProofs ---------------------------
(***************************************************************************)
(* Proofs about Forwarder, for any number of resolvers and queries, any    *)
(* behaviour of the servers, and any timeouts.  The inductive invariant    *)
(* Inv says, of each call of Forward, how far it got, which results are    *)
(* still on their way, and that time does not pass while a healthy server  *)
(* is being waited for.                                                    *)
(***************************************************************************)
EXTENDS Forwarder, Lemmas, SequenceTheorems, FiniteSetTheorems, TLAPS

-----------------------------------------------------------------------------
Calls == [phase : Phases, left : 0..Timeout]
Results == [res : Phases, from : Resolvers]
Sent(q) == {r \in Resolvers : att[q][r].phase = "sent"}

(* Nothing happened to a query that Forward was not called for. *)
Fresh(q) ==
    st[q] = "idle" =>
        /\ left[q] = Budget /\ first[q] = 0 /\ tried[q] = 0 /\ ch[q] = << >>
        /\ \A r \in Resolvers : att[q][r] = NoCall

(* The loop of round robin and failover: the resolvers tried so far failed *)
(* and the current one was asked.                                          *)
SeqOK(q) ==
    st[q] = "run" /\ ~Parallel =>
        /\ tried[q] < N
        /\ \A i \in 0..(tried[q] - 1) : att[q][(first[q] + i) % N].phase = "error"
        /\ att[q][Target(q)].phase \notin {"none", "sent"}

(* The query is out of time, and in parallel mode was so from the start. *)
TooLate(q) == left[q] = 0 /\ (Parallel => Budget = 0)

(* Parallel mode: every result sent is in the channel or was an error, and *)
(* the answer of a healthy resolver, once sent, is in the channel, unless  *)
(* it was asked too late.                                                  *)
ParOK(q) ==
    st[q] = "run" /\ Parallel =>
        /\ tried[q] < N
        /\ Cardinality(Sent(q)) = Len(ch[q]) + tried[q]
        /\ \A r \in Resolvers : att[q][r].phase # "none"
        /\ \A r \in Resolvers : Healthy(r) /\ att[q][r].phase = "sent" =>
              \/ TooLate(q)
              \/ \E j \in 1..Len(ch[q]) : ch[q][j].from = r /\ ch[q][j].res # "error"

(* A call has no more time than the query. *)
TimeOK(q) ==
    \A r \in Resolvers :
        /\ st[q] = "run" /\ Waiting(att[q][r]) => att[q][r].left <= left[q]
        /\ att[q][r].phase = "udp" => net[r].kind = "standard"
        /\ att[q][r].phase = "tcp_after_tc" /\ net[r].tcp = "ok" => att[q][r].left > 0

HealthOK(q) ==
    st[q] = "run" => \A r \in Resolvers : Healthy(r) =>
        /\ att[q][r].phase = "error" => TooLate(q)
        /\ att[q][r].phase \in {"udp", "tcp"} =>
              \/ att[q][r].left > 0 /\ (att[q][r].phase = "tcp" => net[r].tcp = "ok")
              \/ TooLate(q)

Cause(q) ==
    st[q] = "err" =>
        /\ \A r \in Resolvers : att[q][r].phase \in {"error", "sent"}
        /\ (\E r \in Resolvers : Healthy(r)) => TooLate(q)

(* A truncated answer that may still be returned is the best there is. *)
TruncOK(q) ==
    /\ st[q] = "run" =>
        /\ \A r \in Resolvers : att[q][r].phase = "truncated" => net[r].tcp # "ok"
        /\ \A j \in 1..Len(ch[q]) : ch[q][j].res = "truncated" => net[ch[q][j].from].tcp # "ok"
    /\ result[q].res = "truncated" => net[result[q].from].tcp # "ok"

QInv(q) ==
    /\ Fresh(q) /\ SeqOK(q) /\ ParOK(q) /\ TimeOK(q)
    /\ HealthOK(q) /\ Cause(q) /\ TruncOK(q)

(* Round robin: the queries given to each resolver so far. *)
Given(r) == {q \in Queries : st[q] # "idle" /\ first[q] = r}

Balance ==
    ~Parallel /\ ~Failover =>
        /\ \A r \in Resolvers : IsFiniteSet(Given(r))
        /\ \E b \in Nat : \A r \in Resolvers :
              Cardinality(Given(r)) = IF r \in 1..(counter % N) THEN b + 1 ELSE b

Inv == TypeOK /\ Balance /\ \A q \in Queries : QInv(q)

-----------------------------------------------------------------------------
LEMMA ConstantFacts ==
    /\ N \in Nat \ {0} /\ Timeout \in Nat \ {0} /\ Budget \in Nat
    /\ 0 \in Resolvers /\ Resolvers \subseteq Int
    /\ IsFiniteSet(Resolvers) /\ Cardinality(Resolvers) = N
<1>1. N \in Nat \ {0} /\ CfgTimeout \in Int /\ Second \in Nat \ {0}
  BY ForwarderAssumption
<1>2. IsFiniteSet(0..(N - 1)) /\ Cardinality(0..(N - 1)) = N
  BY <1>1, FS_Interval
<1> QED
  BY <1>1, <1>2 DEF Timeout, Budget, Resolvers

(* The i-th resolver from f on, for each of the N turns of the loop. *)
LEMMA TurnFacts ==
    ASSUME NEW f \in Resolvers
    PROVE  /\ \A i \in 0..N : (f + i) % N \in Resolvers
           /\ \A i \in 0..(N - 1) : (f + i) % N = IF f + i < N THEN f + i ELSE f + i - N
           /\ \A r \in Resolvers : \E i \in 0..(N - 1) : (f + i) % N = r
<1>1. N \in Nat \ {0} /\ f \in 0..(N - 1)
  BY ConstantFacts DEF Resolvers
<1>2. ASSUME NEW i \in 0..N PROVE (f + i) % N \in Resolvers
  BY <1>1, ModRange DEF Resolvers
<1>3. ASSUME NEW i \in 0..(N - 1) PROVE (f + i) % N = IF f + i < N THEN f + i ELSE f + i - N
  <2>1. PICK x \in 0..(2 * N - 1) : x = f + i
    BY <1>1
  <2>2. x % N = IF x < N THEN x ELSE x - N
    BY <1>1, ModWrap
  <2> QED
    BY <1>1, <2>1, <2>2
<1>4. ASSUME NEW r \in Resolvers PROVE \E i \in 0..(N - 1) : (f + i) % N = r
  <2>1. CASE f <= r
    <3>1. r - f \in 0..(N - 1) /\ f + (r - f) = r /\ r < N
      BY <1>1, <2>1 DEF Resolvers
    <3> QED
      BY <1>3, <3>1
  <2>2. CASE r < f
    <3>1. PICK i \in 0..(N - 1) : i = r - f + N
      BY <1>1, <2>2 DEF Resolvers
    <3>2. f + i = r + N /\ ~(f + i < N) /\ f + i - N = r
      BY <1>1, <3>1 DEF Resolvers
    <3> QED
      BY <1>3, <3>2
  <2> QED
    BY <1>1, <2>1, <2>2 DEF Resolvers
<1> QED
  BY <1>2, <1>3, <1>4

LEMMA CallFacts ==
    ASSUME NEW r \in Resolvers, NEW budget \in Nat, net \in [Resolvers -> Profiles]
    PROVE  /\ Call(r, budget) \in Calls
           /\ Call(r, budget).left <= budget
           /\ budget > 0 => Call(r, budget).left > 0
           /\ Call(r, budget).phase = IF net[r].kind = "standard" THEN "udp" ELSE "tcp"
    BY ConstantFacts DEF Call, Calls, Phases

(* A healthy resolver that is not asked over UDP is one to ask over TCP. *)
LEMMA HealthyTCP ==
    ASSUME NEW r \in Resolvers, Healthy(r), net[r].kind # "standard"
    PROVE  net[r].tcp = "ok"
    BY DEF Healthy

-----------------------------------------------------------------------------
LEMMA InvInit == Init => Inv
<1> SUFFICES ASSUME Init PROVE Inv
  OBVIOUS
<1>1. TypeOK
  <2>1. NoCall \in Calls /\ [res |-> "none", from |-> 0] \in Results /\ Budget \in 0..Budget
    BY ConstantFacts DEF NoCall, Calls, Results, Phases
  <2> QED
    BY <2>1, ConstantFacts DEF Init, TypeOK, Calls, Results
<1>2. Balance
  <2>1. \A r \in Resolvers : Given(r) = {}
    BY DEF Init, Given
  <2>2. 0 % N = 0
    BY ConstantFacts, ModWrap
  <2>3. \A r \in Resolvers : IsFiniteSet(Given(r)) /\ Cardinality(Given(r)) = 0
    BY <2>1, FS_EmptySet
  <2> QED
    BY <2>2, <2>3 DEF Balance, Init
<1>3. ASSUME NEW q \in Queries PROVE QInv(q)
  <2>1. /\ st[q] = "idle" /\ left[q] = Budget /\ first[q] = 0 /\ tried[q] = 0 /\ ch[q] = << >>
        /\ result[q].res = "none" /\ \A r \in Resolvers : att[q][r] = NoCall
    BY DEF Init
  <2> QED
    BY <2>1 DEF QInv, Fresh, SeqOK, ParOK, TimeOK, HealthOK, Cause, TruncOK, NoCall, Waiting
<1> QED
  BY <1>1, <1>2, <1>3 DEF Inv

-----------------------------------------------------------------------------
(* Calls of Forward touch each other's state only through the counter. *)
LEMMA QFrame ==
    ASSUME NEW q, QInv(q), UNCHANGED <<strategy, net, st[q], left[q], first[q], tried[q], att[q],
                                       ch[q], result[q]>>
    PROVE  QInv(q)'
<1>1. Fresh(q)' /\ SeqOK(q)' /\ TimeOK(q)' /\ TruncOK(q)'
  BY DEF QInv, Fresh, SeqOK, TimeOK, TruncOK, Target, Parallel, Waiting
<1>2. Sent(q)' = Sent(q) /\ UNCHANGED Parallel /\ UNCHANGED TooLate(q)
  BY DEF Sent, Parallel, TooLate
<1>3. \A r \in Resolvers : UNCHANGED Healthy(r)
  BY DEF Healthy
<1>4. ParOK(q)' /\ HealthOK(q)' /\ Cause(q)'
  BY <1>2, <1>3 DEF QInv, ParOK, HealthOK, Cause
<1> QED
  BY <1>1, <1>4 DEF QInv

LEMMA BalanceFrame ==
    ASSUME Inv, UNCHANGED <<strategy, counter, first>>,
           \A q \in Queries : st'[q] = "idle" <=> st[q] = "idle"
    PROVE  Balance'
<1>1. \A r \in Resolvers : Given(r)' = Given(r)
  BY DEF Given
<1>2. UNCHANGED <<Parallel, Failover>>
  BY DEF Parallel, Failover
<1> QED
  BY <1>1, <1>2 DEF Inv, Balance

(* A step of one call: what is left to show is about that call. *)
LEMMA OneCall ==
    ASSUME Inv, NEW q \in Queries, TypeOK', Balance', QInv(q)',
           UNCHANGED <<strategy, net>>,
           \A p \in Queries \ {q} : UNCHANGED <<st[p], left[p], first[p], tried[p], att[p], ch[p],
                                               result[p]>>
    PROVE  Inv'
<1>1. ASSUME NEW p \in Queries, p # q PROVE QInv(p)'
  BY <1>1, QFrame DEF Inv
<1> QED
  BY <1>1 DEF Inv

(* How Exchange goes on: what a waiting call may change to. *)
LEMMA ToStep ==
    ASSUME Inv, NEW q \in Queries, NEW r \in Resolvers, NEW p, To(q, r, p), Waiting(att[q][r]),
           p \in {"tcp", "tcp_after_tc", "answer", "truncated", "error"},
           p = "tcp_after_tc" => att[q][r].left > 0,
           st[q] = "run" /\ p = "truncated" => net[r].tcp # "ok",
           st[q] = "run" /\ Healthy(r) /\ p = "error" => TooLate(q),
           st[q] = "run" /\ Healthy(r) /\ p = "tcp" =>
              (att[q][r].left > 0 /\ net[r].tcp = "ok") \/ TooLate(q)
    PROVE  Inv'
<1>1. /\ att' = [att EXCEPT ![q][r].phase = p]
      /\ UNCHANGED <<strategy, net, counter, st, left, first, tried, ch, result>>
  BY DEF To
<1>2. att \in [Queries -> [Resolvers -> Calls]]
  BY DEF Inv, TypeOK, Calls
<1>3. att' \in [Queries -> [Resolvers -> Calls]]
  BY <1>1, <1>2 DEF Calls, Phases
<1>4. /\ att'[q][r].phase = p /\ att'[q][r].left = att[q][r].left
      /\ \A x \in Resolvers \ {r} : att'[q][x] = att[q][x]
      /\ \A x \in Queries \ {q} : att'[x] = att[x]
  BY <1>1, <1>2 DEF Calls
<1>5. TypeOK'
  BY <1>1, <1>3 DEF Inv, TypeOK, Calls
<1>6. Balance'
  BY <1>1, BalanceFrame
<1>7. att[q][r].phase \in {"udp", "tcp", "tcp_after_tc"} /\ st[q] # "idle" /\ st[q] # "err"
  BY DEF Inv, QInv, Fresh, Cause, Waiting, NoCall
<1>8. /\ UNCHANGED <<Parallel, TooLate(q), Target(q)>> /\ Sent(q)' = Sent(q)
      /\ \A x \in Resolvers : UNCHANGED Healthy(x)
  <2>1. Sent(q)' = Sent(q)
    BY <1>4, <1>7 DEF Sent
  <2> QED
    BY <1>1, <2>1 DEF Parallel, TooLate, Target, Healthy
<1>9. QInv(q) /\ st'[q] = st[q]
  BY <1>1 DEF Inv
<1>10. Fresh(q)' /\ Cause(q)'
  BY <1>7, <1>9 DEF Fresh, Cause
<1>11. SeqOK(q)'
  <2>1. ASSUME st[q] = "run", ~Parallel, NEW i \in 0..(tried[q] - 1)
        PROVE  att'[q][(first[q] + i) % N].phase = "error"
    <3>1. att[q][(first[q] + i) % N].phase = "error" /\ tried[q] < N
      BY <1>9, <2>1 DEF QInv, SeqOK
    <3>2. (first[q] + i) % N \in Resolvers
      <4>1. first[q] \in Resolvers /\ i \in 0..N
        BY <3>1, ConstantFacts DEF Inv, TypeOK
      <4> QED
        BY <4>1, TurnFacts
    <3> QED
      BY <1>4, <1>7, <3>1, <3>2
  <2>2. Target(q) \in Resolvers
    <3>1. first[q] \in Resolvers /\ tried[q] \in 0..N
      BY DEF Inv, TypeOK
    <3> QED
      BY <3>1, TurnFacts DEF Target
  <2> QED
    BY <1>1, <1>4, <1>8, <1>9, <2>1, <2>2 DEF QInv, SeqOK
<1>12. ParOK(q)'
  BY <1>1, <1>4, <1>8, <1>9 DEF QInv, ParOK
<1>13. TimeOK(q)'
  BY <1>1, <1>4, <1>9 DEF QInv, TimeOK, Waiting
<1>14. HealthOK(q)'
  BY <1>1, <1>4, <1>8, <1>9 DEF QInv, HealthOK
<1>15. TruncOK(q)'
  BY <1>1, <1>4, <1>9 DEF QInv, TruncOK
<1> QED
  BY <1>1, <1>4, <1>5, <1>6, <1>10, <1>11, <1>12, <1>13, <1>14, <1>15, OneCall DEF QInv

LEMMA ExchangeStep ==
    ASSUME Inv, NEW q \in Queries, NEW r \in Resolvers, Exchange(q, r)
    PROVE  Inv'
<1>1. TimeOK(q) /\ HealthOK(q)
  BY DEF Inv, QInv
<1>2. CASE UDPAnswer(q, r)
  BY <1>2, ToStep DEF UDPAnswer, Waiting
<1>3. CASE UDPTruncated(q, r)
  BY <1>3, ToStep DEF UDPTruncated, Waiting
<1>4. CASE UDPError(q, r)
  <2>1. /\ att[q][r].phase = "udp" /\ net[r].kind = "standard"
        /\ net[r].udp = "refused" \/ att[q][r].left = 0
    BY <1>1, <1>4 DEF UDPError, TimeOK
  <2>2. ASSUME st[q] = "run", Healthy(r)
        PROVE  (att[q][r].left > 0 /\ net[r].tcp = "ok") \/ TooLate(q)
    <3>1. att[q][r].left > 0 \/ TooLate(q)
      BY <1>1, <2>1, <2>2 DEF HealthOK
    <3> QED
      BY <2>1, <2>2, <3>1 DEF Healthy
  <2> QED
    BY <1>4, <2>1, <2>2, ToStep DEF UDPError, Waiting
<1>5. CASE TCPAnswer(q, r)
  BY <1>5, ToStep DEF TCPAnswer, Waiting
<1>6. CASE TCPError(q, r)
  <2>1. /\ att[q][r].phase \in {"tcp", "tcp_after_tc"}
        /\ net[r].tcp = "refused" \/ att[q][r].left = 0 \/ st[q] # "run"
    BY <1>6 DEF TCPError
  <2>2. CASE att[q][r].phase = "tcp_after_tc"
    <3>1. st[q] = "run" => net[r].tcp # "ok"
      BY <1>1, <2>1, <2>2 DEF TimeOK
    <3> QED
      BY <1>6, <2>2, <3>1, ToStep DEF TCPError, Waiting
  <2>3. CASE att[q][r].phase = "tcp"
    <3>1. st[q] = "run" /\ Healthy(r) => TooLate(q)
      BY <1>1, <2>1, <2>3 DEF HealthOK
    <3> QED
      BY <1>6, <2>3, <3>1, ToStep DEF TCPError, Waiting
  <2> QED
    BY <2>1, <2>2, <2>3
<1> QED
  BY <1>2, <1>3, <1>4, <1>5, <1>6 DEF Exchange

-----------------------------------------------------------------------------
(* Round robin and failover ask one more resolver. *)
LEMMA AskStep ==
    ASSUME Inv, NEW q \in Queries, NEW r \in Resolvers, ~Parallel, st[q] \in {"idle", "run"},
           att' = [att EXCEPT ![q][r] = Call(r, left[q])],
           UNCHANGED <<strategy, net, left, ch, result>>,
           \A p \in Queries \ {q} : UNCHANGED <<st[p], first[p], tried[p]>>,
           st' \in [Queries -> {"idle", "run", "ok", "err"}], first' \in [Queries -> Resolvers],
           tried' \in [Queries -> 0..N], counter' \in Nat, Balance',
           st'[q] = "run", tried'[q] < N, r = (first'[q] + tried'[q]) % N,
           \A i \in 0..(tried'[q] - 1) : /\ (first'[q] + i) % N \in Resolvers \ {r}
                                         /\ att[q][(first'[q] + i) % N].phase = "error"
    PROVE  Inv'
<1> DEFINE c == Call(r, left[q])
<1>1. /\ att \in [Queries -> [Resolvers -> Calls]] /\ net \in [Resolvers -> Profiles]
      /\ left[q] \in Nat
  BY ConstantFacts DEF Inv, TypeOK, Calls
<1>2. /\ c \in Calls /\ c.left <= left[q] /\ (left[q] > 0 => c.left > 0)
      /\ c.phase = IF net[r].kind = "standard" THEN "udp" ELSE "tcp"
  BY <1>1, CallFacts
<1> HIDE DEF c
<1>3. att' \in [Queries -> [Resolvers -> Calls]] /\ att'[q][r] = c
      /\ (\A x \in Resolvers \ {r} : att'[q][x] = att[q][x])
      /\ \A x \in Queries \ {q} : att'[x] = att[x]
  BY <1>1, <1>2 DEF c
<1>4. TypeOK'
  BY <1>3 DEF Inv, TypeOK, Calls
<1>5. QInv(q) /\ UNCHANGED <<Parallel, TooLate(q)>> /\ \A x \in Resolvers : UNCHANGED Healthy(x)
  BY DEF Inv, Parallel, TooLate, Healthy
<1>6. st[q] = "idle" => ch[q] = << >> /\ \A x \in Resolvers : att[q][x].phase = "none"
  BY <1>5 DEF QInv, Fresh, NoCall
<1>7. Fresh(q)' /\ Cause(q)'
  BY DEF Fresh, Cause
<1>8. SeqOK(q)'
  BY <1>2, <1>3 DEF SeqOK, Target
<1>9. ParOK(q)'
  BY <1>5 DEF ParOK
<1>10. TimeOK(q)'
  BY <1>2, <1>3, <1>5, <1>6 DEF QInv, TimeOK, Waiting
<1>11. HealthOK(q)'
  <2>1. ASSUME Healthy(r) PROVE \/ c.left > 0 /\ (c.phase = "tcp" => net[r].tcp = "ok")
                                \/ TooLate(q)
    BY <1>1, <1>2, <2>1, HealthyTCP DEF TooLate
  <2>2. ASSUME NEW x \in Resolvers \ {r}, Healthy(x)
        PROVE  /\ att[q][x].phase = "error" => TooLate(q)
               /\ att[q][x].phase \in {"udp", "tcp"} =>
                    \/ att[q][x].left > 0 /\ (att[q][x].phase = "tcp" => net[x].tcp = "ok")
                    \/ TooLate(q)
    BY <1>5, <1>6, <2>2 DEF QInv, HealthOK
  <2> QED
    BY <1>2, <1>3, <1>5, <2>1, <2>2 DEF HealthOK
<1>12. TruncOK(q)'
  BY <1>2, <1>3, <1>5, <1>6 DEF QInv, TruncOK
<1> QED
  BY <1>3, <1>4, <1>5, <1>7, <1>8, <1>9, <1>10, <1>11, <1>12, OneCall DEF QInv

LEMMA BeginFailoverStep == ASSUME Inv, NEW q \in Queries, BeginFailover(q) PROVE Inv'
<1>1. /\ st[q] = "idle" /\ ~Parallel /\ Failover /\ st' = [st EXCEPT ![q] = "run"]
      /\ att' = [att EXCEPT ![q][0] = Call(0, left[q])]
      /\ UNCHANGED <<strategy, net, counter, left, first, tried, ch, result>>
  BY DEF BeginFailover, Parallel, Failover
<1>2. first[q] = 0 /\ tried[q] = 0 /\ (0 + 0) % N = 0 /\ 0 \in Resolvers
  BY <1>1, ConstantFacts, ModWrap DEF Inv, QInv, Fresh
<1>3. Balance'
  BY <1>1 DEF Balance, Failover
<1>4. /\ st' \in [Queries -> {"idle", "run", "ok", "err"}] /\ st'[q] = "run"
      /\ \A p \in Queries \ {q} : st'[p] = st[p]
      /\ first' \in [Queries -> Resolvers] /\ tried' \in [Queries -> 0..N] /\ counter' \in Nat
  BY <1>1 DEF Inv, TypeOK
<1>5. tried'[q] < N /\ 0 = (first'[q] + tried'[q]) % N /\ 0..(tried'[q] - 1) = {}
  BY <1>1, <1>2, ConstantFacts
<1> QED
  BY <1>1, <1>2, <1>3, <1>4, <1>5, AskStep

(* One more query for the resolver whose turn it is. *)
LEMMA BalanceStep ==
    ASSUME Inv, NEW q \in Queries, BeginRoundRobin(q)
    PROVE  Balance'
<1>1. N \in Nat \ {0} /\ counter \in Int /\ counter + 1 \in Int
  BY ConstantFacts DEF Inv, TypeOK
<1>2. PICK c \in 0..(N - 1) : c = counter % N
  BY <1>1, ModRange
<1>3. PICK idx \in Resolvers : idx = (counter + 1) % N /\ idx = IF c + 1 = N THEN 0 ELSE c + 1
  <2>1. (IF c + 1 = N THEN 0 ELSE c + 1) \in Resolvers
    BY <1>1 DEF Resolvers
  <2> QED
    BY <1>1, <1>2, <2>1, ModNext
<1>4. /\ st[q] = "idle" /\ ~Parallel /\ ~Failover /\ st' = [st EXCEPT ![q] = "run"]
      /\ counter' = counter + 1 /\ first' = [first EXCEPT ![q] = idx] /\ strategy' = strategy
  BY <1>3 DEF BeginRoundRobin
<1>5. PICK b \in Nat : \A r \in Resolvers : /\ IsFiniteSet(Given(r))
                                           /\ Cardinality(Given(r)) = IF r \in 1..c THEN b + 1 ELSE b
  BY <1>2, <1>4 DEF Inv, Balance
<1>6. Given(idx)' = Given(idx) \cup {q} /\ q \notin Given(idx)
  BY <1>4 DEF Given, Inv, TypeOK
<1>7. \A r \in Resolvers \ {idx} : Given(r)' = Given(r)
  BY <1>4 DEF Given, Inv, TypeOK
<1>8. IsFiniteSet(Given(idx)') /\ Cardinality(Given(idx)') = Cardinality(Given(idx)) + 1
  BY <1>5, <1>6, FS_AddElement
<1>9. \A r \in Resolvers : /\ IsFiniteSet(Given(r)')
                           /\ r # idx => Cardinality(Given(r)') = Cardinality(Given(r))
  BY <1>5, <1>7, <1>8
<1>10. counter' % N = idx
  BY <1>3, <1>4
<1>11. CASE c + 1 = N
  <2>1. idx = 0 /\ Cardinality(Given(0)) = b
    BY <1>3, <1>5, <1>11
  <2>2. \A r \in Resolvers \ {0} : Cardinality(Given(r)) = b + 1
    BY <1>1, <1>5, <1>11 DEF Resolvers
  <2>3. \A r \in Resolvers : Cardinality(Given(r)') = IF r \in 1..idx THEN b + 2 ELSE b + 1
    BY <1>8, <1>9, <2>1, <2>2
  <2>4. b + 1 \in Nat /\ (b + 1) + 1 = b + 2
    OBVIOUS
  <2> QED
    BY <1>9, <1>10, <2>3, <2>4 DEF Balance
<1>12. CASE c + 1 # N
  <2>1. idx = c + 1 /\ Cardinality(Given(idx)) = b
    BY <1>3, <1>5, <1>12
  <2>2. \A r \in Resolvers : Cardinality(Given(r)') = IF r \in 1..idx THEN b + 1 ELSE b
    BY <1>3, <1>5, <1>8, <1>9, <2>1 DEF Resolvers
  <2> QED
    BY <1>9, <1>10, <2>2 DEF Balance
<1> QED
  BY <1>11, <1>12

LEMMA BeginRoundRobinStep == ASSUME Inv, NEW q \in Queries, BeginRoundRobin(q) PROVE Inv'
<1>1. PICK idx \in Resolvers : idx = (counter + 1) % N
  <2>1. counter + 1 \in Int /\ N \in Nat \ {0}
    BY ConstantFacts DEF Inv, TypeOK
  <2> QED
    BY <2>1, ModRange DEF Resolvers
<1>2. /\ st[q] = "idle" /\ ~Parallel /\ ~Failover /\ st' = [st EXCEPT ![q] = "run"]
      /\ counter' = counter + 1 /\ first' = [first EXCEPT ![q] = idx]
      /\ att' = [att EXCEPT ![q][idx] = Call(idx, left[q])]
      /\ UNCHANGED <<strategy, net, left, tried, ch, result>>
  BY <1>1 DEF BeginRoundRobin
<1>3. /\ st' \in [Queries -> {"idle", "run", "ok", "err"}] /\ st'[q] = "run"
      /\ \A p \in Queries \ {q} : st'[p] = st[p] /\ first'[p] = first[p]
      /\ first' \in [Queries -> Resolvers] /\ tried' \in [Queries -> 0..N] /\ counter' \in Nat
      /\ first'[q] = idx
  BY <1>2 DEF Inv, TypeOK
<1>4. tried[q] = 0
  BY <1>2 DEF Inv, QInv, Fresh
<1>5. (idx + 0) % N = idx
  <2>1. 0 \in 0..(N - 1) /\ idx + 0 < N /\ idx + 0 = idx
    BY ConstantFacts DEF Resolvers
  <2> QED
    BY <2>1, TurnFacts
<1>6. tried'[q] < N /\ idx = (first'[q] + tried'[q]) % N /\ 0..(tried'[q] - 1) = {}
  BY <1>2, <1>3, <1>4, <1>5, ConstantFacts
<1> QED
  BY <1>2, <1>3, <1>6, BalanceStep, AskStep

LEMMA NextResolverStep == ASSUME Inv, NEW q \in Queries, NextResolver(q) PROVE Inv'
<1> DEFINE f == first[q]
           t == tried[q]
<1>1. /\ st[q] = "run" /\ ~Parallel /\ att[q][(f + t) % N].phase = "error" /\ t + 1 < N
      /\ tried' = [tried EXCEPT ![q] = t + 1]
      /\ UNCHANGED <<strategy, net, counter, st, left, first, ch, result>>
  BY DEF NextResolver, Target
<1>2. f \in Resolvers /\ t \in 0..N /\ N \in Nat \ {0}
  BY ConstantFacts DEF Inv, TypeOK
<1>3. /\ \A i \in 0..(N - 1) : (f + i) % N = IF f + i < N THEN f + i ELSE f + i - N
      /\ \A i \in 0..N : (f + i) % N \in Resolvers
  BY <1>2, TurnFacts
<1>4. PICK r \in Resolvers : r = (f + (t + 1)) % N
  BY <1>1, <1>2, <1>3
<1>5. r = (Target(q) + 1) % N
  <2>1. f + t \in Int
    BY <1>2 DEF Resolvers
  <2>2. ((f + t) + 1) % N = IF ((f + t) % N) + 1 = N THEN 0 ELSE ((f + t) % N) + 1
    BY <1>2, <2>1, ModNext
  <2>3. PICK x \in Resolvers : x = (f + t) % N
    BY <1>2, <1>3
  <2>4. (x + 1) % N = IF x + 1 = N THEN 0 ELSE x + 1
    <3>1. x % N = x
      BY <1>2, <2>3, ModWrap DEF Resolvers
    <3>2. x \in Int
      BY DEF Resolvers
    <3>3. (x + 1) % N = IF (x % N) + 1 = N THEN 0 ELSE (x % N) + 1
      BY <1>2, <3>2, ModNext
    <3> QED
      BY <3>1, <3>3
  <2>5. f + (t + 1) = (f + t) + 1
    BY <1>2 DEF Resolvers
  <2> QED
    BY <1>4, <2>2, <2>3, <2>4, <2>5 DEF Target
<1>6. att' = [att EXCEPT ![q][r] = Call(r, left[q])]
  BY <1>5 DEF NextResolver
<1>7. ASSUME NEW i \in 0..t
      PROVE  (f + i) % N \in Resolvers \ {r} /\ att[q][(f + i) % N].phase = "error"
  <2>1. att[q][(f + i) % N].phase = "error"
    <3>1. CASE i = t
      BY <1>1, <3>1
    <3>2. CASE i # t
      <4>1. i \in 0..(t - 1)
        BY <1>2, <3>2
      <4> QED
        BY <1>1, <4>1 DEF Inv, QInv, SeqOK
    <3> QED
      BY <3>1, <3>2
  <2>2. i \in 0..(N - 1) /\ t + 1 \in 0..(N - 1) /\ i < t + 1
    BY <1>1, <1>2
  <2>3. (f + i) % N # r
    <3>1. (f + i) % N = IF f + i < N THEN f + i ELSE f + i - N
      BY <1>3, <2>2
    <3>2. r = IF f + (t + 1) < N THEN f + (t + 1) ELSE f + (t + 1) - N
      BY <1>3, <1>4, <2>2
    <3> QED
      BY <1>2, <2>2, <3>1, <3>2 DEF Resolvers
  <2> QED
    BY <1>1, <1>2, <1>3, <2>1, <2>2, <2>3
<1>8. /\ tried' \in [Queries -> 0..N] /\ tried'[q] = t + 1 /\ first'[q] = f
      /\ \A p \in Queries \ {q} : tried'[p] = tried[p]
      /\ st' \in [Queries -> {"idle", "run", "ok", "err"}] /\ counter' \in Nat
      /\ first' \in [Queries -> Resolvers]
  BY <1>1, <1>2 DEF Inv, TypeOK
<1>9. (t + 1) - 1 = t
  BY <1>2
<1>10. Balance'
  BY <1>1, BalanceFrame
<1> HIDE DEF f, t
<1> QED
  BY <1>1, <1>4, <1>6, <1>7, <1>8, <1>9, <1>10, AskStep

LEMMA BeginParallelStep == ASSUME Inv, NEW q \in Queries, BeginParallel(q) PROVE Inv'
<1>1. /\ st[q] = "idle" /\ Parallel /\ st' = [st EXCEPT ![q] = "run"]
      /\ att' = [att EXCEPT ![q] = [r \in Resolvers |-> Call(r, left[q])]]
      /\ UNCHANGED <<strategy, net, counter, left, first, tried, ch, result>>
  BY DEF BeginParallel
<1>2. /\ att \in [Queries -> [Resolvers -> Calls]] /\ net \in [Resolvers -> Profiles]
      /\ QInv(q) /\ left[q] = Budget /\ tried[q] = 0 /\ ch[q] = << >> /\ Budget \in Nat
  BY <1>1, ConstantFacts DEF Inv, TypeOK, QInv, Fresh, Calls
<1>3. ASSUME NEW r \in Resolvers
      PROVE  /\ Call(r, left[q]) \in Calls /\ Call(r, left[q]).left <= left[q]
             /\ Call(r, left[q]).left > 0 \/ Budget = 0
             /\ Call(r, left[q]).phase = IF net[r].kind = "standard" THEN "udp" ELSE "tcp"
  BY <1>2, CallFacts
<1>4. /\ att' \in [Queries -> [Resolvers -> Calls]]
      /\ \A r \in Resolvers : att'[q][r] = Call(r, left[q])
      /\ \A p \in Queries \ {q} : att'[p] = att[p] /\ st'[p] = st[p]
      /\ st' \in [Queries -> {"idle", "run", "ok", "err"}] /\ st'[q] = "run"
  BY <1>1, <1>2, <1>3 DEF Inv, TypeOK
<1>5. TypeOK'
  BY <1>1, <1>4 DEF Inv, TypeOK, Calls
<1>6. Balance'
  BY <1>1 DEF Balance, Parallel
<1>7. /\ UNCHANGED <<Parallel, TooLate(q)>> /\ Sent(q)' = {}
      /\ \A x \in Resolvers : UNCHANGED Healthy(x)
  <2>1. Sent(q)' = {}
    BY <1>3, <1>4 DEF Sent
  <2> QED
    BY <1>1, <2>1 DEF Parallel, TooLate, Healthy
<1>8. Fresh(q)' /\ Cause(q)' /\ SeqOK(q)'
  BY <1>1, <1>4, <1>7 DEF Fresh, Cause, SeqOK
<1>9. ParOK(q)'
  <2>1. Cardinality({}) = 0 /\ Len(ch[q]) = 0 /\ 0 < N
    BY <1>2, FS_EmptySet, ConstantFacts
  <2>2. Cardinality(Sent(q)') = Len(ch'[q]) + tried'[q] /\ tried'[q] < N
    BY <1>1, <1>2, <1>7, <2>1
  <2>3. \A r \in Resolvers : att'[q][r].phase \notin {"none", "sent"}
    BY <1>3, <1>4
  <2> QED
    BY <2>2, <2>3 DEF ParOK
<1>10. TimeOK(q)'
  BY <1>1, <1>3, <1>4 DEF TimeOK
<1>11. HealthOK(q)'
  <2>1. ASSUME NEW r \in Resolvers, Healthy(r)
        PROVE  /\ att'[q][r].phase \in {"udp", "tcp"}
               /\ \/ att'[q][r].left > 0 /\ (att'[q][r].phase = "tcp" => net[r].tcp = "ok")
                  \/ TooLate(q)
    BY <1>2, <1>3, <1>4, <2>1, HealthyTCP DEF TooLate
  <2> QED
    BY <1>1, <1>4, <1>7, <2>1 DEF HealthOK
<1>12. TruncOK(q)'
  <2>1. 1..Len(ch[q]) = {}
    BY <1>2
  <2> QED
    BY <1>1, <1>2, <1>3, <1>4, <2>1 DEF QInv, TruncOK
<1> QED
  BY <1>1, <1>4, <1>5, <1>6, <1>8, <1>9, <1>10, <1>11, <1>12, OneCall DEF QInv

LEMMA AcceptStep == ASSUME Inv, NEW q \in Queries, Accept(q) PROVE Inv'
<1>1. PICK r \in Resolvers : r = Target(q)
  <2>1. first[q] \in Resolvers /\ tried[q] \in 0..N
    BY DEF Inv, TypeOK
  <2> QED
    BY <2>1, TurnFacts DEF Target
<1>2. /\ st[q] = "run" /\ st' = [st EXCEPT ![q] = "ok"]
      /\ result' = [result EXCEPT ![q] = [res |-> att[q][r].phase, from |-> r]]
      /\ UNCHANGED <<strategy, net, counter, left, first, tried, att, ch>>
  BY <1>1 DEF Accept
<1>3. [res |-> att[q][r].phase, from |-> r] \in Results
  BY DEF Inv, TypeOK, Results
<1>4. /\ st'[q] = "ok" /\ result'[q].res = att[q][r].phase /\ result'[q].from = r
      /\ \A p \in Queries \ {q} : st'[p] = st[p] /\ result'[p] = result[p]
  BY <1>2 DEF Inv, TypeOK
<1>5. TypeOK'
  BY <1>2, <1>3 DEF Inv, TypeOK, Results
<1>6. Balance'
  BY <1>2, <1>4, BalanceFrame
<1>7. Fresh(q)' /\ Cause(q)' /\ SeqOK(q)' /\ ParOK(q)' /\ HealthOK(q)'
  BY <1>4 DEF Fresh, Cause, SeqOK, ParOK, HealthOK
<1>8. TimeOK(q)' /\ TruncOK(q)'
  BY <1>2, <1>4 DEF Inv, QInv, TimeOK, TruncOK
<1> QED
  BY <1>2, <1>4, <1>5, <1>6, <1>7, <1>8, OneCall DEF QInv

LEMMA GiveUpStep == ASSUME Inv, NEW q \in Queries, GiveUp(q) PROVE Inv'
<1> DEFINE f == first[q]
           t == tried[q]
<1>1. /\ st[q] = "run" /\ ~Parallel /\ att[q][(f + t) % N].phase = "error" /\ t + 1 = N
      /\ tried' = [tried EXCEPT ![q] = t + 1] /\ st' = [st EXCEPT ![q] = "err"]
      /\ UNCHANGED <<strategy, net, counter, left, first, att, ch, result>>
  BY DEF GiveUp, Target
<1>2. f \in Resolvers /\ t \in 0..N /\ N \in Nat \ {0} /\ t + 1 \in 0..N
  BY <1>1, ConstantFacts DEF Inv, TypeOK
<1>3. ASSUME NEW r \in Resolvers PROVE att[q][r].phase = "error"
  <2>1. PICK i \in 0..(N - 1) : (f + i) % N = r
    BY <1>2, TurnFacts
  <2>2. CASE i = t
    BY <1>1, <2>1, <2>2
  <2>3. CASE i # t
    <3>1. i \in 0..(t - 1)
      BY <1>1, <1>2, <2>3
    <3> QED
      BY <1>1, <2>1, <3>1 DEF Inv, QInv, SeqOK
  <2> QED
    BY <2>2, <2>3
<1>4. /\ st'[q] = "err" /\ \A p \in Queries \ {q} : st'[p] = st[p] /\ tried'[p] = tried[p]
  BY <1>1 DEF Inv, TypeOK
<1>5. TypeOK'
  BY <1>1, <1>2 DEF Inv, TypeOK
<1>6. Balance'
  BY <1>1, <1>4, BalanceFrame
<1>7. Fresh(q)' /\ SeqOK(q)' /\ ParOK(q)' /\ HealthOK(q)'
  BY <1>4 DEF Fresh, SeqOK, ParOK, HealthOK
<1>8. Cause(q)'
  <2>1. (\E r \in Resolvers : Healthy(r)) => TooLate(q)
    BY <1>1, <1>3 DEF Inv, QInv, HealthOK
  <2>2. UNCHANGED TooLate(q) /\ \A r \in Resolvers : UNCHANGED Healthy(r)
    BY <1>1 DEF TooLate, Parallel, Healthy
  <2> QED
    BY <1>1, <1>3, <2>1, <2>2 DEF Cause
<1>9. TimeOK(q)' /\ TruncOK(q)'
  BY <1>1, <1>4 DEF Inv, QInv, TimeOK, TruncOK
<1> QED
  BY <1>1, <1>4, <1>5, <1>6, <1>7, <1>8, <1>9, OneCall DEF QInv

-----------------------------------------------------------------------------
LEMMA SentFinite ==
    ASSUME NEW q
    PROVE  /\ IsFiniteSet(Sent(q)) /\ Cardinality(Sent(q)) \in 0..N
           /\ Cardinality(Sent(q)) = N => Sent(q) = Resolvers
<1>1. Sent(q) \in SUBSET Resolvers
  BY DEF Sent
<1>2. /\ IsFiniteSet(Sent(q)) /\ Cardinality(Sent(q)) <= N
      /\ Cardinality(Sent(q)) = N => Sent(q) = Resolvers
  BY <1>1, FS_Subset, ConstantFacts
<1> QED
  BY <1>2, FS_CardinalityType, ConstantFacts

LEMMA SendStep == ASSUME Inv, NEW q \in Queries, NEW r \in Resolvers, Send(q, r) PROVE Inv'
<1>1. PICK m \in Results : m = [res |-> att[q][r].phase, from |-> r]
  BY DEF Inv, TypeOK, Results
<1>2. /\ Parallel /\ Over(att[q][r]) /\ ch' = [ch EXCEPT ![q] = Append(ch[q], m)]
      /\ att' = [att EXCEPT ![q][r].phase = "sent"]
      /\ UNCHANGED <<strategy, net, counter, st, left, first, tried, result>>
  BY <1>1 DEF Send
<1>3. att \in [Queries -> [Resolvers -> Calls]] /\ ch \in [Queries -> Seq(Results)]
  BY DEF Inv, TypeOK, Calls, Results
<1>4. att' \in [Queries -> [Resolvers -> Calls]]
  <2>1. PICK sent \in Phases : sent = "sent"
    BY DEF Phases
  <2>2. att' = [att EXCEPT ![q][r].phase = sent]
    BY <1>2, <2>1
  <2>3. att \in [Queries -> [Resolvers -> Calls]]
    BY <1>3
  <2> QED
    BY <2>2, <2>3 DEF Calls
<1>5. /\ att'[q][r].phase = "sent" /\ att'[q][r].left = att[q][r].left
      /\ \A x \in Resolvers \ {r} : att'[q][x] = att[q][x]
      /\ \A x \in Queries \ {q} : att'[x] = att[x]
  BY <1>2, <1>3 DEF Calls
<1>6. /\ ch' \in [Queries -> Seq(Results)] /\ ch'[q] = Append(ch[q], m)
      /\ \A x \in Queries \ {q} : ch'[x] = ch[x]
  BY <1>2, <1>3, AppendProperties
<1>7. /\ Len(ch[q]) \in Nat /\ Len(ch'[q]) = Len(ch[q]) + 1 /\ ch'[q][Len(ch[q]) + 1] = m
      /\ \A j \in 1..Len(ch[q]) : ch'[q][j] = ch[q][j]
  BY <1>3, <1>6, AppendProperties, LenProperties
<1>8. TypeOK'
  BY <1>2, <1>4, <1>6 DEF Inv, TypeOK, Calls, Results
<1>9. Balance'
  BY <1>2, BalanceFrame
<1>10. /\ QInv(q) /\ st'[q] = st[q] /\ UNCHANGED <<Parallel, TooLate(q)>>
      /\ \A x \in Resolvers : UNCHANGED Healthy(x)
  BY <1>2 DEF Inv, Parallel, TooLate, Healthy
<1>11. att[q][r].phase \in {"answer", "truncated", "error"}
  BY <1>2 DEF Over, Answered
<1>12. Fresh(q)' /\ Cause(q)' /\ SeqOK(q)'
  BY <1>2, <1>5, <1>10, <1>11 DEF QInv, Fresh, Cause, SeqOK, NoCall
<1>13. ParOK(q)'
  <2>1. Sent(q)' = Sent(q) \cup {r} /\ r \notin Sent(q)
    BY <1>5, <1>11 DEF Sent
  <2>2. Cardinality(Sent(q)') = Cardinality(Sent(q)) + 1
    BY <2>1, SentFinite, FS_AddElement
  <2>3. ASSUME st[q] = "run" PROVE Cardinality(Sent(q)') = Len(ch'[q]) + tried'[q]
    <3>1. Cardinality(Sent(q)) = Len(ch[q]) + tried[q]
      BY <1>2, <1>10, <2>3 DEF QInv, ParOK
    <3>2. tried[q] \in Nat /\ tried'[q] = tried[q]
      BY <1>2, ConstantFacts DEF Inv, TypeOK
    <3> QED
      BY <1>7, <2>2, <3>1, <3>2
  <2>4. ASSUME st[q] = "run", NEW x \in Resolvers, Healthy(x), att'[q][x].phase = "sent",
               ~TooLate(q)
        PROVE  \E j \in 1..Len(ch'[q]) : ch'[q][j].from = x /\ ch'[q][j].res # "error"
    <3>1. CASE x = r
      <4>1. att[q][r].phase # "error"
        BY <1>10, <2>4, <3>1 DEF QInv, HealthOK
      <4>2. m.from = x /\ m.res # "error" /\ Len(ch[q]) + 1 \in 1..Len(ch'[q])
        BY <1>1, <1>7, <3>1, <4>1
      <4> QED
        BY <1>7, <4>2
    <3>2. CASE x # r
      <4>1. PICK j \in 1..Len(ch[q]) : ch[q][j].from = x /\ ch[q][j].res # "error"
        BY <1>2, <1>5, <1>10, <2>4, <3>2 DEF QInv, ParOK
      <4>2. j \in 1..Len(ch'[q])
        BY <1>7
      <4> QED
        BY <1>7, <4>1, <4>2
    <3> QED
      BY <3>1, <3>2
  <2>5. ASSUME st[q] = "run" PROVE tried[q] < N /\ \A x \in Resolvers : att'[q][x].phase # "none"
    BY <1>2, <1>5, <1>10, <2>5 DEF QInv, ParOK
  <2> QED
    BY <1>2, <1>10, <2>3, <2>4, <2>5 DEF ParOK
<1>14. TimeOK(q)'
  BY <1>2, <1>5, <1>10 DEF QInv, TimeOK, Waiting
<1>15. HealthOK(q)'
  BY <1>2, <1>5, <1>10 DEF QInv, HealthOK
<1>16. TruncOK(q)'
  <2>1. ASSUME st[q] = "run", NEW j \in 1..Len(ch'[q]), ch'[q][j].res = "truncated"
        PROVE  net[ch'[q][j].from].tcp # "ok"
    <3>1. CASE j = Len(ch[q]) + 1
      BY <1>1, <1>7, <1>10, <2>1, <3>1 DEF QInv, TruncOK
    <3>2. CASE j # Len(ch[q]) + 1
      <4>1. j \in 1..Len(ch[q])
        BY <1>7, <3>2
      <4> QED
        BY <1>7, <1>10, <2>1, <4>1 DEF QInv, TruncOK
    <3> QED
      BY <3>1, <3>2
  <2> QED
    BY <1>2, <1>5, <1>10, <2>1 DEF QInv, TruncOK
<1> QED
  BY <1>2, <1>5, <1>6, <1>8, <1>9, <1>12, <1>13, <1>14, <1>15, <1>16, OneCall DEF QInv

LEMMA ReceiveStep == ASSUME Inv, NEW q \in Queries, Receive(q) PROVE Inv'
<1>1. /\ st[q] = "run" /\ Parallel /\ ch[q] # << >> /\ ch' = [ch EXCEPT ![q] = Tail(ch[q])]
      /\ UNCHANGED <<strategy, net, counter, left, first, att>>
  BY DEF Receive
<1>2. ch \in [Queries -> Seq(Results)]
  BY DEF Inv, TypeOK, Results
<1>3. PICK m \in Results : m = Head(ch[q])
  BY <1>1, <1>2, HeadTailProperties
<1>4. ch' \in [Queries -> Seq(Results)] /\ ch'[q] = Tail(ch[q]) /\ \A p \in Queries \ {q} : ch'[p] = ch[p]
  BY <1>1, <1>2, HeadTailProperties
<1>5. /\ Len(ch[q]) \in Nat \ {0} /\ Len(ch'[q]) = Len(ch[q]) - 1 /\ ch[q][1] = m
      /\ \A j \in 1..Len(ch'[q]) : ch'[q][j] = ch[q][j + 1]
  BY <1>1, <1>2, <1>3, <1>4, HeadTailProperties, EmptySeq, LenProperties
<1>6. /\ QInv(q) /\ UNCHANGED <<Parallel, TooLate(q), Sent(q)>>
      /\ \A x \in Resolvers : UNCHANGED Healthy(x)
  BY <1>1 DEF Inv, Parallel, TooLate, Healthy, Sent
<1>7. /\ tried[q] \in Nat /\ tried[q] < N /\ N \in Nat \ {0}
      /\ Cardinality(Sent(q)) = Len(ch[q]) + tried[q]
  <2>1. tried[q] \in Nat /\ N \in Nat \ {0}
    BY ConstantFacts DEF Inv, TypeOK
  <2>2. tried[q] < N /\ Cardinality(Sent(q)) = Len(ch[q]) + tried[q]
    BY <1>1, <1>6 DEF QInv, ParOK
  <2> QED
    BY <2>1, <2>2
<1>8. ASSUME NEW r \in Resolvers, Healthy(r), att[q][r].phase = "sent", m.res = "error",
             ~TooLate(q)
      PROVE  \E j \in 1..Len(ch'[q]) : ch'[q][j].from = r /\ ch'[q][j].res # "error"
  <2>1. PICK j \in 1..Len(ch[q]) : ch[q][j].from = r /\ ch[q][j].res # "error"
    BY <1>1, <1>6, <1>8 DEF QInv, ParOK
  <2>2. PICK i \in 1..Len(ch'[q]) : j = i + 1
    <3>1. j # 1
      BY <1>5, <1>8, <2>1
    <3>2. j - 1 \in 1..Len(ch'[q]) /\ j = (j - 1) + 1
      BY <1>5, <3>1
    <3> QED
      BY <3>2
  <2> QED
    BY <1>5, <2>1, <2>2
<1>9. ASSUME st'[q] = "run", NEW j \in 1..Len(ch'[q]), ch'[q][j].res = "truncated"
      PROVE  net[ch'[q][j].from].tcp # "ok"
  <2>1. j + 1 \in 1..Len(ch[q]) /\ ch'[q][j] = ch[q][j + 1]
    BY <1>5
  <2> QED
    BY <1>1, <1>6, <1>9, <2>1 DEF QInv, TruncOK
<1>10. CASE m.res = "error" /\ tried[q] + 1 # N
  <2>1. /\ tried' = [tried EXCEPT ![q] = tried[q] + 1] /\ st' = [st EXCEPT ![q] = "run"]
        /\ result' = result
    BY <1>1, <1>3, <1>10 DEF Receive, Inv, TypeOK
  <2>2. tried[q] + 1 \in 0..N /\ tried[q] + 1 < N
    BY <1>7, <1>10
  <2>3. /\ tried' \in [Queries -> 0..N] /\ tried'[q] = tried[q] + 1
        /\ st' \in [Queries -> {"idle", "run", "ok", "err"}] /\ st'[q] = "run"
        /\ \A p \in Queries \ {q} : tried'[p] = tried[p] /\ st'[p] = st[p]
    BY <2>1, <2>2 DEF Inv, TypeOK
  <2>4. TypeOK'
    BY <1>1, <1>4, <2>1, <2>3 DEF Inv, TypeOK, Results
  <2>5. Balance'
    BY <1>1, <2>3, BalanceFrame
  <2>6. Fresh(q)' /\ Cause(q)' /\ SeqOK(q)'
    BY <1>1, <1>6, <2>3 DEF Fresh, Cause, SeqOK
  <2>7. ParOK(q)'
    <3>1. Cardinality(Sent(q)') = Len(ch'[q]) + tried'[q]
      <4>1. Cardinality(Sent(q)') = Cardinality(Sent(q))
        BY <1>6
      <4>2. PICK n \in Nat : n = Len(ch'[q]) /\ n + 1 = Len(ch[q])
        BY <1>5
      <4>3. PICK t \in Nat : t = tried[q] /\ t + 1 = tried'[q]
        BY <1>7, <2>3
      <4>4. Cardinality(Sent(q)) = (n + 1) + t
        BY <1>7, <4>2, <4>3
      <4>5. (n + 1) + t = n + (t + 1)
        OBVIOUS
      <4> QED
        BY <4>1, <4>2, <4>3, <4>4, <4>5
    <3>2. \A x \in Resolvers : att'[q][x].phase # "none"
      BY <1>1, <1>6 DEF QInv, ParOK
    <3> QED
      BY <1>1, <1>6, <1>8, <1>10, <2>2, <2>3, <3>1, <3>2 DEF ParOK
  <2>8. TimeOK(q)' /\ HealthOK(q)'
    BY <1>1, <1>6, <2>3 DEF QInv, TimeOK, HealthOK
  <2>9. TruncOK(q)'
    BY <1>1, <1>6, <1>9, <2>1 DEF QInv, TruncOK
  <2> QED
    BY <1>1, <1>4, <2>1, <2>3, <2>4, <2>5, <2>6, <2>7, <2>8, <2>9, OneCall DEF QInv
<1>11. CASE m.res = "error" /\ tried[q] + 1 = N
  <2>1. /\ tried' = [tried EXCEPT ![q] = tried[q] + 1] /\ st' = [st EXCEPT ![q] = "err"]
        /\ result' = result
    BY <1>1, <1>3, <1>11 DEF Receive
  <2>2. tried[q] + 1 \in 0..N
    BY <1>7, <1>11
  <2>3. /\ tried' \in [Queries -> 0..N] /\ tried'[q] = tried[q] + 1
        /\ st' \in [Queries -> {"idle", "run", "ok", "err"}] /\ st'[q] = "err"
        /\ \A p \in Queries \ {q} : tried'[p] = tried[p] /\ st'[p] = st[p]
    BY <2>1, <2>2 DEF Inv, TypeOK
  <2>4. TypeOK'
    BY <1>1, <1>4, <2>1, <2>3 DEF Inv, TypeOK, Results
  <2>5. Balance'
    BY <1>1, <2>3, BalanceFrame
  <2>6. Fresh(q)' /\ SeqOK(q)' /\ ParOK(q)' /\ HealthOK(q)'
    BY <2>3 DEF Fresh, SeqOK, ParOK, HealthOK
  <2>7. Cause(q)'
    <3>1. Cardinality(Sent(q)) = N /\ Len(ch'[q]) = 0
      <4>1. Cardinality(Sent(q)) \in 0..N
        BY SentFinite
      <4>2. PICK n \in Nat : n = Len(ch'[q]) /\ n + 1 = Len(ch[q])
        BY <1>5
      <4>3. PICK t \in Nat : t = tried[q] /\ t + 1 = N
        BY <1>7, <1>11
      <4>4. Cardinality(Sent(q)) = (n + 1) + t
        BY <1>7, <4>2, <4>3
      <4> QED
        BY <4>1, <4>2, <4>3, <4>4
    <3>2. \A r \in Resolvers : att[q][r].phase = "sent"
      BY <3>1, SentFinite DEF Sent
    <3>3. ASSUME NEW r \in Resolvers, Healthy(r) PROVE TooLate(q)
      BY <1>8, <1>11, <3>1, <3>2, <3>3
    <3> QED
      BY <1>1, <1>6, <3>2, <3>3 DEF Cause
  <2>8. TimeOK(q)' /\ TruncOK(q)'
    BY <1>1, <1>6, <2>1, <2>3 DEF QInv, TimeOK, TruncOK
  <2> QED
    BY <1>1, <1>4, <2>1, <2>3, <2>4, <2>5, <2>6, <2>7, <2>8, OneCall DEF QInv
<1>12. CASE m.res # "error"
  <2>1. /\ result' = [result EXCEPT ![q] = m] /\ st' = [st EXCEPT ![q] = "ok"] /\ tried' = tried
    BY <1>1, <1>3, <1>12 DEF Receive
  <2>2. /\ result' \in [Queries -> Results] /\ result'[q] = m
        /\ st' \in [Queries -> {"idle", "run", "ok", "err"}] /\ st'[q] = "ok"
        /\ \A p \in Queries \ {q} : result'[p] = result[p] /\ st'[p] = st[p]
    BY <2>1 DEF Inv, TypeOK, Results
  <2>3. TypeOK'
    BY <1>1, <1>4, <2>1, <2>2 DEF Inv, TypeOK, Results
  <2>4. Balance'
    BY <1>1, <2>2, BalanceFrame
  <2>5. Fresh(q)' /\ Cause(q)' /\ SeqOK(q)' /\ ParOK(q)' /\ HealthOK(q)'
    BY <2>2 DEF Fresh, Cause, SeqOK, ParOK, HealthOK
  <2>6. m.res = "truncated" => net[m.from].tcp # "ok"
    <3>1. 1 \in 1..Len(ch[q])
      BY <1>5
    <3> QED
      BY <1>1, <1>5, <1>6, <3>1 DEF QInv, TruncOK
  <2>7. TimeOK(q)' /\ TruncOK(q)'
    BY <1>1, <1>6, <2>2, <2>6 DEF QInv, TimeOK, TruncOK
  <2> QED
    BY <1>1, <1>4, <2>1, <2>2, <2>3, <2>4, <2>5, <2>7, OneCall DEF QInv
<1> QED
  BY <1>10, <1>11, <1>12

-----------------------------------------------------------------------------
(* While time passes, every call in progress waits for a server, and has   *)
(* time left.                                                              *)
LEMMA TickLeavesTime ==
    ASSUME Inv, Tick, NEW q \in Queries, st[q] = "run"
    PROVE  left[q] > 0
<1>1. QInv(q) /\ \A r \in Resolvers : Patient(q, r)
  BY DEF Inv, Tick
<1>2. PICK r \in Resolvers : Waiting(att[q][r])
  <2>1. CASE ~Parallel
    <3>1. PICK r \in Resolvers : r = Target(q)
      <4>1. first[q] \in Resolvers /\ tried[q] \in 0..N
        BY DEF Inv, TypeOK
      <4> QED
        BY <4>1, TurnFacts DEF Target
    <3>2. att[q][r].phase \in Phases \ {"none", "sent"}
      BY <1>1, <2>1, <3>1 DEF QInv, SeqOK, Inv, TypeOK
    <3>3. ~Over(att[q][r])
      BY <1>1, <3>1 DEF Patient
    <3> QED
      BY <3>2, <3>3 DEF Over, Answered, Waiting, Phases
  <2>2. CASE Parallel
    <3>1. Len(ch[q]) = 0 /\ tried[q] \in Nat /\ tried[q] < N
      BY <1>1, <2>2, ConstantFacts DEF Tick, QInv, ParOK, Inv, TypeOK
    <3>2. Cardinality(Sent(q)) = tried[q]
      BY <1>1, <2>2, <3>1 DEF QInv, ParOK
    <3>3. Sent(q) # Resolvers
      BY <3>1, <3>2, ConstantFacts
    <3>4. PICK r \in Resolvers : att[q][r].phase # "sent"
      BY <3>3 DEF Sent
    <3>5. att[q][r].phase \in Phases \ {"none", "sent"}
      BY <1>1, <2>2, <3>4 DEF QInv, ParOK, Inv, TypeOK
    <3>6. ~Over(att[q][r])
      BY <1>1, <2>2 DEF Patient
    <3> QED
      BY <3>5, <3>6 DEF Over, Answered, Waiting, Phases
  <2> QED
    BY <2>1, <2>2
<1>3. att[q][r].left > 0 /\ att[q][r].left <= left[q]
  BY <1>1, <1>2 DEF Patient, QInv, TimeOK
<1> QED
  BY <1>3, ConstantFacts DEF Inv, TypeOK

LEMMA TickStep == ASSUME Inv, Tick PROVE Inv'
<1>1. /\ left' = [q \in Queries |-> IF st[q] = "run" THEN left[q] - 1 ELSE left[q]]
      /\ att' = [q \in Queries |-> [r \in Resolvers |->
                   IF Waiting(att[q][r]) THEN [att[q][r] EXCEPT !.left = @ - 1] ELSE att[q][r]]]
      /\ UNCHANGED <<strategy, net, counter, st, first, tried, ch, result>>
      /\ \A q \in Queries, r \in Resolvers : Patient(q, r)
  BY DEF Tick
<1>2. ASSUME NEW q \in Queries, NEW r \in Resolvers
      PROVE  /\ att[q][r] \in Calls /\ att'[q][r] \in Calls /\ att'[q][r].phase = att[q][r].phase
             /\ att'[q][r].left = IF Waiting(att[q][r]) THEN att[q][r].left - 1 ELSE att[q][r].left
  <2>1. att[q][r] \in Calls
    BY DEF Inv, TypeOK, Calls
  <2>2. CASE Waiting(att[q][r])
    <3>1. att[q][r].left > 0
      BY <1>1, <2>2 DEF Patient
    <3>2. att[q][r].left - 1 \in 0..Timeout
      BY <2>1, <3>1, ConstantFacts DEF Calls
    <3>3. att'[q][r] = [att[q][r] EXCEPT !.left = att[q][r].left - 1]
      BY <1>1, <2>2
    <3> QED
      BY <2>1, <2>2, <3>2, <3>3 DEF Calls
  <2>3. CASE ~Waiting(att[q][r])
    BY <1>1, <2>1, <2>3
  <2> QED
    BY <2>1, <2>2, <2>3
<1>3. ASSUME NEW q \in Queries
      PROVE  /\ left[q] \in 0..Budget /\ left'[q] \in 0..Budget
             /\ st[q] = "run" => left[q] > 0 /\ left'[q] = left[q] - 1
             /\ st[q] # "run" => left'[q] = left[q]
  <2>1. left[q] \in 0..Budget /\ Budget \in Nat
    BY ConstantFacts DEF Inv, TypeOK
  <2>2. st[q] = "run" => left[q] > 0
    BY TickLeavesTime
  <2> QED
    BY <1>1, <2>1, <2>2
<1>4. TypeOK'
  <2>1. att' \in [Queries -> [Resolvers -> Calls]]
    BY <1>1, <1>2
  <2>2. left' \in [Queries -> 0..Budget]
    BY <1>1, <1>3
  <2> QED
    BY <1>1, <2>1, <2>2 DEF Inv, TypeOK, Calls
<1>5. Balance'
  BY <1>1, BalanceFrame
<1>6. ASSUME NEW q \in Queries PROVE QInv(q)'
  <2>1. /\ QInv(q) /\ UNCHANGED <<Parallel, Target(q)>> /\ Sent(q)' = Sent(q)
        /\ \A r \in Resolvers : UNCHANGED Healthy(r)
    <3>1. Sent(q)' = Sent(q)
      BY <1>2 DEF Sent
    <3> QED
      BY <1>1, <3>1 DEF Inv, Parallel, Target, Healthy
  <2>2. Fresh(q)'
    BY <1>1, <1>2, <1>3, <2>1 DEF QInv, Fresh, NoCall, Waiting
  <2>3. SeqOK(q)'
    <3>1. ASSUME st[q] = "run", ~Parallel, NEW i \in 0..(tried[q] - 1)
          PROVE  att'[q][(first[q] + i) % N].phase = "error"
      <4>1. att[q][(first[q] + i) % N].phase = "error" /\ tried[q] < N
        BY <2>1, <3>1 DEF QInv, SeqOK
      <4>2. first[q] \in Resolvers /\ i \in 0..N
        BY <4>1, ConstantFacts DEF Inv, TypeOK
      <4>3. (first[q] + i) % N \in Resolvers
        BY <4>2, TurnFacts
      <4> QED
        BY <1>2, <4>1, <4>3
    <3>2. Target(q) \in Resolvers
      <4>1. first[q] \in Resolvers /\ tried[q] \in 0..N
        BY DEF Inv, TypeOK
      <4> QED
        BY <4>1, TurnFacts DEF Target
    <3> QED
      BY <1>1, <1>2, <2>1, <3>1, <3>2 DEF QInv, SeqOK
  <2>4. ParOK(q)'
    <3>1. st[q] = "run" => ~TooLate(q)
      BY <1>3 DEF TooLate
    <3> QED
      BY <1>1, <1>2, <2>1, <3>1 DEF QInv, ParOK
  <2>5. TimeOK(q)'
    <3>1. ASSUME NEW r \in Resolvers, st[q] = "run", Waiting(att[q][r])
          PROVE  att'[q][r].left <= left'[q]
      <4>1. att[q][r].left <= left[q] /\ att[q][r].left \in Int /\ left[q] \in Int
        BY <1>2, <1>3, <2>1, <3>1, ConstantFacts DEF QInv, TimeOK, Calls
      <4> QED
        BY <1>2, <1>3, <3>1, <4>1
    <3>2. ASSUME NEW r \in Resolvers, att[q][r].phase = "tcp_after_tc", net[r].tcp = "ok"
          PROVE  FALSE
      BY <1>1, <3>2 DEF Patient, Waiting
    <3>3. \A r \in Resolvers : Waiting(att[q][r])' <=> Waiting(att[q][r])
      BY <1>2 DEF Waiting
    <3>4. ASSUME NEW r \in Resolvers
          PROVE  (att'[q][r].phase = "udp" => net'[r].kind = "standard") /\ st'[q] = st[q]
      BY <1>1, <1>2, <2>1 DEF QInv, TimeOK
    <3>5. ASSUME NEW r \in Resolvers
          PROVE  ~(att'[q][r].phase = "tcp_after_tc" /\ net'[r].tcp = "ok")
      BY <1>1, <1>2, <3>2
    <3> QED
      BY <3>1, <3>3, <3>4, <3>5 DEF TimeOK
  <2>6. HealthOK(q)'
    <3>1. ASSUME NEW r \in Resolvers, Healthy(r), st[q] = "run"
          PROVE  att[q][r].phase \notin {"error", "udp", "tcp"}
      <4>1. ~TooLate(q)
        BY <1>3, <3>1 DEF TooLate
      <4>2. att[q][r].phase # "error"
        BY <2>1, <3>1, <4>1 DEF QInv, HealthOK
      <4>3. att[q][r].phase # "udp"
        BY <1>1, <2>1, <3>1 DEF QInv, TimeOK, Patient, Waiting, Healthy
      <4>4. att[q][r].phase # "tcp"
        BY <1>1, <2>1, <3>1, <4>1 DEF QInv, HealthOK, Patient, Waiting
      <4> QED
        BY <4>2, <4>3, <4>4
    <3> QED
      BY <1>1, <1>2, <2>1, <3>1 DEF HealthOK
  <2>7. Cause(q)'
    BY <1>1, <1>2, <1>3, <2>1 DEF QInv, Cause, TooLate
  <2>8. TruncOK(q)'
    BY <1>1, <1>2, <2>1 DEF QInv, TruncOK
  <2> QED
    BY <2>2, <2>3, <2>4, <2>5, <2>6, <2>7, <2>8 DEF QInv
<1> QED
  BY <1>4, <1>5, <1>6 DEF Inv

LEMMA InvStep == Inv /\ [Next]_vars => Inv'
<1> SUFFICES ASSUME Inv, [Next]_vars PROVE Inv'
  OBVIOUS
<1>1. CASE UNCHANGED vars
  <2>1. \A q \in Queries : QInv(q)'
    BY <1>1, QFrame DEF Inv, vars
  <2>2. TypeOK' /\ Balance'
    BY <1>1, BalanceFrame DEF Inv, TypeOK, vars
  <2> QED
    BY <2>1, <2>2 DEF Inv
<1>2. ASSUME NEW q \in Queries, Begin(q) \/ Collect(q) PROVE Inv'
  BY <1>2, BeginParallelStep, BeginFailoverStep, BeginRoundRobinStep, AcceptStep, NextResolverStep,
     GiveUpStep, ReceiveStep DEF Begin, Collect
<1> QED
  BY <1>1, <1>2, ExchangeStep, SendStep, TickStep DEF Next

-----------------------------------------------------------------------------
(* The invariant holds in every reachable state. *)
THEOREM Invariance == Spec => []Inv
  BY InvInit, InvStep, PTL DEF Spec

(* Every variable has its type; in particular no budget and no deadline    *)
(* goes below zero.                                                        *)
THEOREM TypeCorrect == Spec => []TypeOK
<1>1. Inv => TypeOK
  BY DEF Inv
<1> QED
  BY <1>1, Invariance, PTL

(* Forward fails only after every resolver did, and misses a healthy one   *)
(* only when the budget was gone before its turn: in parallel mode, where  *)
(* all are asked at once, only when there never was any.                   *)
THEOREM FailuresHaveCause == Spec => []FailsOnlyForCause
<1>1. Inv => FailsOnlyForCause
  BY DEF Inv, QInv, Cause, TooLate, FailsOnlyForCause
<1> QED
  BY <1>1, Invariance, PTL

(* A truncated answer is returned only if TCP was of no use. *)
THEOREM TruncationHasCause == Spec => []NoNeedlessTruncation
<1>1. Inv => NoNeedlessTruncation
  BY DEF Inv, QInv, TruncOK, NoNeedlessTruncation
<1> QED
  BY <1>1, Invariance, PTL

(* Round robin spreads any number of concurrent queries evenly over any    *)
(* number of resolvers.                                                    *)
THEOREM RoundRobinBalanced == Spec => []RoundRobinBalance
<1>1. Inv => RoundRobinBalance
  <2> SUFFICES ASSUME Inv, ~Parallel, ~Failover, NEW r1 \in Resolvers, NEW r2 \in Resolvers
               PROVE  Cardinality(Given(r1)) <= Cardinality(Given(r2)) + 1
    BY DEF RoundRobinBalance, Given
  <2>1. PICK b \in Nat : \A r \in Resolvers :
              Cardinality(Given(r)) = IF r \in 1..(counter % N) THEN b + 1 ELSE b
    BY DEF Inv, Balance
  <2> QED
    BY <2>1
<1> QED
  BY <1>1, Invariance, PTL
=============================================================================
