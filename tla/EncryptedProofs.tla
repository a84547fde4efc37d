--------------------------- MODULE EncryptedProofs ---------------------------
(***************************************************************************)
(* Proofs about Encrypted, for any bootstrap addresses, any behaviour of   *)
(* their servers and any number of concurrent exchanges.                   *)
(***************************************************************************)
EXTENDS Encrypted, Lemmas, FiniteSetTheorems, SequenceTheorems, TLAPS

-----------------------------------------------------------------------------
Phases == {"idle", "resolve", "dial", "tls", "wait", "pooled", "ok", "err"}

Addresses == STRING \cup {""} \cup Own

Exchanges == [phase : Phases, start : Nat, tried : Nat, left : 0..Timeout, at : Addresses]

Pools == [state : {"none", "live", "dead"}, at : Addresses]

Types ==
    /\ setup \in Setups /\ ipCounter \in Nat
    /\ ex \in [Queries -> Exchanges]
    /\ pool \in Pools

(* A host name is resolved only if no address is known. *)
ResolveOK(q) == ex[q].phase = "resolve" => N = 0

(* DoT has no pool. *)
NoPool == ~DoH => pool = NoConn /\ \A q \in Queries : ex[q].phase # "pooled"

(* The addresses a loop has left behind do not answer, or the time is up. *)
LoopOK(q) ==
    /\ ex[q].phase \in {"dial", "tls", "wait"} /\ N > 0 =>
          /\ ex[q].start \in 0..(N - 1) /\ ex[q].tried \in 0..(N - 1)
          /\ ex[q].at = Candidate(ex[q].start, ex[q].tried)
          /\ \A i \in 0..(ex[q].tried - 1) :
                Candidate(ex[q].start, i) \notin Good \/ ex[q].left = 0
    /\ ~DoH /\ ex[q].phase = "err" => Good = {} \/ ex[q].left = 0

Inv == Types /\ NoPool /\ \A q \in Queries : ResolveOK(q) /\ LoopOK(q)

-----------------------------------------------------------------------------
(* The addresses of a setup. *)
LEMMA Sources ==
    ASSUME NEW s \in Setups
    PROVE  /\ bootstrapIPs(s) \in Seq(STRING) /\ Len(bootstrapIPs(s)) \in Nat
           /\ Len(bootstrapIPs(s)) = 0 =>
                \A src \in {s.hostIP, s.mapped, s.wellKnown, s.custom} : src = << >>
<1>1. \A src \in {s.hostIP, s.mapped, s.wellKnown, s.custom} : src \in Seq(STRING)
  BY EncryptedAssumption
<1>2. PICK found : found = s.hostIP \o s.mapped
  OBVIOUS
<1>3. found \in Seq(STRING) /\ Len(found) = Len(s.hostIP) + Len(s.mapped)
  BY <1>1, <1>2, ConcatProperties
<1>4. PICK base \in Seq(STRING) : base = IF found # << >> THEN found ELSE s.wellKnown
  BY <1>1, <1>3
<1>5. bootstrapIPs(s) = base \o s.custom
  BY <1>2, <1>4 DEF bootstrapIPs
<1>6. bootstrapIPs(s) \in Seq(STRING) /\ Len(bootstrapIPs(s)) = Len(base) + Len(s.custom)
  BY <1>1, <1>4, <1>5, ConcatProperties
<1>7. \A t \in Seq(STRING) : Len(t) \in Nat /\ (Len(t) = 0 <=> t = << >>)
  BY EmptySeq, LenProperties
<1>8. ASSUME Len(bootstrapIPs(s)) = 0
      PROVE  \A src \in {s.hostIP, s.mapped, s.wellKnown, s.custom} : src = << >>
  <2>1. base = << >> /\ s.custom = << >>
    <3>1. Len(base) \in Nat /\ Len(s.custom) \in Nat /\ Len(base) + Len(s.custom) = 0
      BY <1>1, <1>4, <1>6, <1>7, <1>8
    <3>2. Len(base) = 0 /\ Len(s.custom) = 0
      BY <3>1
    <3> QED
      BY <1>1, <1>4, <1>7, <3>2
  <2>2. found = << >> /\ s.wellKnown = << >>
    BY <1>4, <2>1
  <2>3. Len(s.hostIP) + Len(s.mapped) = 0
    BY <1>3, <1>7, <2>2
  <2>4. s.hostIP = << >> /\ s.mapped = << >>
    <3>1. Len(s.hostIP) \in Nat /\ Len(s.mapped) \in Nat
      BY <1>1, <1>7
    <3>2. ASSUME NEW a \in Nat, NEW b \in Nat, a + b = 0 PROVE a = 0 /\ b = 0
      BY <3>2
    <3>3. Len(s.hostIP) = 0 /\ Len(s.mapped) = 0
      BY <2>3, <3>1, <3>2
    <3> QED
      BY <1>1, <1>7, <3>3
  <2> QED
    BY <2>1, <2>2, <2>4
<1> QED
  BY <1>6, <1>7, <1>8

LEMMA AddressFacts ==
    ASSUME setup \in Setups
    PROVE  /\ N \in Nat /\ IPs \in Seq(STRING) /\ N = Len(IPs)
           /\ Known = {IPs[k] : k \in 1..N}
<1>1. N \in Nat /\ IPs \in Seq(STRING) /\ N = Len(IPs)
  BY Sources DEF N, IPs
<1>2. DOMAIN IPs = 1..N
  BY <1>1, LenProperties
<1> QED
  BY <1>1, <1>2 DEF Known, ToSet

LEMMA CandidateKnown ==
    ASSUME setup \in Setups, N > 0, NEW start \in Nat, NEW i \in Nat
    PROVE  Candidate(start, i) \in Known \cap STRING
<1>1. N \in Nat \ {0} /\ IPs \in Seq(STRING) /\ N = Len(IPs) /\ Known = {IPs[k] : k \in 1..N}
  BY AddressFacts
<1>2. PICK n \in Nat \ {0} : n = N
  BY <1>1
<1>3. PICK x \in Int : x = start + i
  BY <1>2
<1>4. (x % n) + 1 \in 1..n
  BY ModRange
<1> QED
  BY <1>1, <1>2, <1>3, <1>4, ElementOfSeq DEF Candidate

(* One turn of the loop for every address. *)
LEMMA CandidateFacts ==
    ASSUME setup \in Setups, N > 0, NEW start \in 0..(N - 1)
    PROVE  \A a \in Known : \E i \in 0..(N - 1) : Candidate(start, i) = a
<1>1. N \in Nat \ {0} /\ IPs \in Seq(STRING) /\ N = Len(IPs) /\ Known = {IPs[k] : k \in 1..N}
  BY AddressFacts
<1>2. PICK n \in Nat \ {0} : n = N
  BY <1>1
<1>4. ASSUME NEW a \in Known PROVE \E i \in 0..(N - 1) : Candidate(start, i) = a
  <2>1. PICK k \in 1..n : IPs[k] = a
    BY <1>1, <1>2
  <2>2. start \in 0..(n - 1)
    BY <1>2
  <2>3. PICK i \in 0..(n - 1) : i = IF start <= k - 1 THEN (k - 1) - start ELSE ((k - 1) - start) + n
    <3>1. CASE start <= k - 1
      BY <2>2, <3>1
    <3>2. CASE k - 1 < start
      BY <2>2, <3>2
    <3> QED
      BY <2>2, <3>1, <3>2
  <2>4. PICK x \in 0..(2 * n - 1) : x = start + i
    BY <2>2
  <2>5. x % n = IF x < n THEN x ELSE x - n
    BY ModWrap
  <2>6. (x % n) + 1 = k
    BY <2>2, <2>3, <2>4, <2>5
  <2> QED
    BY <1>2, <2>1, <2>4, <2>6 DEF Candidate
<1> QED
  BY <1>4

-----------------------------------------------------------------------------
LEMMA MakeExchange ==
    ASSUME NEW p \in Phases, NEW s \in Nat, NEW t \in Nat, NEW l \in 0..Timeout, NEW a \in Addresses
    PROVE  [phase |-> p, start |-> s, tried |-> t, left |-> l, at |-> a] \in Exchanges
BY DEF Exchanges

LEMMA Constants ==
    /\ 0 \in 0..Timeout /\ Timeout \in 0..Timeout
    /\ "" \in Addresses /\ STRING \subseteq Addresses /\ Own \subseteq Addresses
    /\ \A p \in {"idle", "resolve", "dial", "tls", "wait", "pooled", "ok", "err"} : p \in Phases
<1>1. 0 \in 0..Timeout /\ Timeout \in 0..Timeout
  BY EncryptedAssumption
<1>2. "" \in Addresses /\ STRING \subseteq Addresses /\ Own \subseteq Addresses
  BY DEF Addresses
<1> QED
  BY <1>1, <1>2 DEF Phases

LEMMA InvInit == Init => Inv
<1> SUFFICES ASSUME Init PROVE Inv
  OBVIOUS
<1>1. Quiet \in Exchanges /\ Quiet.phase = "idle" /\ NoConn \in Pools
  <2>1. "idle" \in Phases /\ 0 \in Nat /\ 0 \in 0..Timeout /\ "" \in Addresses
    BY Constants
  <2>2. Quiet \in Exchanges
    BY <2>1, MakeExchange DEF Quiet
  <2> QED
    BY <2>1, <2>2 DEF Quiet, NoConn, Pools
<1>2. Types
  BY <1>1 DEF Init, Types
<1>3. \A q \in Queries : ex[q].phase = "idle"
  BY <1>1 DEF Init
<1> QED
  BY <1>2, <1>3 DEF Init, Inv, NoPool, ResolveOK, LoopOK

(* What follows from the setup and the servers never changes. *)
LEMMA Fixed ==
    ASSUME UNCHANGED <<setup, net>>
    PROVE  /\ UNCHANGED <<IPs, N, DoH, Known, Good>>
           /\ \A start, i : Candidate(start, i)' = Candidate(start, i)
<1>1. UNCHANGED <<IPs, N, DoH, Known>>
  BY DEF IPs, N, DoH, Known
<1> QED
  BY <1>1 DEF Good, Candidate

LEMMA ExchangeFrame ==
    ASSUME NEW q, ResolveOK(q), LoopOK(q), UNCHANGED <<setup, net, ex[q]>>
    PROVE  ResolveOK(q)' /\ LoopOK(q)'
<1>1. /\ UNCHANGED <<N, DoH, Good, ex[q]>>
      /\ \A start, i : Candidate(start, i)' = Candidate(start, i)
  BY Fixed
<1>2. ResolveOK(q)'
  BY <1>1 DEF ResolveOK
<1>3. LoopOK(q)'
  <2>1. \A i : Candidate(ex[q].start, i)' = Candidate(ex[q].start, i)
    BY <1>1 DEF Candidate, IPs
  <2> QED
    BY <1>1, <2>1 DEF LoopOK
<1> QED
  BY <1>2, <1>3

(* A step of one exchange: what is left to show is about that exchange. *)
LEMMA OneExchange ==
    ASSUME Inv, NEW q \in Queries, UNCHANGED <<setup, net>>, ipCounter' \in Nat,
           pool' \in Pools, NEW e \in Exchanges, ex' = [ex EXCEPT ![q] = e],
           ~DoH => pool' = NoConn /\ e.phase # "pooled",
           e.phase = "resolve" => N = 0, LoopOK(q)'
    PROVE  Inv'
<1>1. /\ ex' \in [Queries -> Exchanges] /\ ex'[q] = e
      /\ \A p \in Queries \ {q} : ex'[p] = ex[p]
  BY DEF Inv, Types
<1>2. UNCHANGED <<N, DoH>>
  BY Fixed
<1>3. Types'
  BY <1>1 DEF Inv, Types
<1>4. NoPool'
  BY <1>1, <1>2 DEF Inv, NoPool
<1>5. ResolveOK(q)'
  BY <1>1, <1>2 DEF ResolveOK
<1>6. ASSUME NEW p \in Queries, p # q PROVE ResolveOK(p)' /\ LoopOK(p)'
  BY <1>1, <1>6, ExchangeFrame DEF Inv
<1> QED
  BY <1>3, <1>4, <1>5, <1>6 DEF Inv

LEMMA DrawStep == ASSUME Inv, NEW q \in Queries, Draw(q) PROVE Inv'
<1>1. setup \in Setups /\ ipCounter \in Nat /\ N > 0 /\ ex \in [Queries -> Exchanges]
  BY DEF Inv, Types, Draw
<1>2. N \in Nat \ {0}
  BY <1>1, AddressFacts
<1>3. PICK n \in Nat \ {0} : n = N
  BY <1>2
<1>4. PICK idx \in 0..(n - 1) : idx = (ipCounter + 1) % n
  <2>1. ipCounter + 1 \in Int
    BY <1>1
  <2> QED
    BY <2>1, ModRange
<1>5. PICK a \in STRING : a = Candidate(idx, 0)
  <2>1. idx \in Nat /\ 0 \in Nat
    OBVIOUS
  <2> QED
    BY <1>1, <2>1, CandidateKnown
<1>6. PICK e \in Exchanges : e = [phase |-> "dial", start |-> idx, tried |-> 0, left |-> Timeout,
                                  at |-> a]
  <2>1. "dial" \in Phases /\ Timeout \in 0..Timeout /\ a \in Addresses
    BY Constants
  <2>2. idx \in Nat /\ 0 \in Nat
    OBVIOUS
  <2> QED
    BY <2>1, <2>2, MakeExchange
<1>7. /\ ex' = [ex EXCEPT ![q] = e] /\ UNCHANGED <<setup, net, pool>> /\ ipCounter' = idx
  BY <1>3, <1>4, <1>5, <1>6 DEF Draw
<1>8. LoopOK(q)'
  <2>1. ex'[q] = e /\ UNCHANGED <<N, DoH>> /\ Candidate(idx, 0)' = Candidate(idx, 0)
    BY <1>1, <1>7, Fixed
  <2>2. /\ e.phase = "dial" /\ e.start = idx /\ e.tried = 0 /\ e.at = a /\ 0..(e.tried - 1) = {}
        /\ 0 \in 0..(n - 1)
    BY <1>6
  <2> QED
    BY <1>3, <1>5, <2>1, <2>2 DEF LoopOK
<1>9. ipCounter' \in Nat /\ pool' \in Pools /\ (~DoH => pool' = NoConn)
  BY <1>7 DEF Inv, Types, NoPool
<1>10. e.phase = "dial"
  BY <1>6
<1> QED
  BY <1>7, <1>8, <1>9, <1>10, OneExchange

LEMMA DialByNameStep == ASSUME Inv, NEW q \in Queries, DialByName(q) PROVE Inv'
<1>1. PICK e \in Exchanges : e = [phase |-> "resolve", start |-> 0, tried |-> 0, left |-> Timeout,
                                  at |-> ""]
  <2>1. "resolve" \in Phases /\ 0 \in Nat /\ Timeout \in 0..Timeout /\ "" \in Addresses
    BY Constants
  <2> QED
    BY <2>1, MakeExchange
<1>2. /\ N = 0 /\ ex' = [ex EXCEPT ![q] = e] /\ UNCHANGED <<setup, net, pool, ipCounter>>
  BY <1>1 DEF DialByName
<1>3. ex'[q] = e /\ e.phase = "resolve"
  BY <1>1, <1>2 DEF Inv, Types
<1>4. LoopOK(q)'
  BY <1>3 DEF LoopOK
<1> QED
  BY <1>2, <1>3, <1>4, OneExchange DEF Inv, Types, NoPool

LEMMA ReuseStep == ASSUME Inv, NEW q \in Queries, Reuse(q) PROVE Inv'
<1>1. PICK l \in 0..Timeout : l = IF Ready(q) THEN Timeout ELSE ex[q].left
  BY EncryptedAssumption DEF Inv, Types, Exchanges
<1>2. PICK e \in Exchanges : e = [phase |-> "pooled", start |-> 0, tried |-> 0, at |-> pool.at,
                                  left |-> l]
  <2>1. "pooled" \in Phases /\ 0 \in Nat /\ pool.at \in Addresses
    BY Constants DEF Inv, Types, Pools
  <2>2. [phase |-> "pooled", start |-> 0, tried |-> 0, left |-> l, at |-> pool.at] \in Exchanges
    BY <2>1, MakeExchange
  <2> QED
    BY <2>2
<1>3. /\ DoH /\ ex' = [ex EXCEPT ![q] = e] /\ UNCHANGED <<setup, net, pool, ipCounter>>
  BY <1>1, <1>2 DEF Reuse
<1>4. LoopOK(q)'
  <2>1. ex'[q] = e /\ e.phase = "pooled"
    BY <1>2, <1>3 DEF Inv, Types
  <2> QED
    BY <2>1 DEF LoopOK
<1> QED
  BY <1>2, <1>3, <1>4, OneExchange DEF Inv, Types, NoPool

-----------------------------------------------------------------------------
(* A step to another phase, everything else of the exchange unchanged. *)
LEMMA PhaseStep ==
    ASSUME Inv, NEW q \in Queries, NEW p \in Phases \ {"resolve"}, Phase(q, p),
           pool' \in Pools, ~DoH => pool' = NoConn /\ p # "pooled",
           ~DoH /\ p = "err" => Good = {} \/ ex[q].left = 0,
           N > 0 /\ p \in {"dial", "tls", "wait"} => ex[q].phase \in {"dial", "tls", "wait"}
    PROVE  Inv'
<1>1. ex[q] \in Exchanges /\ ex \in [Queries -> Exchanges]
  BY DEF Inv, Types
<1>2. PICK e \in Exchanges : e = [ex[q] EXCEPT !.phase = p]
  BY <1>1 DEF Exchanges
<1>3. ex' = [ex EXCEPT ![q] = e] /\ UNCHANGED <<setup, net, ipCounter>>
  BY <1>1, <1>2 DEF Phase
<1>4. /\ e.phase = p /\ e.start = ex[q].start /\ e.tried = ex[q].tried /\ e.left = ex[q].left
      /\ e.at = ex[q].at /\ ex'[q] = e
  BY <1>1, <1>2, <1>3 DEF Exchanges
<1>5. LoopOK(q)'
  <2>1. /\ UNCHANGED <<N, DoH, Good>>
        /\ \A start, i : Candidate(start, i)' = Candidate(start, i)
    BY <1>3, Fixed
  <2>3. LoopOK(q)
    BY DEF Inv
  <2>4. ASSUME N > 0, p \in {"dial", "tls", "wait"}
        PROVE  /\ e.start \in 0..(N - 1) /\ e.tried \in 0..(N - 1)
               /\ e.at = Candidate(e.start, e.tried)
               /\ \A i \in 0..(e.tried - 1) : Candidate(e.start, i) \notin Good \/ e.left = 0
    BY <1>4, <2>3, <2>4 DEF LoopOK
  <2>5. \A i : Candidate(e.start, i)' = Candidate(e.start, i)
    BY <2>1
  <2> QED
    BY <1>4, <2>1, <2>4, <2>5 DEF LoopOK
<1> QED
  BY <1>3, <1>4, <1>5, OneExchange DEF Inv, Types

(* Where DoT gives up or goes on, the address it was at is no good. *)
LEMMA FailStep ==
    ASSUME Inv, NEW q \in Queries, Fail(q), ~DoH => Good = {} \/ ex[q].left = 0
    PROVE  Inv'
<1>1. Phase(q, "err") /\ "err" \in Phases \ {"resolve"} /\ UNCHANGED pool
  BY Constants DEF Fail
<1>2. pool' \in Pools /\ (~DoH => pool' = NoConn)
  BY <1>1 DEF Inv, Types, NoPool
<1> QED
  BY <1>1, <1>2, PhaseStep

LEMMA LoopFacts ==
    ASSUME Inv, NEW q \in Queries, N > 0, ex[q].phase \in {"dial", "tls", "wait"},
           ex[q].at \notin Good \/ ex[q].left = 0
    PROVE  /\ \A i \in 0..ex[q].tried : Candidate(ex[q].start, i) \notin Good \/ ex[q].left = 0
           /\ ex[q].tried + 1 = N => Good = {} \/ ex[q].left = 0
<1>1. setup \in Setups /\ ex[q] \in Exchanges
  BY DEF Inv, Types
<1>2. PICK n \in Nat \ {0} : n = N
  BY <1>1, AddressFacts
<1>3. PICK t \in Nat, s \in Nat : t = ex[q].tried /\ s = ex[q].start
  BY <1>1 DEF Exchanges
<1>4. /\ s \in 0..(n - 1) /\ t \in 0..(n - 1) /\ ex[q].at = Candidate(s, t)
      /\ \A i \in 0..(t - 1) : Candidate(s, i) \notin Good \/ ex[q].left = 0
  BY <1>2, <1>3 DEF Inv, LoopOK
<1>5. \A i \in 0..t : i \in 0..(t - 1) \/ i = t
  OBVIOUS
<1>6. \A i \in 0..t : Candidate(s, i) \notin Good \/ ex[q].left = 0
  BY <1>4, <1>5
<1>7. ASSUME t + 1 = n, ex[q].left # 0, NEW a \in Good PROVE FALSE
  <2>1. a \in Known /\ s \in 0..(N - 1)
    BY <1>2, <1>4 DEF Good
  <2>2. PICK i \in 0..(N - 1) : Candidate(s, i) = a
    BY <1>1, <2>1, CandidateFacts
  <2>3. i \in 0..t
    BY <1>2, <1>7, <2>2
  <2> QED
    BY <1>6, <1>7, <2>2, <2>3
<1> QED
  BY <1>2, <1>3, <1>6, <1>7

LEMMA NextAddressStep ==
    ASSUME Inv, NEW q \in Queries, NextAddress(q), N > 0, ex[q].phase \in {"dial", "tls", "wait"},
           ex[q].at \notin Good \/ ex[q].left = 0
    PROVE  Inv'
<1>1. /\ setup \in Setups /\ ex \in [Queries -> Exchanges] /\ ex[q] \in Exchanges
  BY DEF Inv, Types
<1>2. PICK n \in Nat \ {0} : n = N
  BY <1>1, AddressFacts
<1>3. PICK t \in Nat, s \in Nat, l \in 0..Timeout :
        t = ex[q].tried /\ s = ex[q].start /\ l = ex[q].left
  BY <1>1 DEF Exchanges
<1>4. /\ s \in 0..(n - 1) /\ t \in 0..(n - 1)
      /\ \A i \in 0..t : Candidate(s, i) \notin Good \/ l = 0
  BY <1>2, <1>3, LoopFacts DEF Inv, LoopOK
<1>5. CASE t + 1 = n
  <2>1. Fail(q)
    BY <1>2, <1>3, <1>5 DEF NextAddress
  <2>2. Good = {} \/ ex[q].left = 0
    BY <1>2, <1>3, <1>5, LoopFacts
  <2> QED
    BY <2>1, <2>2, FailStep
<1>6. CASE t + 1 # n
  <2>1. PICK a : a = Candidate(s, t + 1)
    OBVIOUS
  <2>2. a \in Addresses
    <3>1. t + 1 \in Nat
      OBVIOUS
    <3>2. a \in STRING
      BY <1>1, <2>1, <3>1, CandidateKnown
    <3> QED
      BY <3>2, Constants
  <2>3. PICK f \in Exchanges :
          f = [phase |-> "dial", start |-> s, tried |-> t + 1, left |-> l, at |-> a]
    <3>1. "dial" \in Phases
      BY Constants
    <3>2. t + 1 \in Nat
      OBVIOUS
    <3> QED
      BY <2>2, <3>1, <3>2, MakeExchange
  <2>4. ex' = [ex EXCEPT ![q] = f] /\ UNCHANGED <<setup, net, ipCounter, pool>>
    <3>1. /\ ex' = [ex EXCEPT ![q].phase = "dial", ![q].tried = @ + 1, ![q].at = a]
          /\ UNCHANGED <<setup, net, ipCounter, pool>>
      BY <1>2, <1>3, <1>6, <2>1 DEF NextAddress
    <3> QED
      BY <1>1, <1>3, <2>3, <3>1 DEF Exchanges
  <2>5. /\ f.phase = "dial" /\ f.start = s /\ f.tried = t + 1 /\ f.left = l /\ f.at = a
        /\ ex'[q] = f
    BY <1>1, <2>3, <2>4
  <2>6. /\ UNCHANGED <<N, DoH, Good>>
        /\ \A start, i : Candidate(start, i)' = Candidate(start, i)
    BY <2>4, Fixed
  <2>7. LoopOK(q)'
    <3>1. /\ s \in 0..(n - 1) /\ t + 1 \in 0..(n - 1)
          /\ \A i \in 0..((t + 1) - 1) : Candidate(s, i) \notin Good \/ l = 0
      BY <1>4, <1>6
    <3>2. \A i : Candidate(s, i)' = Candidate(s, i)
      BY <2>6
    <3> QED
      BY <1>2, <2>1, <2>5, <2>6, <3>1, <3>2 DEF LoopOK
  <2>8. ipCounter' \in Nat /\ pool' \in Pools /\ (~DoH => pool' = NoConn)
    BY <2>4 DEF Inv, Types, NoPool
  <2> QED
    BY <2>4, <2>5, <2>7, <2>8, OneExchange
<1> QED
  BY <1>5, <1>6

LEMMA ResolvedStep == ASSUME Inv, NEW q \in Queries, Resolved(q) PROVE Inv'
<1>1. setup \in Setups /\ ex \in [Queries -> Exchanges] /\ ex[q] \in Exchanges /\ N = 0
  BY DEF Inv, Types, Resolved, ResolveOK
<1>2. PICK a \in Own : /\ ex' = [ex EXCEPT ![q].phase = "dial", ![q].at = a]
                       /\ UNCHANGED <<setup, net, ipCounter, pool>>
  BY DEF Resolved
<1>3. PICK f \in Exchanges : f = [[ex[q] EXCEPT !.phase = "dial"] EXCEPT !.at = a]
  <2>1. "dial" \in Phases /\ a \in Addresses
    BY Constants
  <2>2. PICK g \in Exchanges : g = [ex[q] EXCEPT !.phase = "dial"]
    BY <1>1, <2>1 DEF Exchanges
  <2>3. [g EXCEPT !.at = a] \in Exchanges
    BY <2>1, <2>2 DEF Exchanges
  <2> QED
    BY <2>2, <2>3
<1>4. ex' = [ex EXCEPT ![q] = f]
  <2>1. PICK h : h = [ex EXCEPT ![q].phase = "dial"]
    OBVIOUS
  <2>2. ex' = [h EXCEPT ![q].at = a]
    BY <1>2, <2>1
  <2> QED
    BY <1>1, <1>3, <2>1, <2>2
<1>5. ex'[q] = f /\ f.phase = "dial" /\ UNCHANGED N
  <2>1. UNCHANGED N
    BY <1>2, Fixed
  <2> QED
    BY <1>1, <1>3, <1>4, <2>1 DEF Exchanges
<1>6. LoopOK(q)'
  BY <1>1, <1>5 DEF LoopOK
<1>7. ipCounter' \in Nat /\ pool' \in Pools /\ (~DoH => pool' = NoConn)
  BY <1>2 DEF Inv, Types, NoPool
<1> QED
  BY <1>2, <1>4, <1>5, <1>6, <1>7, OneExchange

(* Without addresses, none of them answers. *)
LEMMA NoAddress == ASSUME setup \in Setups, N = 0 PROVE Good = {}
<1>1. Known = {}
  BY AddressFacts
<1> QED
  BY <1>1 DEF Good

LEMMA ExchangeStep == ASSUME Inv, NEW q \in Queries, Exchange(q) PROVE Inv'
<1>1. setup \in Setups /\ (N = 0 \/ N > 0) /\ (N = 0 => Good = {})
  BY AddressFacts, NoAddress DEF Inv, Types
<1>2. CASE Resolved(q)
  BY <1>2, ResolvedStep
<1>3. CASE ResolveFails(q)
  BY <1>3, FailStep DEF ResolveFails
<1>4. CASE Connected(q)
  <2>1. Phase(q, "tls") /\ UNCHANGED pool /\ "tls" \in Phases \ {"resolve"} /\ ex[q].phase = "dial"
    BY <1>4, Constants DEF Connected
  <2>2. pool' \in Pools /\ (~DoH => pool' = NoConn)
    BY <2>1 DEF Inv, Types, NoPool
  <2> QED
    BY <2>1, <2>2, PhaseStep
<1>5. CASE DialFails(q)
  <2>1. ex[q].at \notin Good \/ ex[q].left = 0
    BY <1>5 DEF DialFails, Good
  <2> QED
    BY <1>1, <1>5, <2>1, FailStep, NextAddressStep DEF DialFails
<1>6. CASE Secured(q)
  <2>1. /\ ex[q].phase = "tls" /\ ex[q].at \in Addresses
        /\ \/ /\ Phase(q, "pooled") /\ DoH /\ pool' = [state |-> "live", at |-> ex[q].at]
           \/ Phase(q, "wait") /\ UNCHANGED pool
    BY <1>6 DEF Secured, Inv, Types, Exchanges
  <2>2. "pooled" \in Phases \ {"resolve"} /\ "wait" \in Phases \ {"resolve"}
    BY Constants
  <2>3. pool' \in Pools /\ (~DoH => pool' = NoConn)
    BY <2>1 DEF Inv, Types, NoPool, Pools
  <2> QED
    BY <2>1, <2>2, <2>3, PhaseStep
<1>7. CASE HandshakeFails(q)
  <2>1. ex[q].phase = "tls" /\ (ex[q].at \notin Good \/ ex[q].left = 0)
    BY <1>7 DEF HandshakeFails, Good
  <2> QED
    BY <1>1, <1>7, <2>1, FailStep, NextAddressStep DEF HandshakeFails
<1>8. CASE Reply(q)
  <2>1. Phase(q, "ok") /\ UNCHANGED pool /\ "ok" \in Phases \ {"resolve"}
    BY <1>8, Constants DEF Reply
  <2>2. pool' \in Pools /\ (~DoH => pool' = NoConn)
    BY <2>1 DEF Inv, Types, NoPool
  <2> QED
    BY <2>1, <2>2, PhaseStep
<1>9. CASE ReplyFails(q)
  <2>1. ex[q].at \notin Good \/ ex[q].left = 0
    BY <1>9 DEF ReplyFails, Good
  <2>2. ~DoH => ex[q].phase = "wait"
    BY <1>9 DEF ReplyFails, Inv, NoPool
  <2> QED
    BY <1>1, <1>9, <2>1, <2>2, FailStep, NextAddressStep DEF ReplyFails
<1> QED
  BY <1>2, <1>3, <1>4, <1>5, <1>6, <1>7, <1>8, <1>9 DEF Exchange

-----------------------------------------------------------------------------
(* A step of the connection or of time: what is left to show is that every *)
(* exchange keeps to its invariant.                                        *)
LEMMA ConnDiesStep == ASSUME Inv, ConnDies PROVE Inv'
<1>1. UNCHANGED <<setup, net, ipCounter, ex>> /\ DoH
  <2>1. pool # NoConn
    <3>1. NoConn.state = "none"
      BY DEF NoConn
    <3>2. pool.state = "live"
      BY DEF ConnDies
    <3> QED
      BY <3>1, <3>2
  <2> QED
    BY <2>1 DEF ConnDies, Inv, NoPool
<1>2. pool' \in Pools
  BY DEF ConnDies, Inv, Types, Pools
<1>3. UNCHANGED DoH
  BY <1>1, Fixed
<1>4. \A q \in Queries : ResolveOK(q)' /\ LoopOK(q)'
  BY <1>1, ExchangeFrame DEF Inv
<1> QED
  BY <1>1, <1>2, <1>3, <1>4 DEF Inv, Types, NoPool

LEMMA ConnClosesStep == ASSUME Inv, ConnCloses PROVE Inv'
<1>1. UNCHANGED <<setup, net, ipCounter>> /\ DoH /\ pool' = NoConn /\ NoConn \in Pools
  BY Constants DEF ConnCloses, Inv, NoPool, NoConn, Pools
<1>2. UNCHANGED <<N, DoH>>
  BY <1>1, Fixed
<1>3. ASSUME NEW q \in Queries
      PROVE  ex'[q] \in Exchanges /\ ResolveOK(q)' /\ LoopOK(q)'
  <2>1. ex[q] \in Exchanges /\ ResolveOK(q) /\ "err" \in Phases
    BY Constants DEF Inv, Types
  <2>2. /\ ex'[q] \in Exchanges
        /\ ex'[q] = ex[q] \/ ex'[q].phase = "err"
    <3>1. CASE ex[q].phase = "pooled"
      BY <2>1, <3>1 DEF ConnCloses, Exchanges
    <3>2. CASE ex[q].phase # "pooled"
      BY <2>1, <3>2 DEF ConnCloses
    <3> QED
      BY <3>1, <3>2
  <2> QED
    BY <1>1, <1>2, <2>1, <2>2, ExchangeFrame DEF ResolveOK, LoopOK, Inv
<1>4. ex' \in [Queries -> Exchanges]
  BY <1>3 DEF ConnCloses
<1> QED
  BY <1>1, <1>2, <1>3, <1>4 DEF Inv, Types, NoPool

LEMMA TickStep == ASSUME Inv, Tick PROVE Inv'
<1>1. UNCHANGED <<setup, net, ipCounter, pool>>
  BY DEF Tick
<1>2. /\ UNCHANGED <<N, DoH, Good>>
      /\ \A start, i : Candidate(start, i)' = Candidate(start, i)
  BY <1>1, Fixed
<1>3. ASSUME NEW q \in Queries
      PROVE  /\ ex'[q] \in Exchanges /\ ResolveOK(q)' /\ LoopOK(q)'
             /\ ex'[q].phase = ex[q].phase
  <2>1. ex[q] \in Exchanges /\ ResolveOK(q) /\ LoopOK(q)
    BY DEF Inv, Types
  <2>2. CASE Ready(q)
    <3>1. ex'[q] = ex[q]
      BY <2>2 DEF Tick
    <3> QED
      BY <1>1, <2>1, <3>1, ExchangeFrame
  <2>3. CASE ~Ready(q)
    <3>1. PICK l \in 0..Timeout : l = ex[q].left
      BY <2>1 DEF Exchanges
    <3>2. l > 0
      BY <2>3, <3>1 DEF Tick, Waits
    <3>3. l - 1 \in 0..Timeout
      BY <3>2, EncryptedAssumption
    <3>4. ex'[q] = [ex[q] EXCEPT !.left = l - 1]
      BY <2>3, <3>1 DEF Tick
    <3>5. ex'[q] \in Exchanges
      BY <2>1, <3>3, <3>4 DEF Exchanges
    <3>6. /\ ex'[q].phase = ex[q].phase /\ ex'[q].start = ex[q].start
          /\ ex'[q].tried = ex[q].tried /\ ex'[q].at = ex[q].at
      BY <2>1, <3>4 DEF Exchanges
    <3>7. ResolveOK(q)'
      BY <1>2, <2>1, <3>6 DEF ResolveOK
    <3>8. LoopOK(q)'
      <4>1. PICK s : s = ex[q].start /\ \A i : Candidate(s, i)' = Candidate(s, i)
        BY <1>2
      <4>2. ex[q].phase # "err" /\ ex[q].left # 0
        BY <2>3, <3>1, <3>2 DEF Ready
      <4> QED
        BY <1>2, <2>1, <3>6, <4>1, <4>2 DEF LoopOK
    <3> QED
      BY <3>5, <3>6, <3>7, <3>8
  <2> QED
    BY <2>2, <2>3
<1>4. ex' \in [Queries -> Exchanges]
  BY <1>3 DEF Tick
<1> QED
  BY <1>1, <1>2, <1>3, <1>4 DEF Inv, Types, NoPool

LEMMA InvStep == Inv /\ [Next]_vars => Inv'
<1> SUFFICES ASSUME Inv, [Next]_vars PROVE Inv'
  OBVIOUS
<1>1. CASE UNCHANGED vars
  <2>1. UNCHANGED <<setup, net, ipCounter, pool, ex>>
    BY <1>1 DEF vars
  <2>2. UNCHANGED DoH
    BY <2>1, Fixed
  <2>3. \A q \in Queries : ResolveOK(q)' /\ LoopOK(q)'
    BY <2>1, ExchangeFrame DEF Inv
  <2> QED
    BY <2>1, <2>2, <2>3 DEF Inv, Types, NoPool
<1> QED
  BY <1>1, DrawStep, DialByNameStep, ReuseStep, ExchangeStep, ConnDiesStep, ConnClosesStep, TickStep
  DEF Next

-----------------------------------------------------------------------------
(* The inductive invariant: what is known of the addresses every DoT       *)
(* exchange has left behind.                                               *)
THEOREM Invariance == Spec => []Inv
BY InvInit, InvStep, PTL DEF Spec

(* bootstrapIPs of NewDoHClient and NewDoTClient: whatever source holds an *)
(* address, the host name is not resolved.                                 *)
THEOREM NoColdStart == Spec => []NoColdStartDeadlock
<1>1. Inv => NoColdStartDeadlock
  BY Sources DEF Inv, Types, ResolveOK, NoColdStartDeadlock, N, IPs
<1> QED
  BY <1>1, Invariance, PTL

(* The loop of DoTClient.Exchange comes to every address: an exchange      *)
(* fails only if no address of the provider answers or its time is up.     *)
THEOREM DoTFallback == Spec => []DoTFallsBack
<1>1. Inv => DoTFallsBack
  BY DEF Inv, LoopOK, DoTFallsBack
<1> QED
  BY <1>1, Invariance, PTL

-----------------------------------------------------------------------------
(* The hypothesis of OutageBounded, for exchanges that have any time. *)
Reacts ==
    /\ Timeout > 0 /\ Good # {}
    /\ \A a \in Known : net[a] \notin {"silent", "stalls", "errs"}

(* Where an exchange starts that succeeds. *)
Lucky == {g \in 0..(N - 1) : Candidate(g, 0) \in Good}

(* The exchanges that may still fail after a start elsewhere, and those    *)
(* that are going to end the outage.                                       *)
Risky(g) == {q \in Queries : ex[q].phase \in {"dial", "tls"} /\ ex[q].start # g}
Committed(g) ==
    {q \in Queries : \/ ex[q].phase \in {"dial", "tls", "wait"} /\ ex[q].start = g
                     \/ ex[q].phase = "pooled" /\ pool.state = "live"}

(* The starts elsewhere before the next start at g. *)
Until(g) == IF ipCounter < g THEN (g - ipCounter) - 1 ELSE ((g - ipCounter) - 1) + N

(* No exchange runs out of time or meets an error on the way. *)
Smooth(q) ==
    /\ ex[q].phase \in {"dial", "tls", "wait"} => ex[q].left > 0
    /\ ex[q].phase \in {"tls", "wait"} => net[ex[q].at] = "answers"
    /\ ex[q].phase = "wait" => ex[q].at \in Own
    /\ ex[q].phase = "pooled" => pool.state # "none"
    /\ ex[q].phase = "pooled" /\ pool.state = "live" => ex[q].at = pool.at /\ ex[q].left > 0

(* While the pool is empty, the failures so far and to come are paid for   *)
(* by the exchanges that will end the outage; while it is not, nobody      *)
(* draws a start, and only those on their way already can fail.            *)
Drawing == pool.state = "none" \/ (pool.state = "live" /\ \E q \in Queries : ex[q].phase = "pooled")

Counted(g) ==
    /\ Drawing => (streak + Cardinality(Risky(g))) + Until(g)
                    <= (Cardinality(Committed(g)) * (N - 1) + (N - 1)) + (Cardinality(Queries) - 1)
    /\ ~Drawing => streak + Cardinality(Risky(g)) <= Cardinality(Queries) - 1
    /\ pool.state # "none" => \E q \in Queries : q \notin Risky(g)
    /\ streak <= Cardinality(Queries) * N - 1

Core ==
    /\ ipCounter \in 0..(N - 1)
    /\ pool.state = "live" => pool.at \in Good
    /\ \A q \in Queries : Smooth(q)
    /\ DoH => \A g \in Lucky : Counted(g)
    /\ ~DoH => streak = 0

Outage ==
    /\ streak \in Nat
    /\ pool.state = "none" => pool = NoConn
    /\ Reacts => Core

-----------------------------------------------------------------------------
LEMMA OutageFixed == ASSUME UNCHANGED <<setup, net>> PROVE UNCHANGED <<N, Good, Lucky, Known, DoH, Reacts>>
<1>1. /\ UNCHANGED <<N, Good, Known, DoH>>
      /\ \A start, i : Candidate(start, i)' = Candidate(start, i)
  BY Fixed
<1>2. UNCHANGED Reacts
  BY <1>1 DEF Reacts
<1>3. UNCHANGED Lucky
  BY <1>1 DEF Lucky
<1> QED
  BY <1>1, <1>2, <1>3

LEMMA LuckyFacts ==
    ASSUME setup \in Setups, Reacts
    PROVE  N \in Nat \ {0} /\ Lucky # {} /\ Lucky \subseteq 0..(N - 1)
<1>1. N \in Nat /\ Known = {IPs[k] : k \in 1..N}
  BY AddressFacts
<1>2. PICK a \in Known : a \in Good
  BY DEF Reacts, Good
<1>3. PICK k \in 1..N : IPs[k] = a
  BY <1>1, <1>2
<1>4. PICK n \in Nat \ {0} : n = N
  BY <1>1, <1>3
<1>5. PICK g \in 0..(n - 1) : g = k - 1
  BY <1>3, <1>4
<1>6. g % n = g
  <2>1. g \in 0..(2 * n - 1) /\ g < n
    OBVIOUS
  <2> QED
    BY <2>1, ModWrap
<1>7. ((g + 0) % n) + 1 = k
  <2>1. g + 0 = g
    OBVIOUS
  <2> QED
    BY <1>3, <1>4, <1>5, <1>6, <2>1
<1>8. Candidate(g, 0) = a
  BY <1>3, <1>4, <1>7 DEF Candidate
<1> QED
  BY <1>2, <1>4, <1>8 DEF Lucky

(* An exchange that starts at a lucky address stays there. *)
LEMMA StartsLucky ==
    ASSUME Inv, N > 0, NEW q \in Queries, NEW g \in Lucky, ex[q].phase \in {"dial", "tls", "wait"},
           ex[q].left > 0, ex[q].start = g
    PROVE  ex[q].at \in Good
<1>1. ex[q] \in Exchanges
  BY DEF Inv, Types
<1>2. PICK t \in Nat : t = ex[q].tried
  BY <1>1 DEF Exchanges
<1>3. /\ ex[q].at = Candidate(g, t) /\ Candidate(g, 0) \in Good
      /\ \A i \in 0..(t - 1) : Candidate(g, i) \notin Good \/ ex[q].left = 0
  BY <1>2 DEF Inv, LoopOK, Lucky
<1>4. ex[q].left # 0
  BY <1>1 DEF Exchanges
<1>5. 0 \notin 0..(t - 1)
  BY <1>3, <1>4
<1>6. t = 0
  BY <1>5
<1> QED
  BY <1>3, <1>6

(* The sizes of these sets. *)
LEMMA Sizes ==
    ASSUME NEW R \in SUBSET Queries, NEW C \in SUBSET Queries, R \cap C = {}
    PROVE  /\ Cardinality(Queries) \in Nat \ {0}
           /\ IsFiniteSet(R) /\ IsFiniteSet(C)
           /\ Cardinality(R) \in Nat /\ Cardinality(C) \in Nat
           /\ Cardinality(R) + Cardinality(C) <= Cardinality(Queries)
           /\ \A q \in Queries : q \notin R => Cardinality(R) <= Cardinality(Queries) - 1
<1>1. IsFiniteSet(Queries) /\ Queries # {}
  BY EncryptedAssumption
<1>2. Cardinality(Queries) \in Nat \ {0}
  BY <1>1, FS_CardinalityType, FS_EmptySet
<1>5. IsFiniteSet(R) /\ IsFiniteSet(C) /\ Cardinality(R) \in Nat /\ Cardinality(C) \in Nat
  BY <1>1, FS_Subset, FS_CardinalityType
<1>6. Cardinality(R) + Cardinality(C) <= Cardinality(Queries)
  <2>1. Cardinality(R \cup C) = Cardinality(R) + Cardinality(C) - Cardinality(R \cap C)
    BY <1>5, FS_Union
  <2>2. Cardinality(R \cap C) = 0
    BY FS_EmptySet
  <2>3. Cardinality(R \cup C) <= Cardinality(Queries)
    BY <1>1, FS_Subset
  <2> QED
    BY <1>5, <2>1, <2>2, <2>3
<1>7. ASSUME NEW q \in Queries, q \notin R PROVE Cardinality(R) <= Cardinality(Queries) - 1
  <2>1. R \in SUBSET (Queries \ {q})
    BY <1>7
  <2>2. /\ IsFiniteSet(Queries \ {q})
        /\ Cardinality(Queries \ {q}) = Cardinality(Queries) - 1
    BY <1>1, FS_RemoveElement
  <2> QED
    BY <2>1, <2>2, FS_Subset
<1> QED
  BY <1>2, <1>5, <1>6, <1>7

LEMMA SetFacts ==
    ASSUME NEW g
    PROVE  Risky(g) \in SUBSET Queries /\ Committed(g) \in SUBSET Queries /\ Risky(g) \cap Committed(g) = {}
BY DEF Risky, Committed

LEMMA NextSetFacts ==
    ASSUME NEW g
    PROVE  /\ Risky(g)' \in SUBSET Queries /\ Committed(g)' \in SUBSET Queries
           /\ Risky(g)' \cap Committed(g)' = {}
BY DEF Risky, Committed

LEMMA Multiples ==
    ASSUME NEW a \in Nat, NEW b \in Nat, NEW m \in Nat, a <= b
    PROVE  a * m \in Nat /\ a * m <= b * m /\ (a + 1) * m = a * m + m
OBVIOUS

LEMMA UntilRange ==
    ASSUME N \in Nat \ {0}, ipCounter \in 0..(N - 1), NEW g \in 0..(N - 1)
    PROVE  Until(g) \in 0..(N - 1)
BY DEF Until

(* A step that lets no exchange fail. *)
LEMMA CountKept ==
    ASSUME NEW g \in 0..(N - 1), N \in Nat \ {0}, ipCounter \in 0..(N - 1), streak \in Nat,
           UNCHANGED <<setup, net, ipCounter, streak>>, Counted(g),
           Risky(g)' \subseteq Risky(g), Drawing => Drawing' /\ Committed(g) \subseteq Committed(g)',
           pool'.state # "none" => \E q \in Queries : q \notin Risky(g)'
    PROVE  Counted(g)'
<1>1. PICK R, C, R2, C2 : R = Risky(g) /\ C = Committed(g) /\ R2 = Risky(g)' /\ C2 = Committed(g)'
  OBVIOUS
<1>2. /\ R \in SUBSET Queries /\ C \in SUBSET Queries /\ R \cap C = {}
      /\ R2 \in SUBSET Queries /\ C2 \in SUBSET Queries /\ R2 \cap C2 = {}
  BY <1>1, SetFacts, NextSetFacts
<1>3. PICK n \in Nat \ {0}, m \in Nat, k \in Nat, d \in Nat :
        n = N /\ m = n - 1 /\ k = streak /\ d = Until(g) /\ d <= m
  <2>1. PICK n \in Nat \ {0} : n = N
    OBVIOUS
  <2>2. PICK d \in 0..(n - 1) : d = Until(g)
    BY <2>1, UntilRange
  <2>3. n - 1 \in Nat /\ d \in Nat /\ d <= n - 1
    OBVIOUS
  <2> QED
    BY <2>1, <2>2, <2>3
<1>4. PICK z \in Nat \ {0}, r \in Nat, c \in Nat, r2 \in Nat, c2 \in Nat :
        /\ z = Cardinality(Queries) /\ r = Cardinality(R) /\ c = Cardinality(C)
        /\ r2 = Cardinality(R2) /\ c2 = Cardinality(C2)
  BY <1>2, Sizes
<1>5. r2 <= r
  BY <1>1, <1>2, <1>4, Sizes, FS_Subset
<1>6. UNCHANGED N /\ Until(g)' = d
  <2>1. UNCHANGED N
    BY Fixed
  <2> QED
    BY <1>3, <2>1 DEF Until
<1>7. ASSUME Drawing' PROVE (k + r2) + d <= (c2 * m + m) + (z - 1)
  <2>1. CASE Drawing
    <3>1. (k + r) + d <= (c * m + m) + (z - 1)
      BY <1>1, <1>3, <1>4, <2>1 DEF Counted
    <3>2. c <= c2
      BY <1>1, <1>2, <1>4, <2>1, Sizes, FS_Subset
    <3>3. c * m \in Nat /\ c2 * m \in Nat /\ c * m <= c2 * m
      BY <3>2, Multiples
    <3> QED
      BY <1>5, <3>1, <3>3
  <2>2. CASE ~Drawing
    <3>1. k + r <= z - 1
      BY <1>1, <1>3, <1>4, <2>2 DEF Counted
    <3>2. c2 * m \in Nat
      BY Multiples
    <3> QED
      BY <1>3, <1>5, <3>1, <3>2
  <2> QED
    BY <2>1, <2>2
<1>8. ASSUME ~Drawing' PROVE k + r2 <= z - 1
  <2>1. k + r <= z - 1
    BY <1>1, <1>3, <1>4, <1>8 DEF Counted
  <2> QED
    BY <1>5, <2>1
<1>9. streak' <= Cardinality(Queries) * N' - 1
  BY <1>6 DEF Counted
<1> QED
  BY <1>1, <1>3, <1>4, <1>6, <1>7, <1>8, <1>9 DEF Counted

(* The outage ends. *)
LEMMA CountReset ==
    ASSUME NEW g \in 0..(N - 1), N \in Nat \ {0}, ipCounter \in 0..(N - 1),
           UNCHANGED <<setup, net, ipCounter>>, streak' = 0,
           \E q \in Queries : q \notin Risky(g)'
    PROVE  Counted(g)'
<1>1. PICK R2, C2 : R2 = Risky(g)' /\ C2 = Committed(g)'
  OBVIOUS
<1>2. R2 \in SUBSET Queries /\ C2 \in SUBSET Queries /\ R2 \cap C2 = {}
  BY <1>1, NextSetFacts
<1>3. PICK n \in Nat \ {0}, m \in Nat, d \in Nat : n = N /\ m = n - 1 /\ d = Until(g) /\ d <= m
  <2>1. PICK n \in Nat \ {0} : n = N
    OBVIOUS
  <2>2. PICK d \in 0..(n - 1) : d = Until(g)
    BY <2>1, UntilRange
  <2>3. n - 1 \in Nat /\ d \in Nat /\ d <= n - 1
    OBVIOUS
  <2> QED
    BY <2>1, <2>2, <2>3
<1>4. PICK z \in Nat \ {0}, r2 \in Nat, c2 \in Nat :
        z = Cardinality(Queries) /\ r2 = Cardinality(R2) /\ c2 = Cardinality(C2)
  BY <1>2, Sizes
<1>5. r2 <= z - 1
  BY <1>1, <1>2, <1>4, Sizes
<1>6. UNCHANGED N /\ Until(g)' = d
  <2>1. UNCHANGED N
    BY Fixed
  <2> QED
    BY <1>3, <2>1 DEF Until
<1>7. (0 + r2) + d <= (c2 * m + m) + (z - 1)
  <2>1. c2 * m \in Nat
    BY Multiples
  <2> QED
    BY <1>3, <1>5, <2>1
<1>8. 0 + r2 <= z - 1 /\ 0 <= z * n - 1
  <2>1. z * n >= 1
    OBVIOUS
  <2> QED
    BY <1>5, <2>1
<1> QED
  BY <1>1, <1>3, <1>4, <1>6, <1>7, <1>8 DEF Counted

(* A risky exchange fails: so not all are committed. *)
LEMMA CountFail ==
    ASSUME NEW g \in 0..(N - 1), N \in Nat \ {0}, ipCounter \in 0..(N - 1), streak \in Nat,
           UNCHANGED <<setup, net, ipCounter, pool>>, Counted(g), streak' \in {streak, streak + 1},
           NEW q \in Risky(g), Risky(g)' = Risky(g) \ {q}, Committed(g)' = Committed(g),
           Drawing' <=> Drawing
    PROVE  Counted(g)'
<1>1. PICK R, C : R = Risky(g) /\ C = Committed(g)
  OBVIOUS
<1>2. R \in SUBSET Queries /\ C \in SUBSET Queries /\ R \cap C = {}
  BY <1>1, SetFacts
<1>3. PICK n \in Nat \ {0}, m \in Nat, k \in Nat, k2 \in Nat, d \in Nat :
        /\ n = N /\ m = n - 1 /\ k = streak /\ k2 = streak' /\ d = Until(g) /\ d <= m
        /\ k2 <= k + 1
  <2>1. PICK n \in Nat \ {0} : n = N
    OBVIOUS
  <2>2. PICK d \in 0..(n - 1) : d = Until(g)
    BY <2>1, UntilRange
  <2>3. n - 1 \in Nat /\ d \in Nat /\ d <= n - 1
    OBVIOUS
  <2>4. streak' \in Nat /\ streak' <= streak + 1
    OBVIOUS
  <2> QED
    BY <2>1, <2>2, <2>3, <2>4
<1>4. PICK z \in Nat \ {0}, r \in Nat, c \in Nat :
        /\ z = Cardinality(Queries) /\ r = Cardinality(R) /\ c = Cardinality(C) /\ r + c <= z
  BY <1>2, Sizes
<1>5. Cardinality(R \ {q}) = r - 1 /\ r >= 1
  <2>1. IsFiniteSet(R) /\ q \in R
    BY <1>1, <1>2, Sizes
  <2>2. Cardinality(R \ {q}) = r - 1
    BY <1>4, <2>1, FS_RemoveElement
  <2>3. r # 0
    BY <1>4, <2>1, FS_EmptySet
  <2> QED
    BY <2>2, <2>3
<1>6. UNCHANGED N /\ Until(g)' = d
  <2>1. UNCHANGED N
    BY Fixed
  <2> QED
    BY <1>3, <2>1 DEF Until
<1>7. /\ Drawing => (k + r) + d <= (c * m + m) + (z - 1)
      /\ ~Drawing => k + r <= z - 1
  BY <1>1, <1>3, <1>4 DEF Counted
<1>8. c * m \in Nat
  BY Multiples
<1>9. /\ Drawing => (k2 + (r - 1)) + d <= (c * m + m) + (z - 1)
      /\ ~Drawing => k2 + (r - 1) <= z - 1
  <2>1. k2 + (r - 1) <= k + r
    <3>1. k2 <= k + 1
      BY <1>3
    <3> QED
      BY <3>1
  <2>2. CASE Drawing
    BY <1>7, <1>8, <2>1, <2>2
  <2>3. CASE ~Drawing
    BY <1>7, <2>1, <2>3
  <2> QED
    BY <2>2, <2>3
<1>10. k2 <= z * n - 1
  <2>1. c + 1 <= z
    BY <1>4, <1>5
  <2>2. c * m + m <= z * m /\ z * m \in Nat /\ z * n = z * m + z
    <3>1. (c + 1) * m = c * m + m /\ (c + 1) * m <= z * m /\ z * m \in Nat
      BY <2>1, Multiples
    <3>2. z * n = z * m + z
      <4>1. n = m + 1
        BY <1>3
      <4>2. z * (m + 1) = z * m + z
        OBVIOUS
      <4> QED
        BY <4>1, <4>2
    <3> QED
      BY <3>1, <3>2
  <2>3. k2 <= k + r
    BY <1>3, <1>5
  <2>4. k + r <= z * m + (z - 1)
    BY <1>7, <1>8, <2>2
  <2> QED
    BY <2>2, <2>3, <2>4
<1>11. pool'.state # "none" => \E p \in Queries : p \notin Risky(g)'
  BY DEF Counted
<1> QED
  BY <1>1, <1>3, <1>4, <1>5, <1>6, <1>9, <1>10, <1>11 DEF Counted

(* An exchange starts at g. *)
LEMMA CountLuckyDraw ==
    ASSUME NEW g \in 0..(N - 1), N \in Nat \ {0}, ipCounter \in 0..(N - 1), streak \in Nat,
           UNCHANGED <<setup, net, streak, pool>>, Counted(g), pool.state = "none",
           ipCounter' = g, Until(g) = 0, NEW q \in Queries, q \notin Committed(g),
           Risky(g)' = Risky(g), Committed(g)' = Committed(g) \cup {q}
    PROVE  Counted(g)'
<1>1. PICK R, C : R = Risky(g) /\ C = Committed(g)
  OBVIOUS
<1>2. R \in SUBSET Queries /\ C \in SUBSET Queries /\ R \cap C = {}
  BY <1>1, SetFacts
<1>3. PICK n \in Nat \ {0}, m \in Nat, k \in Nat : n = N /\ m = n - 1 /\ k = streak
  <2>1. N - 1 \in Nat
    OBVIOUS
  <2> QED
    BY <2>1
<1>4. PICK z \in Nat \ {0}, r \in Nat, c \in Nat :
        /\ z = Cardinality(Queries) /\ r = Cardinality(R) /\ c = Cardinality(C)
  BY <1>2, Sizes
<1>5. Cardinality(C \cup {q}) = c + 1
  BY <1>1, <1>2, <1>4, Sizes, FS_AddElement
<1>6. UNCHANGED N /\ Until(g)' = m
  <2>1. UNCHANGED N
    BY Fixed
  <2>2. Until(g)' = ((g - g) - 1) + N
    BY <2>1 DEF Until
  <2> QED
    BY <1>3, <2>1, <2>2
<1>7. Drawing /\ Drawing'
  BY DEF Drawing
<1>8. (k + r) + 0 <= (c * m + m) + (z - 1)
  BY <1>1, <1>3, <1>4, <1>7 DEF Counted
<1>9. (k + r) + m <= ((c + 1) * m + m) + (z - 1)
  <2>1. c * m \in Nat /\ (c + 1) * m = c * m + m
    BY Multiples
  <2> QED
    BY <1>8, <2>1
<1>10. streak' <= Cardinality(Queries) * N' - 1
  BY <1>6 DEF Counted
<1> QED
  BY <1>1, <1>3, <1>4, <1>5, <1>6, <1>7, <1>9, <1>10 DEF Counted

(* An exchange starts elsewhere. *)
LEMMA CountRiskyDraw ==
    ASSUME NEW g \in 0..(N - 1), N \in Nat \ {0}, ipCounter \in 0..(N - 1), streak \in Nat,
           UNCHANGED <<setup, net, streak, pool>>, Counted(g), pool.state = "none",
           Until(g)' = Until(g) - 1, NEW q \in Queries, q \notin Risky(g),
           Risky(g)' = Risky(g) \cup {q}, Committed(g)' = Committed(g)
    PROVE  Counted(g)'
<1>1. PICK R, C : R = Risky(g) /\ C = Committed(g)
  OBVIOUS
<1>2. R \in SUBSET Queries /\ C \in SUBSET Queries /\ R \cap C = {}
  BY <1>1, SetFacts
<1>3. PICK n \in Nat \ {0}, m \in Nat, k \in Nat : n = N /\ m = n - 1 /\ k = streak
  <2>1. N - 1 \in Nat
    OBVIOUS
  <2> QED
    BY <2>1
<1>4. PICK z \in Nat \ {0}, r \in Nat, c \in Nat :
        /\ z = Cardinality(Queries) /\ r = Cardinality(R) /\ c = Cardinality(C)
  BY <1>2, Sizes
<1>5. Cardinality(R \cup {q}) = r + 1
  BY <1>1, <1>2, <1>4, Sizes, FS_AddElement
<1>6. PICK d \in Int : d = Until(g)
  BY UntilRange
<1>7. UNCHANGED N /\ Drawing /\ Drawing'
  BY Fixed DEF Drawing
<1>8. (k + r) + d <= (c * m + m) + (z - 1)
  BY <1>1, <1>3, <1>4, <1>6, <1>7 DEF Counted
<1>9. (k + (r + 1)) + (d - 1) <= (c * m + m) + (z - 1)
  <2>1. c * m \in Nat
    BY Multiples
  <2> QED
    BY <1>8, <2>1
<1>10. streak' <= Cardinality(Queries) * N' - 1
  BY <1>7 DEF Counted
<1> QED
  BY <1>1, <1>3, <1>4, <1>5, <1>6, <1>7, <1>9, <1>10 DEF Counted

-----------------------------------------------------------------------------
LEMMA SmoothFrame == ASSUME NEW q, Smooth(q), UNCHANGED <<net, pool, ex[q]>> PROVE Smooth(q)'
BY DEF Smooth

LEMMA PhaseFacts ==
    ASSUME Inv, NEW q \in Queries, NEW p, Phase(q, p)
    PROVE  /\ ex'[q].phase = p /\ ex'[q].start = ex[q].start /\ ex'[q].left = ex[q].left
           /\ ex'[q].at = ex[q].at
           /\ \A o \in Queries : o # q => ex'[o] = ex[o]
           /\ UNCHANGED <<setup, net, ipCounter>>
BY DEF Phase, Inv, Types, Exchanges

LEMMA DrawCore == ASSUME Inv, Outage, Reacts, NEW q \in Queries, Draw(q) PROVE Core'
<1>1. /\ UNCHANGED <<setup, net, pool, streak>> /\ Ready(q) /\ Core /\ streak \in Nat
      /\ pool = NoConn /\ pool.state = "none"
  <2>1. NoConn.state = "none"
    BY DEF NoConn
  <2>2. pool = NoConn
    BY DEF Draw, Inv, NoPool
  <2> QED
    BY <2>1, <2>2 DEF Draw, Outage
<1>2. /\ N \in Nat \ {0} /\ ipCounter \in 0..(N - 1) /\ Lucky \subseteq 0..(N - 1)
      /\ UNCHANGED <<N, Good, Lucky, DoH>>
  BY <1>1, LuckyFacts, OutageFixed DEF Inv, Types, Core
<1>3. PICK n \in Nat \ {0} : n = N
  BY <1>2
<1>4. PICK idx \in 0..(n - 1) : /\ idx = (ipCounter + 1) % n
                                /\ idx = IF ipCounter + 1 < n THEN ipCounter + 1 ELSE 0
  <2>1. PICK x \in 0..(2 * n - 1) : x = ipCounter + 1 /\ x <= n
    BY <1>2, <1>3
  <2>2. x % n = IF x < n THEN x ELSE x - n
    BY ModWrap
  <2> QED
    BY <2>1, <2>2
<1>5. /\ ipCounter' = idx
      /\ ex'[q].phase = "dial" /\ ex'[q].start = idx /\ ex'[q].left = Timeout
      /\ \A o \in Queries : o # q => ex'[o] = ex[o]
  BY <1>3, <1>4 DEF Draw, Inv, Types
<1>6. \A o \in Queries : Smooth(o)'
  <2>1. Smooth(q)'
    BY <1>5 DEF Smooth, Reacts
  <2> QED
    BY <1>1, <1>5, <2>1, SmoothFrame DEF Core
<1>7. ASSUME DoH, NEW g \in Lucky PROVE Counted(g)'
  <2>1. Counted(g) /\ g \in 0..(N - 1) /\ q \notin Risky(g) /\ q \notin Committed(g)
    BY <1>1, <1>2, <1>7 DEF Core, Ready, Risky, Committed
  <2>2. CASE idx = g
    <3>1. Until(g) = 0 /\ ipCounter' = g
      BY <1>2, <1>3, <1>4, <1>5, <2>1, <2>2 DEF Until
    <3>2. Risky(g)' = Risky(g) /\ Committed(g)' = Committed(g) \cup {q}
      BY <1>1, <1>5, <2>1, <2>2 DEF Risky, Committed
    <3> QED
      BY <1>1, <1>2, <2>1, <3>1, <3>2, CountLuckyDraw
  <2>3. CASE idx # g
    <3>1. Until(g)' = Until(g) - 1
      <4>1. UNCHANGED N
        BY <1>2
      <4> QED
        BY <1>2, <1>3, <1>4, <1>5, <2>1, <2>3, <4>1 DEF Until
    <3>2. Risky(g)' = Risky(g) \cup {q} /\ Committed(g)' = Committed(g)
      BY <1>1, <1>5, <2>1, <2>3 DEF Risky, Committed
    <3> QED
      BY <1>1, <1>2, <2>1, <3>1, <3>2, CountRiskyDraw
  <2> QED
    BY <2>2, <2>3
<1>8. /\ ipCounter' \in 0..(N' - 1)
      /\ pool'.state # "live"
      /\ ~DoH => streak' = 0
  BY <1>1, <1>2, <1>3, <1>5 DEF Core
<1> QED
  BY <1>2, <1>6, <1>7, <1>8 DEF Core

(* A step that lets no exchange fail. *)
LEMMA KeptCore ==
    ASSUME Inv, Outage, Reacts, UNCHANGED <<setup, net, ipCounter, streak>>,
           pool'.state = "live" => pool'.at \in Good, \A q \in Queries : Smooth(q)',
           DoH => \A g \in Lucky :
               /\ Risky(g)' \subseteq Risky(g)
               /\ Drawing => Drawing' /\ Committed(g) \subseteq Committed(g)'
               /\ pool'.state # "none" => \E q \in Queries : q \notin Risky(g)'
    PROVE  Core'
<1>1. /\ N \in Nat \ {0} /\ ipCounter \in 0..(N - 1) /\ Lucky \subseteq 0..(N - 1)
      /\ UNCHANGED <<N, Good, Lucky, DoH>> /\ Core /\ streak \in Nat
  BY LuckyFacts, OutageFixed DEF Inv, Types, Core, Outage
<1>2. ASSUME DoH, NEW g \in Lucky PROVE Counted(g)'
  BY <1>1, <1>2, CountKept DEF Core
<1> QED
  BY <1>1, <1>2 DEF Core

(* The pool and the phases that count stay as they are. *)
LEMMA QuietCore ==
    ASSUME Inv, Outage, Reacts, UNCHANGED <<setup, net, ipCounter, streak, pool>>,
           \A q \in Queries :
               /\ Smooth(q)'
               /\ ex'[q].phase \in {"dial", "tls"} =>
                     ex[q].phase \in {"dial", "tls"} /\ ex'[q].start = ex[q].start
               /\ ex[q].phase \in {"dial", "tls", "wait"} =>
                     ex'[q].phase \in {"dial", "tls", "wait"} /\ ex'[q].start = ex[q].start
               /\ ex[q].phase = "pooled" /\ pool.state = "live" => ex'[q].phase = "pooled"
    PROVE  Core'
<1>1. pool'.state = "live" => pool'.at \in Good
  BY DEF Outage, Core
<1>2. \A g : Risky(g)' \subseteq Risky(g)
  BY DEF Risky
<1>3. \A g : Committed(g) \subseteq Committed(g)'
  BY DEF Committed
<1>4. Drawing => Drawing'
  BY DEF Drawing
<1>5. DoH => \A g \in Lucky : pool'.state # "none" => \E q \in Queries : q \notin Risky(g)'
  BY <1>2 DEF Outage, Core, Counted
<1> QED
  BY <1>1, <1>2, <1>3, <1>4, <1>5, KeptCore

LEMMA ReuseCore == ASSUME Inv, Outage, Reacts, NEW q \in Queries, Reuse(q) PROVE Core'
<1>1. /\ UNCHANGED <<setup, net, ipCounter, pool, streak>> /\ DoH /\ Core
      /\ Ready(q) \/ ex[q].phase \in {"dial", "tls"}
      /\ pool.state \in {"live", "dead"}
  BY DEF Reuse, Outage, Inv, Types, Pools
<1>2. /\ ex'[q].phase = "pooled" /\ ex'[q].at = pool.at
      /\ ex'[q].left = IF Ready(q) THEN Timeout ELSE ex[q].left
      /\ \A o \in Queries : o # q => ex'[o] = ex[o]
  BY DEF Reuse, Inv, Types
<1>3. \A o \in Queries : Smooth(o)'
  <2>1. Smooth(q)'
    <3>1. ex'[q].left > 0
      BY <1>1, <1>2 DEF Core, Smooth, Reacts
    <3> QED
      BY <1>1, <1>2, <3>1 DEF Smooth
  <2> QED
    BY <1>1, <1>2, <2>1, SmoothFrame DEF Core
<1>4. ASSUME NEW g \in Lucky
      PROVE  /\ Risky(g)' \subseteq Risky(g)
             /\ Drawing => Drawing' /\ Committed(g) \subseteq Committed(g)'
             /\ \E o \in Queries : o \notin Risky(g)'
  <2>1. Risky(g)' \subseteq Risky(g) /\ q \notin Risky(g)'
    BY <1>2 DEF Risky
  <2>2. Drawing => pool.state = "live" /\ Drawing'
    BY <1>1, <1>2 DEF Drawing
  <2>3. pool.state = "live" => Committed(g) \subseteq Committed(g)'
    BY <1>1, <1>2 DEF Committed
  <2> QED
    BY <2>1, <2>2, <2>3
<1>5. pool'.state = "live" => pool'.at \in Good
  BY <1>1 DEF Core
<1> QED
  BY <1>1, <1>3, <1>4, <1>5, KeptCore

LEMMA AtKnown ==
    ASSUME Inv, Reacts, NEW q \in Queries, ex[q].phase \in {"dial", "tls", "wait"}
    PROVE  ex[q].at \in Known
<1>1. N > 0 /\ setup \in Setups /\ ex[q] \in Exchanges
  BY LuckyFacts DEF Inv, Types
<1>2. ex[q].start \in Nat /\ ex[q].tried \in Nat /\ ex[q].at = Candidate(ex[q].start, ex[q].tried)
  BY <1>1 DEF Inv, LoopOK, Exchanges
<1> QED
  BY <1>1, <1>2, CandidateKnown

LEMMA ConnectedCore == ASSUME Inv, Outage, Reacts, NEW q \in Queries, Connected(q) PROVE Core'
<1>1. /\ UNCHANGED <<setup, net, ipCounter, pool, streak>> /\ Core /\ ex[q].phase = "dial"
      /\ ex[q].left > 0 /\ net[ex[q].at] \in {"answers", "errs", "stalls"}
      /\ ex'[q].phase = "tls" /\ ex'[q].start = ex[q].start /\ ex'[q].left = ex[q].left
      /\ ex'[q].at = ex[q].at /\ \A o \in Queries : o # q => ex'[o] = ex[o]
  BY PhaseFacts DEF Connected, Outage
<1>2. ex[q].at \in Known
  BY <1>1, AtKnown
<1>3. net[ex[q].at] = "answers"
  BY <1>1, <1>2 DEF Reacts
<1>4. \A o \in Queries : Smooth(o)'
  <2>1. Smooth(q)'
    BY <1>1, <1>3 DEF Smooth
  <2> QED
    BY <1>1, <2>1, SmoothFrame DEF Core
<1> QED
  BY <1>1, <1>4, QuietCore

(* The loop goes on: an address that answers is still to come. *)
LEMMA NextAddressCore ==
    ASSUME Inv, Outage, Reacts, NEW q \in Queries, NextAddress(q), ex[q].phase \in {"dial", "tls"},
           ex[q].at \notin Good
    PROVE  Core'
<1>1. N \in Nat \ {0} /\ Core /\ ex \in [Queries -> Exchanges] /\ ex[q] \in Exchanges
  BY LuckyFacts DEF Inv, Types, Outage
<1>2. ex[q].left > 0 /\ ex[q].left # 0 /\ Good # {}
  BY <1>1 DEF Core, Smooth, Reacts, Exchanges
<1>3. ex[q].tried + 1 # N
  BY <1>1, <1>2, LoopFacts
<1>4. PICK t, a : /\ ex' = [ex EXCEPT ![q].phase = "dial", ![q].tried = t, ![q].at = a]
                  /\ UNCHANGED <<setup, net, ipCounter, pool, streak>>
  BY <1>3 DEF NextAddress
<1>5. /\ ex'[q].phase = "dial" /\ ex'[q].start = ex[q].start /\ ex'[q].left = ex[q].left
      /\ \A o \in Queries : o # q => ex'[o] = ex[o]
  <2>1. PICK f : f = [ex EXCEPT ![q].phase = "dial"]
    OBVIOUS
  <2>2. PICK h : h = [f EXCEPT ![q].tried = t]
    OBVIOUS
  <2>3. ex' = [h EXCEPT ![q].at = a]
    BY <1>4, <2>1, <2>2
  <2>4. /\ f[q].phase = "dial" /\ f[q].start = ex[q].start /\ f[q].left = ex[q].left
        /\ DOMAIN f = Queries /\ DOMAIN f[q] = {"phase", "start", "tried", "left", "at"}
        /\ \A o \in Queries : o # q => f[o] = ex[o]
    BY <1>1, <2>1 DEF Exchanges
  <2>5. /\ h[q].phase = "dial" /\ h[q].start = ex[q].start /\ h[q].left = ex[q].left
        /\ DOMAIN h = Queries /\ DOMAIN h[q] = {"phase", "start", "tried", "left", "at"}
        /\ \A o \in Queries : o # q => h[o] = ex[o]
    BY <2>2, <2>4
  <2> QED
    BY <2>3, <2>5
<1>6. \A o \in Queries : Smooth(o)'
  <2>1. Smooth(q)'
    BY <1>2, <1>5 DEF Smooth
  <2> QED
    BY <1>1, <1>4, <1>5, <2>1, SmoothFrame DEF Core
<1> QED
  BY <1>4, <1>5, <1>6, QuietCore

LEMMA DialFailsCore == ASSUME Inv, Outage, Reacts, NEW q \in Queries, DialFails(q) PROVE Core'
<1>1. N \in Nat \ {0} /\ Core /\ ex[q].phase = "dial" /\ ex[q] \in Exchanges
  BY LuckyFacts DEF Inv, Types, Outage, DialFails
<1>2. ex[q].left # 0
  BY <1>1 DEF Core, Smooth, Exchanges
<1>3. ex[q].at \notin Good /\ NextAddress(q)
  BY <1>1, <1>2 DEF DialFails, Good
<1> QED
  BY <1>1, <1>3, NextAddressCore

LEMMA SecuredCore == ASSUME Inv, Outage, Reacts, NEW q \in Queries, Secured(q) PROVE Core'
<1>1. Core /\ ex[q].phase = "tls" /\ ex[q].left > 0 /\ ex[q].at \in Own /\ UNCHANGED streak
  BY DEF Secured, Outage
<1>2. ex[q].at \in Good /\ net[ex[q].at] = "answers"
  BY <1>1, AtKnown DEF Core, Smooth, Good
<1>3. CASE DoH /\ pool = NoConn
  <2>1. Phase(q, "pooled") /\ pool' = [state |-> "live", at |-> ex[q].at] /\ pool.state = "none"
    BY <1>3 DEF Secured, NoConn
  <2>2. /\ ex'[q].phase = "pooled" /\ ex'[q].start = ex[q].start /\ ex'[q].left = ex[q].left
        /\ ex'[q].at = ex[q].at /\ (\A o \in Queries : o # q => ex'[o] = ex[o])
        /\ UNCHANGED <<setup, net, ipCounter>>
    BY <2>1, PhaseFacts
  <2>3. \A o \in Queries : Smooth(o)'
    BY <1>1, <2>1, <2>2 DEF Core, Smooth
  <2>4. ASSUME NEW g \in Lucky
        PROVE  /\ Risky(g)' \subseteq Risky(g)
               /\ Drawing' /\ Committed(g) \subseteq Committed(g)'
               /\ q \notin Risky(g)'
    <3>1. Risky(g)' \subseteq Risky(g) /\ q \notin Risky(g)'
      BY <2>2 DEF Risky
    <3>2. Drawing'
      BY <2>1, <2>2 DEF Drawing
    <3>3. Committed(g) \subseteq Committed(g)'
      BY <2>1, <2>2 DEF Committed
    <3> QED
      BY <3>1, <3>2, <3>3
  <2> QED
    BY <1>1, <1>2, <2>1, <2>2, <2>3, <2>4, KeptCore
<1>4. CASE ~(DoH /\ pool = NoConn)
  <2>1. Phase(q, "wait") /\ UNCHANGED pool
    BY <1>4 DEF Secured
  <2>2. /\ ex'[q].phase = "wait" /\ ex'[q].start = ex[q].start /\ ex'[q].left = ex[q].left
        /\ ex'[q].at = ex[q].at /\ (\A o \in Queries : o # q => ex'[o] = ex[o])
        /\ UNCHANGED <<setup, net, ipCounter>>
    BY <2>1, PhaseFacts
  <2>3. \A o \in Queries : Smooth(o)'
    <3>1. Smooth(q)'
      BY <1>1, <1>2, <2>2 DEF Smooth
    <3> QED
      BY <1>1, <2>1, <2>2, <3>1, SmoothFrame DEF Core
  <2> QED
    BY <1>1, <2>1, <2>2, <2>3, QuietCore
<1> QED
  BY <1>3, <1>4

LEMMA HandshakeFailsCore ==
    ASSUME Inv, Outage, Reacts, NEW q \in Queries, HandshakeFails(q)
    PROVE  Core'
<1>1. N \in Nat \ {0} /\ Core /\ ex[q].phase = "tls" /\ ex[q] \in Exchanges /\ streak \in Nat
  BY LuckyFacts DEF Inv, Types, Outage, HandshakeFails
<1>2. ex[q].left > 0 /\ ex[q].left # 0
  BY <1>1 DEF Core, Smooth, Exchanges
<1>3. ex[q].at \notin Own /\ ex[q].at \notin Good
  BY <1>2 DEF HandshakeFails, Good
<1>4. CASE ~DoH
  BY <1>1, <1>3, <1>4, NextAddressCore DEF HandshakeFails
<1>5. CASE DoH
  <2>1. Phase(q, "err") /\ UNCHANGED pool /\ streak' \in {streak, streak + 1}
    BY <1>5 DEF HandshakeFails, Fail
  <2>2. /\ ex'[q].phase = "err" /\ (\A o \in Queries : o # q => ex'[o] = ex[o])
        /\ UNCHANGED <<setup, net, ipCounter>>
    BY <2>1, PhaseFacts
  <2>3. \A o \in Queries : Smooth(o)'
    <3>1. Smooth(q)'
      BY <2>2 DEF Smooth
    <3> QED
      BY <1>1, <2>1, <2>2, <3>1, SmoothFrame DEF Core
  <2>4. UNCHANGED <<N, Good, Lucky, DoH>> /\ Lucky \subseteq 0..(N - 1)
    BY <2>2, OutageFixed, LuckyFacts DEF Inv, Types
  <2>5. Drawing' <=> Drawing
    BY <1>1, <2>1, <2>2 DEF Drawing
  <2>6. ASSUME NEW g \in Lucky PROVE Counted(g)'
    <3>1. ex[q].start # g
      BY <1>1, <1>2, <1>3, StartsLucky
    <3>2. q \in Risky(g) /\ Risky(g)' = Risky(g) \ {q}
      BY <1>1, <2>2, <3>1 DEF Risky
    <3>3. Committed(g)' = Committed(g)
      BY <1>1, <2>1, <2>2, <3>1 DEF Committed
    <3>4. Counted(g) /\ g \in 0..(N - 1) /\ ipCounter \in 0..(N - 1)
      BY <1>1, <1>5, <2>4 DEF Core
    <3> QED
      BY <1>1, <2>1, <2>2, <2>5, <3>2, <3>3, <3>4, CountFail
  <2> QED
    BY <1>1, <1>5, <2>1, <2>2, <2>3, <2>4, <2>6 DEF Core
<1> QED
  BY <1>4, <1>5

LEMMA ReplyCore == ASSUME Inv, Outage, Reacts, NEW q \in Queries, Reply(q) PROVE Core'
<1>1. Phase(q, "ok") /\ UNCHANGED pool /\ streak' = 0 /\ Core
  BY DEF Reply, Outage
<1>2. /\ ex'[q].phase = "ok" /\ (\A o \in Queries : o # q => ex'[o] = ex[o])
      /\ UNCHANGED <<setup, net, ipCounter>>
  BY <1>1, PhaseFacts
<1>3. \A o \in Queries : Smooth(o)'
  <2>1. Smooth(q)'
    BY <1>2 DEF Smooth
  <2> QED
    BY <1>1, <1>2, <2>1, SmoothFrame DEF Core
<1>4. /\ UNCHANGED <<N, Good, Lucky, DoH>> /\ Lucky \subseteq 0..(N - 1) /\ N \in Nat \ {0}
      /\ ipCounter \in 0..(N - 1)
  BY <1>1, <1>2, OutageFixed, LuckyFacts DEF Inv, Types, Core
<1>5. ASSUME NEW g \in Lucky PROVE Counted(g)'
  <2>1. q \notin Risky(g)' /\ g \in 0..(N - 1)
    BY <1>2, <1>4 DEF Risky
  <2> QED
    BY <1>1, <1>2, <1>4, <2>1, CountReset
<1> QED
  BY <1>1, <1>2, <1>3, <1>4, <1>5 DEF Core

(* Only on a connection that is dead an exchange gets no reply. *)
LEMMA ReplyFailsCore == ASSUME Inv, Outage, Reacts, NEW q \in Queries, ReplyFails(q) PROVE Core'
<1>1. Core /\ Smooth(q) /\ ex[q].phase \in {"wait", "pooled"} /\ ex[q] \in Exchanges
  BY DEF ReplyFails, Outage, Core, Inv, Types
<1>2. ex[q].phase = "pooled" /\ pool.state # "live" /\ DoH
  <2>1. ~(net[ex[q].at] = "answers" /\ ex[q].left > 0)
    BY <1>1 DEF ReplyFails, Exchanges
  <2>2. ex[q].phase = "pooled"
    BY <1>1, <2>1 DEF Smooth
  <2>3. pool.state # "live"
    BY <1>1, <2>1, <2>2 DEF Smooth, Core, Good
  <2> QED
    BY <2>2, <2>3 DEF Inv, NoPool
<1>3. Phase(q, "err") /\ UNCHANGED <<pool, streak>>
  BY <1>2 DEF ReplyFails, Fail
<1>4. /\ ex'[q].phase = "err" /\ (\A o \in Queries : o # q => ex'[o] = ex[o])
      /\ UNCHANGED <<setup, net, ipCounter>>
  BY <1>3, PhaseFacts
<1>5. \A o \in Queries : Smooth(o)'
  <2>1. Smooth(q)'
    BY <1>4 DEF Smooth
  <2> QED
    BY <1>1, <1>3, <1>4, <2>1, SmoothFrame DEF Core
<1> QED
  BY <1>2, <1>3, <1>4, <1>5, QuietCore

LEMMA ConnDiesCore == ASSUME Inv, Outage, Reacts, ConnDies PROVE Core'
<1>1. /\ Core /\ pool.state = "live" /\ streak' = 0 /\ UNCHANGED <<setup, net, ipCounter, ex>>
      /\ pool'.state = "dead"
  BY DEF ConnDies, Outage, Inv, Types, Pools
<1>2. \A o \in Queries : Smooth(o)'
  BY <1>1 DEF Core, Smooth
<1>3. /\ UNCHANGED <<N, Good, Lucky, DoH>> /\ Lucky \subseteq 0..(N - 1) /\ N \in Nat \ {0}
      /\ ipCounter \in 0..(N - 1)
  BY <1>1, OutageFixed, LuckyFacts DEF Inv, Types, Core
<1>4. ASSUME DoH, NEW g \in Lucky PROVE Counted(g)'
  <2>1. PICK q \in Queries : q \notin Risky(g)
    BY <1>1, <1>4 DEF Core, Counted
  <2>2. q \notin Risky(g)' /\ g \in 0..(N - 1)
    BY <1>1, <1>3, <2>1 DEF Risky
  <2> QED
    BY <1>1, <1>3, <2>2, CountReset
<1> QED
  BY <1>1, <1>2, <1>3, <1>4 DEF Core

LEMMA ConnClosesCore == ASSUME Inv, Outage, Reacts, ConnCloses PROVE Core'
<1>1. /\ Core /\ pool.state # "none" /\ UNCHANGED <<setup, net, ipCounter, streak>>
      /\ pool.state = "live" => \A q \in Queries : ex[q].phase # "pooled"
      /\ pool' = NoConn
  BY DEF ConnCloses, Outage
<1>2. pool'.state = "none" /\ ~Drawing
  BY <1>1 DEF NoConn, Drawing
<1>3. ASSUME NEW q \in Queries
      PROVE  ex'[q].phase # "pooled" /\ (ex'[q] = ex[q] \/ ex'[q].phase = "err")
  <2>1. ex[q] \in Exchanges
    BY DEF Inv, Types
  <2>2. CASE ex[q].phase = "pooled"
    <3>1. ex'[q] = [ex[q] EXCEPT !.phase = "err"]
      BY <2>2 DEF ConnCloses
    <3>2. ex'[q].phase = "err"
      BY <2>1, <3>1 DEF Exchanges
    <3> QED
      BY <3>2
  <2>3. CASE ex[q].phase # "pooled"
    BY <2>3 DEF ConnCloses
  <2> QED
    BY <2>2, <2>3
<1>4. \A q \in Queries : Smooth(q)'
  BY <1>1, <1>3 DEF Core, Smooth
<1>5. \A g \in Lucky : Risky(g)' \subseteq Risky(g)
  BY <1>3 DEF Risky
<1> QED
  BY <1>1, <1>2, <1>4, <1>5, KeptCore

(* Time passes only for what waits on a dead connection. *)
LEMMA TickCore == ASSUME Inv, Outage, Reacts, Tick PROVE Core'
<1>1. Core /\ UNCHANGED <<setup, net, ipCounter, pool, streak>>
  BY DEF Tick, Outage
<1>2. ASSUME NEW q \in Queries, ~Ready(q) PROVE ex[q].phase = "pooled" /\ pool.state # "live"
  <2>1. Waits(q) /\ Smooth(q) /\ pool \in Pools
    BY <1>1 DEF Tick, Core, Inv, Types
  <2>2. ex[q].phase # "resolve"
    BY LuckyFacts DEF Inv, Types, ResolveOK
  <2>3. ex[q].phase # "dial"
    BY <1>2, <2>1, AtKnown DEF Waits, Reacts
  <2>4. ex[q].phase \notin {"tls", "wait"}
    BY <1>2, <2>1 DEF Waits, Smooth
  <2>5. ex[q].phase = "pooled"
    BY <1>2, <2>1, <2>2, <2>3, <2>4 DEF Waits
  <2>6. pool.state # "live"
    <3> SUFFICES ASSUME pool.state = "live" PROVE FALSE
      OBVIOUS
    <3>1. ex[q].at = pool.at /\ net[ex[q].at] = "answers"
      BY <1>1, <2>1, <2>5 DEF Core, Smooth, Good
    <3>2. pool = [state |-> "live", at |-> ex[q].at]
      BY <2>1, <3>1 DEF Pools
    <3>3. Alive(q)
      BY <3>2 DEF Alive
    <3> QED
      BY <1>2, <2>1, <2>5, <3>1, <3>3 DEF Waits
  <2> QED
    BY <2>5, <2>6
<1>3. ASSUME NEW q \in Queries
      PROVE  /\ ex'[q].phase = ex[q].phase /\ ex'[q].start = ex[q].start
             /\ ex'[q] = ex[q] \/ (ex[q].phase = "pooled" /\ pool.state # "live")
  <2>1. ex[q] \in Exchanges
    BY DEF Inv, Types
  <2>2. CASE Ready(q)
    BY <2>2 DEF Tick
  <2>3. CASE ~Ready(q)
    <3>1. ex'[q] = [ex[q] EXCEPT !.left = @ - 1]
      BY <2>3 DEF Tick
    <3> QED
      BY <1>2, <2>1, <2>3, <3>1 DEF Exchanges
  <2> QED
    BY <2>2, <2>3
<1>4. \A q \in Queries : Smooth(q)'
  BY <1>1, <1>3 DEF Core, Smooth
<1> QED
  BY <1>1, <1>3, <1>4, QuietCore

LEMMA OutageInit == Init => Outage
<1> SUFFICES ASSUME Init PROVE Outage
  OBVIOUS
<1>1. streak = 0 /\ ipCounter = 0 /\ pool = NoConn /\ pool.state = "none" /\ setup \in Setups
  BY DEF Init, NoConn
<1>2. \A q \in Queries : ex[q].phase = "idle"
  BY DEF Init, Quiet
<1>3. ASSUME Reacts PROVE Core
  <2>1. PICK n \in Nat \ {0} : n = N
    BY <1>1, <1>3, LuckyFacts
  <2>2. Lucky \subseteq 0..(N - 1) /\ ipCounter \in 0..(N - 1)
    BY <1>1, <1>3, <2>1, LuckyFacts
  <2>3. \A q \in Queries : Smooth(q)
    BY <1>2 DEF Smooth
  <2>4. ASSUME NEW g \in Lucky PROVE Counted(g)
    <3>1. Risky(g) = {} /\ Committed(g) = {} /\ Drawing
      BY <1>1, <1>2 DEF Risky, Committed, Drawing
    <3>2. PICK z \in Nat \ {0} : z = Cardinality(Queries)
      BY FS_CardinalityType, FS_EmptySet, EncryptedAssumption
    <3>3. PICK d \in 0..(n - 1) : d = Until(g)
      BY <2>1, <2>2, UntilRange
    <3>4. (0 + 0) + d <= (0 * (n - 1) + (n - 1)) + (z - 1)
      OBVIOUS
    <3>5. 0 <= z * n - 1
      <4>1. z * n >= 1
        OBVIOUS
      <4> QED
        BY <4>1
    <3>6. Cardinality(Risky(g)) = 0 /\ Cardinality(Committed(g)) = 0
      BY <3>1, FS_EmptySet
    <3> QED
      BY <1>1, <2>1, <3>1, <3>2, <3>3, <3>4, <3>5, <3>6 DEF Counted
  <2> QED
    BY <1>1, <2>2, <2>3, <2>4 DEF Core
<1> QED
  BY <1>1, <1>3 DEF Outage

LEMMA OutageStep == Inv /\ Outage /\ [Next]_vars => Outage'
<1> SUFFICES ASSUME Inv, Outage, [Next]_vars PROVE Outage'
  OBVIOUS
<1>1. UNCHANGED <<setup, net>>
  BY DEF Next, vars, Draw, DialByName, Reuse, Exchange, Resolved, ResolveFails, Connected, DialFails,
     Secured, HandshakeFails, Reply, ReplyFails, NextAddress, Fail, Phase, ConnDies, ConnCloses, Tick
<1>2. streak' \in {streak, streak + 1, 0}
  BY DEF Next, vars, Draw, DialByName, Reuse, Exchange, Resolved, ResolveFails, Connected, DialFails,
     Secured, HandshakeFails, Reply, ReplyFails, NextAddress, Fail, ConnDies, ConnCloses, Tick
<1>3. streak' \in Nat
  BY <1>2 DEF Outage
<1>4. pool'.state = "none" => pool' = NoConn
  <2>1. \/ UNCHANGED pool
        \/ pool' = NoConn
        \/ pool'.state \in {"live", "dead"}
    <3>1. CASE ConnDies
      BY <3>1 DEF ConnDies, Inv, Types, Pools
    <3>2. CASE ConnCloses \/ Tick \/ UNCHANGED vars
      BY <3>2 DEF ConnCloses, Tick, vars
    <3>3. CASE \E q \in Queries : Draw(q) \/ DialByName(q) \/ Reuse(q) \/ Exchange(q)
      <4>1. PICK q \in Queries : Draw(q) \/ DialByName(q) \/ Reuse(q) \/ Exchange(q)
        BY <3>3
      <4>2. CASE Secured(q)
        <5>1. UNCHANGED pool \/ pool' = [state |-> "live", at |-> ex[q].at]
          BY <4>2 DEF Secured
        <5> QED
          BY <5>1
      <4>3. CASE ~Secured(q)
        BY <4>1, <4>3 DEF Draw, DialByName, Reuse, Exchange, Resolved, ResolveFails, Connected,
           DialFails, HandshakeFails, Reply, ReplyFails, NextAddress, Fail
      <4> QED
        BY <4>2, <4>3
    <3> QED
      BY <3>1, <3>2, <3>3 DEF Next
  <2> QED
    BY <2>1 DEF Outage
<1>5. ASSUME Reacts PROVE Core'
  <2>1. N > 0 /\ Core
    BY <1>5, LuckyFacts DEF Inv, Types, Outage
  <2>2. \A q \in Queries : ~DialByName(q) /\ ~Resolved(q) /\ ~ResolveFails(q)
    BY <2>1, <1>5, LuckyFacts DEF DialByName, Resolved, ResolveFails, Inv, Types, ResolveOK
  <2>3. CASE UNCHANGED vars
    <3>1. UNCHANGED <<setup, net, ipCounter, pool, streak, ex>>
      BY <2>3 DEF vars
    <3>2. \A q \in Queries : Smooth(q)'
      BY <2>1, <3>1, SmoothFrame DEF Core
    <3> QED
      BY <1>5, <3>1, <3>2, QuietCore
  <2> QED
    BY <1>5, <2>2, <2>3, DrawCore, ReuseCore, ConnectedCore, DialFailsCore, SecuredCore,
       HandshakeFailsCore, ReplyCore, ReplyFailsCore, ConnDiesCore, ConnClosesCore, TickCore
    DEF Next, Exchange
<1>6. UNCHANGED Reacts
  BY <1>1, OutageFixed
<1> QED
  BY <1>3, <1>4, <1>5, <1>6 DEF Outage

(* dialContext and the shared counter: for exchanges that have any time,   *)
(* the outage that addresses of other providers cause is bounded by the    *)
(* number of addresses for each concurrent exchange.                       *)
THEOREM OutagesAreBounded == Timeout > 0 => (Spec => []OutageBounded)
<1> SUFFICES ASSUME Timeout > 0 PROVE Spec => []OutageBounded
  OBVIOUS
<1>1. Inv /\ Outage => OutageBounded
  <2> SUFFICES ASSUME Inv, Outage, Good # {},
                      \A a \in Known : net[a] \notin {"silent", "stalls", "errs"}
               PROVE  streak < Cardinality(Queries) * N
    BY DEF OutageBounded
  <2>1. Reacts /\ Core /\ streak \in Nat
    BY DEF Reacts, Outage
  <2>2. PICK n \in Nat \ {0} : n = N
    BY <2>1, LuckyFacts DEF Inv, Types
  <2>3. PICK z \in Nat \ {0} : z = Cardinality(Queries)
    BY FS_CardinalityType, FS_EmptySet, EncryptedAssumption
  <2>4. z * n >= 1 /\ z * n \in Nat
    OBVIOUS
  <2>5. CASE DoH
    <3>1. streak <= z * n - 1
      BY <2>1, <2>2, <2>3, <2>5, LuckyFacts DEF Core, Counted, Inv, Types
    <3> QED
      BY <2>1, <2>2, <2>3, <2>4, <3>1
  <2>6. CASE ~DoH
    BY <2>1, <2>2, <2>3, <2>4, <2>6 DEF Core
  <2> QED
    BY <2>5, <2>6
<1> QED
  BY <1>1, InvInit, InvStep, OutageInit, OutageStep, PTL DEF Spec
=============================================================================
