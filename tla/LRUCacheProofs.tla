--------------------------- MODULE LRUCacheProofs ----------------------------
(***************************************************************************)
(* Proofs about LRUCache, for every set of keys, responses, goroutines and *)
(* configurations.  The inductive invariant is Inv below: the types, the   *)
(* agreement of map and list, and, for the time properties, that every     *)
(* entry in the map or on its way to it is Honest about its expiry.        *)
(***************************************************************************)
EXTENDS LRUCache, SequenceTheorems, FiniteSetTheorems, TLAPS

-----------------------------------------------------------------------------
(* Arithmetic: division by the length of a second. *)

LEMMA DivFacts ==
    ASSUME NEW x \in Nat, NEW d \in Nat \ {0}
    PROVE  /\ x \div d \in Nat
           /\ d * (x \div d) <= x
           /\ x < d * (x \div d) + d
    OBVIOUS

LEMMA MulMono ==
    ASSUME NEW a \in Int, NEW b \in Int, NEW d \in Nat, a <= b
    PROVE  d * a <= d * b
    OBVIOUS

-----------------------------------------------------------------------------
(* Sequences of keys without repetitions. *)

Distinct(s) == \A i, j \in 1..Len(s) : s[i] = s[j] => i = j
Occurs(x, s) == \E i \in 1..Len(s) : s[i] = x

LEMMA RemoveAtFacts ==
    ASSUME NEW S, NEW s \in Seq(S), NEW i \in 1..Len(s)
    PROVE  /\ RemoveAt(s, i) \in Seq(S)
           /\ Len(RemoveAt(s, i)) = Len(s) - 1
           /\ \A j \in 1..(Len(s) - 1) : RemoveAt(s, i)[j] = IF j < i THEN s[j] ELSE s[j + 1]
<1> DEFINE a == SubSeq(s, 1, i - 1)
           b == SubSeq(s, i + 1, Len(s))
<1>1. /\ a \in Seq(S) /\ Len(a) = i - 1
      /\ \A j \in 1..(i - 1) : a[j] = s[j]
  BY SubSeqProperties
<1>2. /\ b \in Seq(S) /\ Len(b) = Len(s) - i
      /\ \A j \in 1..(Len(s) - i) : b[j] = s[i + j]
  BY SubSeqProperties
<1>3. RemoveAt(s, i) = a \o b
  BY DEF RemoveAt
<1> HIDE DEF a, b
<1>4. /\ a \o b \in Seq(S) /\ Len(a \o b) = Len(s) - 1
      /\ \A j \in 1..(Len(s) - 1) : (a \o b)[j] = IF j <= Len(a) THEN a[j] ELSE b[j - Len(a)]
  <2>1. /\ a \o b \in Seq(S) /\ Len(a \o b) = Len(a) + Len(b)
        /\ \A j \in 1..(Len(a) + Len(b)) : (a \o b)[j] = IF j <= Len(a) THEN a[j] ELSE b[j - Len(a)]
    BY <1>1, <1>2, ConcatProperties
  <2>2. Len(a) + Len(b) = Len(s) - 1
    BY <1>1, <1>2
  <2> QED
    BY <2>1, <2>2
<1>5. ASSUME NEW j \in 1..(Len(s) - 1)
      PROVE  (a \o b)[j] = IF j < i THEN s[j] ELSE s[j + 1]
  <2>1. CASE j < i
    BY <1>1, <1>4, <2>1
  <2>2. CASE ~(j < i)
    <3>1. j - Len(a) \in 1..(Len(s) - i)
      BY <1>1, <2>2
    <3> QED
      BY <1>1, <1>2, <1>4, <2>2, <3>1
  <2> QED
    BY <2>1, <2>2
<1> QED
  BY <1>3, <1>4, <1>5

LEMMA UnlinkFacts ==
    ASSUME NEW S, NEW s \in Seq(S), NEW k, Distinct(s), Occurs(k, s)
    PROVE  /\ Unlink(s, k) \in Seq(S)
           /\ Len(Unlink(s, k)) = Len(s) - 1
           /\ Distinct(Unlink(s, k))
           /\ \A x : Occurs(x, Unlink(s, k)) <=> Occurs(x, s) /\ x # k
<1> DEFINE i == CHOOSE n \in 1..Len(s) : s[n] = k
           u == RemoveAt(s, i)
<1>1. i \in 1..Len(s) /\ s[i] = k
  BY DEF Occurs
<1>2. Unlink(s, k) = u
  BY DEF Unlink
<1> HIDE DEF i
<1>3. /\ u \in Seq(S) /\ Len(u) = Len(s) - 1
      /\ \A j \in 1..(Len(s) - 1) : u[j] = IF j < i THEN s[j] ELSE s[j + 1]
  BY <1>1, RemoveAtFacts
<1> HIDE DEF u
<1>4. Distinct(u)
  BY <1>1, <1>3 DEF Distinct
<1>5. ASSUME NEW x, Occurs(x, u) PROVE Occurs(x, s) /\ x # k
  BY <1>1, <1>3, <1>5 DEF Distinct, Occurs
<1>6. ASSUME NEW x, Occurs(x, s), x # k PROVE Occurs(x, u)
  <2>1. PICK n \in 1..Len(s) : s[n] = x
    BY <1>6 DEF Occurs
  <2>2. CASE n < i
    BY <1>1, <1>3, <2>1, <2>2 DEF Occurs
  <2>3. CASE n > i
    <3>1. n - 1 \in 1..Len(u) /\ u[n - 1] = x
      BY <1>1, <1>3, <2>1, <2>3
    <3> QED
      BY <3>1 DEF Occurs
  <2> QED
    BY <1>1, <1>6, <2>1, <2>2, <2>3
<1> QED
  BY <1>2, <1>3, <1>4, <1>5, <1>6

LEMMA PushFacts ==
    ASSUME NEW S, NEW s \in Seq(S), NEW x \in S, Distinct(s), ~Occurs(x, s)
    PROVE  /\ <<x>> \o s \in Seq(S)
           /\ Len(<<x>> \o s) = Len(s) + 1
           /\ Distinct(<<x>> \o s)
           /\ \A y : Occurs(y, <<x>> \o s) <=> Occurs(y, s) \/ y = x
<1> DEFINE t == <<x>> \o s
<1>1. /\ t \in Seq(S) /\ Len(t) = Len(s) + 1 /\ t[1] = x
      /\ \A j \in 1..Len(s) : t[j + 1] = s[j]
  OBVIOUS
<1> HIDE DEF t
<1>2. \A n \in 1..Len(t) : n = 1 \/ (n - 1 \in 1..Len(s) /\ t[n] = s[n - 1])
  BY <1>1
<1>3. ASSUME NEW m \in 1..Len(t), NEW n \in 1..Len(t), t[m] = t[n]
      PROVE  m = n
  <2>1. CASE m = 1 /\ n # 1
    BY <1>1, <1>2, <1>3, <2>1 DEF Occurs
  <2>2. CASE m # 1 /\ n = 1
    BY <1>1, <1>2, <1>3, <2>2 DEF Occurs
  <2>3. CASE m # 1 /\ n # 1
    BY <1>2, <1>3, <2>3 DEF Distinct
  <2> QED
    BY <2>1, <2>2, <2>3
<1>4. ASSUME NEW y, Occurs(y, t) PROVE Occurs(y, s) \/ y = x
  BY <1>1, <1>2, <1>4 DEF Occurs
<1>5. ASSUME NEW y, Occurs(y, s) PROVE Occurs(y, t)
  <2>1. PICK n \in 1..Len(s) : s[n] = y
    BY <1>5 DEF Occurs
  <2>2. n + 1 \in 1..Len(t) /\ t[n + 1] = y
    BY <1>1, <2>1
  <2> QED
    BY <2>2 DEF Occurs
<1>6. Occurs(x, t)
  BY <1>1 DEF Occurs
<1> QED
  BY <1>1, <1>3, <1>4, <1>5, <1>6 DEF t, Distinct

LEMMA DropLastFacts ==
    ASSUME NEW S, NEW s \in Seq(S), Distinct(s), Len(s) > 0
    PROVE  /\ s[Len(s)] \in S
           /\ SubSeq(s, 1, Len(s) - 1) \in Seq(S)
           /\ Len(SubSeq(s, 1, Len(s) - 1)) = Len(s) - 1
           /\ Distinct(SubSeq(s, 1, Len(s) - 1))
           /\ \A x : Occurs(x, SubSeq(s, 1, Len(s) - 1)) <=> Occurs(x, s) /\ x # s[Len(s)]
<1> DEFINE t == SubSeq(s, 1, Len(s) - 1)
<1>1. /\ t \in Seq(S) /\ Len(t) = Len(s) - 1
      /\ \A j \in 1..(Len(s) - 1) : t[j] = s[j]
  <2>1. Len(s) - 1 \in Int /\ \A j \in 1..(Len(s) - 1) : s[j] \in S
    OBVIOUS
  <2>2. /\ t \in Seq(S) /\ Len(t) = IF 1 <= Len(s) - 1 THEN Len(s) - 1 - 1 + 1 ELSE 0
        /\ \A j \in 1..(Len(s) - 1 - 1 + 1) : t[j] = s[1 + j - 1]
    BY <2>1, SubSeqProperties
  <2>3. Len(s) - 1 - 1 + 1 = Len(s) - 1 /\ Len(s) \in Nat
    OBVIOUS
  <2> HIDE DEF t
  <2>4. Len(t) = Len(s) - 1
    <3>1. CASE 1 <= Len(s) - 1
      BY <2>2, <2>3, <3>1
    <3>2. CASE ~(1 <= Len(s) - 1)
      <4>1. Len(s) - 1 = 0
        BY <2>3, <3>2
      <4> QED
        BY <2>2, <3>2, <4>1
    <3> QED
      BY <3>1, <3>2
  <2>5. ASSUME NEW j \in 1..(Len(s) - 1) PROVE t[j] = s[j]
    <3>1. 1 + j - 1 = j
      OBVIOUS
    <3> QED
      BY <2>2, <2>3, <3>1
  <2> QED
    BY <2>2, <2>4, <2>5
<1>2. Len(s) \in 1..Len(s) /\ s[Len(s)] \in S
  OBVIOUS
<1> HIDE DEF t
<1>3. Distinct(t)
  BY <1>1 DEF Distinct
<1>4. ASSUME NEW x, Occurs(x, t) PROVE Occurs(x, s) /\ x # s[Len(s)]
  BY <1>1, <1>2, <1>4 DEF Occurs, Distinct
<1>5. ASSUME NEW x, Occurs(x, s), x # s[Len(s)] PROVE Occurs(x, t)
  BY <1>1, <1>2, <1>5 DEF Occurs
<1> QED
  BY <1>1, <1>2, <1>3, <1>4, <1>5 DEF t

LEMMA MoveToFrontFacts ==
    ASSUME NEW S, NEW s \in Seq(S), NEW k \in S, Distinct(s), Occurs(k, s)
    PROVE  /\ MoveToFront(s, k) \in Seq(S)
           /\ Len(MoveToFront(s, k)) = Len(s)
           /\ Distinct(MoveToFront(s, k))
           /\ \A x : Occurs(x, MoveToFront(s, k)) <=> Occurs(x, s)
<1>1. /\ Unlink(s, k) \in Seq(S) /\ Len(Unlink(s, k)) = Len(s) - 1
      /\ Distinct(Unlink(s, k))
      /\ \A x : Occurs(x, Unlink(s, k)) <=> Occurs(x, s) /\ x # k
  BY UnlinkFacts
<1>2. /\ MoveToFront(s, k) \in Seq(S) /\ Len(MoveToFront(s, k)) = Len(Unlink(s, k)) + 1
      /\ Distinct(MoveToFront(s, k))
      /\ \A x : Occurs(x, MoveToFront(s, k)) <=> Occurs(x, Unlink(s, k)) \/ x = k
  BY <1>1, PushFacts DEF MoveToFront
<1> QED
  BY <1>1, <1>2

(* The list s holds exactly the keys D, each once. *)
Agree(s, D) == Distinct(s) /\ \A x : Occurs(x, s) <=> x \in D

LEMMA AgreeIff ==
    ASSUME NEW s, NEW D
    PROVE  Agree(s, D) <=> /\ \A i \in 1..Len(s) : s[i] \in D
                           /\ \A k \in D : \E i \in 1..Len(s) : s[i] = k
                           /\ \A i, j \in 1..Len(s) : s[i] = s[j] => i = j
    BY DEF Agree, Distinct, Occurs

-----------------------------------------------------------------------------
(* The operators of the cache. *)

LEMMA NatMin ==
    ASSUME NEW T, T \subseteq Nat, T # {}
    PROVE  \E x \in T : \A y \in T : x <= y
<1>1. PICK x \in T : \A y \in T : ~(<<y, x>> \in OpToRel(<, Nat))
  BY NatLessThanWellFounded, WFMin
<1>2. \A y \in T : x <= y
  <2>1. ASSUME NEW y \in T, ~(x <= y) PROVE <<y, x>> \in OpToRel(<, Nat)
    <3>1. y \in Nat /\ x \in Nat /\ y < x
      BY <2>1
    <3> QED
      BY <3>1, Zenon DEF OpToRel
  <2> QED
    BY <1>1, <2>1
<1> QED
  BY <1>2

LEMMA MinTTLFacts ==
    ASSUME NEW msg \in Responses
    PROVE  /\ calculateMinTTL(msg) \in Nat
           /\ \A t \in msg.ttls : t \in Nat /\ calculateMinTTL(msg) <= t
<1>1. msg.ttls \subseteq Nat
  BY CacheAssumption
<1>2. CASE msg.ttls = {}
  BY <1>2 DEF calculateMinTTL
<1>3. CASE msg.ttls # {}
  <2>1. \E x \in msg.ttls : \A y \in msg.ttls : x <= y
    BY <1>1, <1>3, NatMin
  <2> QED
    BY <1>1, <1>3, <2>1 DEF calculateMinTTL
<1> QED
  BY <1>2, <1>3

CacheType == [enabled : BOOLEAN, maxSize : Nat, minTTL : Nat, maxTTL : Nat]

LEMMA SecFacts ==
    ASSUME NEW c \in CacheType
    PROVE  MinSec(c) \in Nat /\ MaxSec(c) \in Nat
    BY CacheAssumption, DivFacts DEF MinSec, MaxSec, CacheType

(* The clamp: no longer than any larger TTL raised to the minimum, and no  *)
(* longer than the maximum if there is one.                                *)
LEMMA ClampFacts ==
    ASSUME NEW c \in CacheType, NEW ttl \in Nat
    PROVE  /\ ClampTTL(c, ttl) \in Nat
           /\ \A t \in Nat : ttl <= t => /\ ClampTTL(c, ttl) <= AtLeastMin(c, t)
                                        /\ AtLeastMin(c, t) \in Nat
           /\ MaxSec(c) > 0 => ClampTTL(c, ttl) <= MaxSec(c)
    BY SecFacts DEF ClampTTL, AtLeastMin

LEMMA NewCacheFacts ==
    ASSUME NEW cfg \in Configs
    PROVE  /\ NewCache(cfg) \in CacheType
           /\ NewCache(cfg).enabled => NewCache(cfg).maxSize >= 1
<1>1. /\ cfg.enabled \in BOOLEAN /\ cfg.size \in Int /\ cfg.minTTL \in Int /\ cfg.maxTTL \in Int
      /\ Second \in Nat
  BY CacheAssumption
<1>2. 60 * Second \in Nat /\ 86400 * Second \in Nat
  BY <1>1
<1>3. CASE ~cfg.enabled \/ cfg.size <= 0
  BY <1>1, <1>3 DEF NewCache, CacheType
<1>4. CASE ~(~cfg.enabled \/ cfg.size <= 0)
  BY <1>1, <1>2, <1>4 DEF NewCache, CacheType
<1> QED
  BY <1>3, <1>4

-----------------------------------------------------------------------------
(* The structural half of the invariant. *)

Configured == cache.enabled => cache.maxSize >= 1

Structure ==
    /\ TypeOK
    /\ Agree(evict, DOMAIN items)
    /\ Len(evict) <= cache.maxSize
    /\ Configured

LEMMA StructureInit == Init => Structure
<1> SUFFICES ASSUME Init PROVE Structure
  OBVIOUS
<1>1. PICK cfg \in Configs : cache = NewCache(cfg)
  BY DEF Init
<1>2. cache \in CacheType /\ Configured
  BY <1>1, NewCacheFacts DEF Configured
<1>3. DOMAIN items = {} /\ evict = << >> /\ Len(evict) = 0
  BY DEF Init
<1>4. Agree(evict, DOMAIN items)
  BY <1>3 DEF Agree, Distinct, Occurs
<1>5. TypeOK
  BY <1>2, <1>3 DEF Init, TypeOK, CacheType
<1> QED
  BY <1>2, <1>3, <1>4, <1>5 DEF Structure, CacheType

(* Every list operation of the cache keeps map and list in agreement. *)
LEMMA TouchStep ==
    ASSUME Structure, NEW k \in DOMAIN items
    PROVE  /\ MoveToFront(evict, k) \in Seq(Keys)
           /\ Len(MoveToFront(evict, k)) = Len(evict)
           /\ Agree(MoveToFront(evict, k), DOMAIN items)
<1>1. /\ evict \in Seq(Keys) /\ k \in Keys
      /\ Distinct(evict) /\ Occurs(k, evict)
  BY DEF Structure, TypeOK, Agree
<1> QED
  BY <1>1, MoveToFrontFacts DEF Structure, Agree

LEMMA GetExpiredStep ==
    ASSUME Structure, NEW k \in Keys, GetExpired(k)
    PROVE  Structure'
<1>1. /\ evict \in Seq(Keys) /\ k \in DOMAIN items
      /\ Distinct(evict) /\ Occurs(k, evict)
  BY DEF Structure, TypeOK, Agree, GetExpired
<1>2. /\ evict' \in Seq(Keys) /\ Len(evict') = Len(evict) - 1
      /\ Distinct(evict')
      /\ \A x : Occurs(x, evict') <=> Occurs(x, evict) /\ x # k
  BY <1>1, UnlinkFacts DEF GetExpired
<1>3. /\ DOMAIN items' = DOMAIN items \ {k}
      /\ \A j \in DOMAIN items' : items'[j] = items[j]
  BY DEF GetExpired, Without
<1>4. Agree(evict', DOMAIN items')
  BY <1>2, <1>3 DEF Structure, Agree
<1>5. TypeOK'
  BY <1>2, <1>3 DEF Structure, TypeOK, GetExpired
<1>6. Len(evict') <= cache'.maxSize
  BY <1>1, <1>2 DEF Structure, TypeOK, GetExpired
<1> QED
  BY <1>4, <1>5, <1>6 DEF Structure, Configured, GetExpired

LEMMA RemainingFacts ==
    ASSUME now \in Nat, NEW e \in Entries, now <= e.expireAt
    PROVE  /\ remainingTTL(e) \in Nat /\ remainingTTL(e) >= 1
           /\ remainingTTL(e) > 1 => now + Second * remainingTTL(e) <= e.expireAt
<1>1. e.expireAt - now \in Nat
  BY DEF Entries
<1>2. /\ (e.expireAt - now) \div Second \in Nat
      /\ Second * ((e.expireAt - now) \div Second) <= e.expireAt - now
  BY <1>1, CacheAssumption, DivFacts
<1> DEFINE d == (e.expireAt - now) \div Second
<1>3. Second * d \in Int /\ e.expireAt \in Nat
  BY <1>2, CacheAssumption DEF Entries
<1> HIDE DEF d
<1>4. d \in Nat /\ Second * d <= e.expireAt - now
  BY <1>2 DEF d
<1>5. remainingTTL(e) = IF d = 0 THEN 1 ELSE d
  BY DEF remainingTTL, d
<1> QED
  BY <1>3, <1>4, <1>5

LEMMA GetHitStep ==
    ASSUME Structure, \A j \in DOMAIN items : items[j].receivedAt <= now,
           NEW k \in Keys, GetHit(k)
    PROVE  Structure'
<1>1. /\ k \in DOMAIN items /\ items[k] \in Entries /\ now \in Nat
      /\ now <= items[k].expireAt /\ items[k].receivedAt <= now
  BY DEF Structure, TypeOK, GetHit
<1>2. remainingTTL(items[k]) \in Nat
  BY <1>1, RemainingFacts
<1>3. now - items[k].receivedAt \in Nat /\ items[k].msg \in Responses
  BY <1>1 DEF Entries
<1>4. ret' \in Answers
  BY <1>2, <1>3 DEF GetHit, Hit, Answers
<1>5. /\ evict' \in Seq(Keys) /\ Len(evict') = Len(evict)
      /\ Agree(evict', DOMAIN items)
  BY <1>1, TouchStep DEF GetHit
<1>6. TypeOK'
  BY <1>4, <1>5 DEF Structure, TypeOK, GetHit
<1> QED
  BY <1>5, <1>6 DEF Structure, Configured, GetHit

LEMMA SetBeginStep ==
    ASSUME Structure, NEW p \in Procs, NEW k \in Keys, NEW msg \in Responses, SetBegin(p, k, msg)
    PROVE  Structure'
<1> DEFINE ttl == ClampTTL(cache, calculateMinTTL(msg))
           e == [msg |-> msg, initialTTL |-> ttl,
                 expireAt |-> now + ttl * Second, receivedAt |-> now]
<1>1. ttl \in Nat /\ now \in Nat /\ Second \in Nat
  BY MinTTLFacts, ClampFacts, CacheAssumption DEF Structure, TypeOK, CacheType
<1>2. now + ttl * Second \in Nat
  BY <1>1
<1>3. setting' = [setting EXCEPT ![p] = [idle |-> FALSE, key |-> k, entry |-> e]]
  BY DEF SetBegin
<1>4. e \in Entries
  BY <1>1, <1>2 DEF Entries
<1> HIDE DEF e, ttl
<1>5. setting' \in [Procs -> Pending \cup {Idle}]
  BY <1>3, <1>4 DEF Structure, TypeOK, Pending
<1>6. TypeOK'
  BY <1>5 DEF Structure, TypeOK, SetBegin
<1> QED
  BY <1>6 DEF Structure, Configured, SetBegin

LEMMA PendingFacts ==
    ASSUME TypeOK, NEW p \in Procs, setting[p] # Idle
    PROVE  setting[p].key \in Keys /\ setting[p].entry \in Entries
    BY DEF TypeOK, Pending

LEMMA SetOverwriteStep ==
    ASSUME Structure, NEW p \in Procs, SetOverwrite(p)
    PROVE  Structure'
<1> DEFINE k == setting[p].key
<1>1. k \in DOMAIN items /\ k \in Keys /\ setting[p].entry \in Entries
  BY PendingFacts DEF Structure, SetOverwrite
<1>2. /\ evict' \in Seq(Keys) /\ Len(evict') = Len(evict)
      /\ Agree(evict', DOMAIN items)
  BY <1>1, TouchStep DEF SetOverwrite
<1>3. /\ DOMAIN items' = DOMAIN items
      /\ items'[k] = setting[p].entry
      /\ \A j \in DOMAIN items \ {k} : items'[j] = items[j]
  BY <1>1 DEF SetOverwrite, With
<1>4. setting' \in [Procs -> Pending \cup {Idle}]
  BY DEF Structure, TypeOK, SetOverwrite
<1>5. TypeOK'
  BY <1>1, <1>2, <1>3, <1>4 DEF Structure, TypeOK, SetOverwrite
<1> QED
  BY <1>2, <1>3, <1>5 DEF Structure, Configured, SetOverwrite

LEMMA SetInsertStep ==
    ASSUME Structure, NEW p \in Procs, SetInsert(p)
    PROVE  Structure'
<1> DEFINE k == setting[p].key
<1>1. k \notin DOMAIN items /\ k \in Keys /\ setting[p].entry \in Entries
  BY PendingFacts DEF Structure, SetInsert
<1>2. evict \in Seq(Keys) /\ Distinct(evict) /\ ~Occurs(k, evict)
  BY <1>1 DEF Structure, TypeOK, Agree
<1>3. /\ evict' \in Seq(Keys) /\ Len(evict') = Len(evict) + 1
      /\ Distinct(evict')
      /\ \A y : Occurs(y, evict') <=> Occurs(y, evict) \/ y = k
  BY <1>1, <1>2, PushFacts DEF SetInsert
<1>4. /\ DOMAIN items' = DOMAIN items \cup {k}
      /\ items'[k] = setting[p].entry
      /\ \A j \in DOMAIN items \ {k} : items'[j] = items[j]
  BY DEF SetInsert, With
<1>5. setting' \in [Procs -> Pending \cup {Idle}]
  BY DEF Structure, TypeOK, SetInsert
<1>6. Agree(evict', DOMAIN items')
  BY <1>3, <1>4 DEF Structure, Agree
<1>7. TypeOK'
  BY <1>1, <1>3, <1>4, <1>5 DEF Structure, TypeOK, SetInsert
<1>8. Len(evict') <= cache'.maxSize
  BY <1>2, <1>3 DEF Structure, TypeOK, SetInsert
<1> QED
  BY <1>6, <1>7, <1>8 DEF Structure, Configured, SetInsert

LEMMA SetEvictStep ==
    ASSUME Structure, cache.enabled, NEW p \in Procs, SetEvict(p)
    PROVE  Structure'
<1> DEFINE k == setting[p].key
           last == evict[Len(evict)]
           front == SubSeq(evict, 1, Len(evict) - 1)
<1>1. k \notin DOMAIN items /\ k \in Keys /\ setting[p].entry \in Entries
  BY PendingFacts DEF Structure, SetEvict
<1>2. evict \in Seq(Keys) /\ Distinct(evict) /\ ~Occurs(k, evict) /\ Len(evict) > 0
  BY <1>1 DEF Structure, TypeOK, Agree, Configured, SetEvict
<1>3. /\ front \in Seq(Keys) /\ Len(front) = Len(evict) - 1
      /\ Distinct(front)
      /\ \A x : Occurs(x, front) <=> Occurs(x, evict) /\ x # last
  BY <1>2, DropLastFacts
<1>4. evict' = <<k>> \o front /\ items' = With(Without(items, last), k, setting[p].entry)
  BY DEF SetEvict
<1> HIDE DEF front, last
<1>5. /\ evict' \in Seq(Keys) /\ Len(evict') = Len(front) + 1
      /\ Distinct(evict')
      /\ \A y : Occurs(y, evict') <=> Occurs(y, front) \/ y = k
  BY <1>1, <1>2, <1>3, <1>4, PushFacts
<1>6. /\ DOMAIN items' = (DOMAIN items \ {last}) \cup {k}
      /\ items'[k] = setting[p].entry
      /\ \A j \in DOMAIN items' \ {k} : j \in DOMAIN items /\ items'[j] = items[j]
  BY <1>4 DEF With, Without
<1>7. setting' \in [Procs -> Pending \cup {Idle}]
  BY DEF Structure, TypeOK, SetEvict
<1>8. Agree(evict', DOMAIN items')
  BY <1>3, <1>5, <1>6 DEF Structure, Agree
<1>9. TypeOK'
  BY <1>1, <1>5, <1>6, <1>7 DEF Structure, TypeOK, SetEvict
<1>10. Len(evict') <= cache'.maxSize
  BY <1>2, <1>3, <1>5 DEF Structure, TypeOK, SetEvict
<1> QED
  BY <1>8, <1>9, <1>10 DEF Structure, Configured, SetEvict

-----------------------------------------------------------------------------
(* The half about time: what an entry says of its own expiry. *)

Honest(e, c, t) ==
    /\ Cacheable(e.msg)
    /\ e.receivedAt <= t
    /\ e.expireAt = e.receivedAt + ClampTTL(c, calculateMinTTL(e.msg)) * Second

AllHonest ==
    /\ \A k \in DOMAIN items : Honest(items[k], cache, now)
    /\ \A p \in Procs : setting[p] # Idle => cache.enabled /\ Honest(setting[p].entry, cache, now)

Inv ==
    /\ Structure
    /\ AllHonest
    /\ ServedWithinTTL
    /\ OnlyCleanServed

LEMMA InvInit == Init => Inv
<1> SUFFICES ASSUME Init PROVE Inv
  OBVIOUS
<1>1. AllHonest
  BY DEF Init, AllHonest, Idle
<1>2. ServedWithinTTL /\ OnlyCleanServed
  BY DEF Init, Miss, ServedWithinTTL, OnlyCleanServed
<1> QED
  BY <1>1, <1>2, StructureInit DEF Inv

LEMMA StructureStep == Inv /\ [Next]_vars => Structure'
<1> SUFFICES ASSUME Inv, [Next]_vars PROVE Structure'
  OBVIOUS
<1> USE DEF Inv
<1>1. CASE UNCHANGED vars
  BY <1>1 DEF vars, Structure, TypeOK, Configured
<1>2. CASE Tick
  BY <1>2 DEF Tick, Structure, TypeOK, Configured
<1>3. ASSUME NEW k \in Keys, GetMiss(k) PROVE Structure'
  BY <1>3 DEF GetMiss, Structure, TypeOK, Configured
<1>4. ASSUME NEW k \in Keys, GetExpired(k) PROVE Structure'
  BY <1>4, GetExpiredStep
<1>5. ASSUME NEW k \in Keys, GetHit(k) PROVE Structure'
  BY <1>5, GetHitStep DEF AllHonest, Honest
<1>6. ASSUME NEW p \in Procs, NEW k \in Keys, NEW msg \in Responses, SetBegin(p, k, msg)
      PROVE  Structure'
  BY <1>6, SetBeginStep
<1>7. ASSUME NEW p \in Procs, SetOverwrite(p) PROVE Structure'
  BY <1>7, SetOverwriteStep
<1>8. ASSUME NEW p \in Procs, SetInsert(p) PROVE Structure'
  BY <1>8, SetInsertStep
<1>9. ASSUME NEW p \in Procs, SetEvict(p) PROVE Structure'
  <2>1. cache.enabled
    BY <1>9 DEF SetEvict, AllHonest
  <2> QED
    BY <1>9, <2>1, SetEvictStep
<1> QED
  BY <1>1, <1>2, <1>3, <1>4, <1>5, <1>6, <1>7, <1>8, <1>9 DEF Next, Get, SetLocked

LEMMA HonestStep == Inv /\ [Next]_vars => AllHonest'
<1> SUFFICES ASSUME Inv, [Next]_vars PROVE AllHonest'
  OBVIOUS
<1> USE DEF Inv
<1>1. CASE UNCHANGED vars
  BY <1>1 DEF vars, AllHonest
<1>2. CASE Tick
  <2>1. now \in Nat /\ now' = now + 1
    BY <1>2 DEF Tick, Structure, TypeOK
  <2>2. \A k \in DOMAIN items : items[k] \in Entries
    BY DEF Structure, TypeOK
  <2>3. \A p \in Procs : setting[p] # Idle => setting[p].entry \in Entries
    BY PendingFacts DEF Structure
  <2>4. \A e \in Entries : Honest(e, cache, now) => Honest(e, cache, now')
    BY <2>1 DEF Honest, Entries
  <2> QED
    BY <1>2, <2>2, <2>3, <2>4 DEF Tick, AllHonest
<1>3. ASSUME NEW k \in Keys, GetMiss(k) PROVE AllHonest'
  BY <1>3 DEF GetMiss, AllHonest
<1>4. ASSUME NEW k \in Keys, GetExpired(k) PROVE AllHonest'
  BY <1>4 DEF GetExpired, Without, AllHonest
<1>5. ASSUME NEW k \in Keys, GetHit(k) PROVE AllHonest'
  BY <1>5 DEF GetHit, AllHonest
<1>6. ASSUME NEW p \in Procs, NEW k \in Keys, NEW msg \in Responses, SetBegin(p, k, msg)
      PROVE  AllHonest'
  <2> DEFINE ttl == ClampTTL(cache, calculateMinTTL(msg))
             e == [msg |-> msg, initialTTL |-> ttl,
                   expireAt |-> now + ttl * Second, receivedAt |-> now]
  <2>1. Honest(e, cache, now)
    BY <1>6 DEF Honest, SetBegin, Structure, TypeOK
  <2>2. /\ setting' = [setting EXCEPT ![p] = [idle |-> FALSE, key |-> k, entry |-> e]]
        /\ cache.enabled
    BY <1>6 DEF SetBegin
  <2> HIDE DEF e, ttl
  <2>3. setting \in [Procs -> Pending \cup {Idle}]
    BY DEF Structure, TypeOK
  <2> QED
    BY <1>6, <2>1, <2>2, <2>3 DEF SetBegin, AllHonest
<1>7. ASSUME NEW p \in Procs, SetLocked(p) PROVE AllHonest'
  <2>1. setting[p] # Idle /\ setting' = [setting EXCEPT ![p] = Idle] /\ UNCHANGED <<cache, now>>
    BY <1>7 DEF SetLocked, SetOverwrite, SetInsert, SetEvict
  <2>2. setting \in [Procs -> Pending \cup {Idle}]
    BY DEF Structure, TypeOK
  <2>3. \A k \in DOMAIN items' : \/ items'[k] = setting[p].entry
                                 \/ k \in DOMAIN items /\ items'[k] = items[k]
    <3>1. CASE SetOverwrite(p)
      BY <3>1 DEF SetOverwrite, With
    <3>2. CASE SetInsert(p)
      BY <3>2 DEF SetInsert, With
    <3>3. CASE SetEvict(p)
      <4>1. items' = With(Without(items, evict[Len(evict)]), setting[p].key, setting[p].entry)
        BY <3>3 DEF SetEvict
      <4> QED
        BY <4>1 DEF With, Without
    <3> QED
      BY <1>7, <3>1, <3>2, <3>3 DEF SetLocked
  <2>4. \A k \in DOMAIN items' : Honest(items'[k], cache, now)
    BY <2>1, <2>3 DEF AllHonest
  <2>5. \A q \in Procs : setting'[q] # Idle => setting'[q] = setting[q]
    BY <2>1, <2>2
  <2> QED
    BY <2>1, <2>4, <2>5 DEF AllHonest
<1> QED
  BY <1>1, <1>2, <1>3, <1>4, <1>5, <1>6, <1>7 DEF Next, Get

(* A hit on an honest entry is within the life of the entry's records. *)
LEMMA HonestHit ==
    ASSUME Inv, NEW k \in Keys, GetHit(k)
    PROVE  ServedWithinTTL' /\ OnlyCleanServed'
<1> DEFINE e == items[k]
           min == calculateMinTTL(e.msg)
           life == ClampTTL(cache, min)
<1>1. /\ e \in Entries /\ now \in Nat /\ now <= e.expireAt /\ Honest(e, cache, now)
      /\ cache \in CacheType /\ Second \in Nat
  BY CacheAssumption DEF Inv, Structure, TypeOK, AllHonest, GetHit, CacheType
<1>2. ret' = Hit(k) /\ cache' = cache
  BY DEF GetHit
<1>3. e.msg \in Responses /\ e.receivedAt \in Nat /\ e.expireAt \in Nat
  BY <1>1 DEF Entries
<1>4. min \in Nat /\ \A t \in e.msg.ttls : t \in Nat /\ min <= t
  BY <1>3, MinTTLFacts
<1>5. /\ life \in Nat
      /\ \A t \in e.msg.ttls : life <= AtLeastMin(cache, t) /\ AtLeastMin(cache, t) \in Nat
      /\ MaxSec(cache) > 0 => life <= MaxSec(cache)
      /\ MaxSec(cache) \in Nat
  BY <1>1, <1>4, ClampFacts, SecFacts
<1>6. e.expireAt = e.receivedAt + Second * life
  BY <1>1, <1>5 DEF Honest
<1>7. /\ remainingTTL(e) \in Nat /\ remainingTTL(e) >= 1
      /\ remainingTTL(e) > 1 => now + Second * remainingTTL(e) <= e.expireAt
  BY <1>1, RemainingFacts
<1>8. ret'.hit /\ ret'.ttl = remainingTTL(e) /\ ret'.age = now - e.receivedAt /\ ret'.msg = e.msg
  BY <1>2 DEF Hit
<1> HIDE DEF life, min, e
<1>9. Second * life \in Int /\ Second * remainingTTL(e) \in Int
  BY <1>1, <1>5, <1>7
<1>10. /\ now - e.receivedAt <= Second * life
       /\ remainingTTL(e) > 1 => now - e.receivedAt + Second * remainingTTL(e) <= Second * life
  BY <1>1, <1>3, <1>6, <1>7, <1>9
<1>11. ASSUME NEW b \in Nat, life <= b
       PROVE  /\ now - e.receivedAt <= Second * b
              /\ remainingTTL(e) > 1 => now - e.receivedAt + Second * remainingTTL(e) <= Second * b
  <2>1. Second * life <= Second * b /\ Second * b \in Int
    BY <1>1, <1>5, <1>11, MulMono
  <2> QED
    BY <1>1, <1>3, <1>9, <1>10, <2>1
<1>12. ServedWithinTTL'
  BY <1>2, <1>5, <1>7, <1>8, <1>11 DEF ServedWithinTTL, ServedWithin
<1>13. e.msg.rcode \in {"NOERROR", "NXDOMAIN"} /\ ~e.msg.truncated /\ min # 0
  BY <1>1 DEF Honest, Cacheable, min
<1>14. 0 \notin e.msg.ttls
  BY <1>4, <1>13
<1> QED
  BY <1>8, <1>12, <1>13, <1>14 DEF OnlyCleanServed

LEMMA ServedStep == Inv /\ [Next]_vars => ServedWithinTTL' /\ OnlyCleanServed'
<1> SUFFICES ASSUME Inv, [Next]_vars PROVE ServedWithinTTL' /\ OnlyCleanServed'
  OBVIOUS
<1>1. CASE UNCHANGED <<ret, cache>>
  BY <1>1 DEF Inv, ServedWithinTTL, ServedWithin, OnlyCleanServed
<1>2. CASE ret' = Miss
  BY <1>2 DEF Miss, ServedWithinTTL, OnlyCleanServed
<1>3. ASSUME NEW k \in Keys, GetHit(k) PROVE ServedWithinTTL' /\ OnlyCleanServed'
  BY <1>3, HonestHit
<1> QED
  BY <1>1, <1>2, <1>3 DEF Next, vars, Get, GetMiss, GetExpired, Tick, SetBegin,
                          SetLocked, SetOverwrite, SetInsert, SetEvict

-----------------------------------------------------------------------------
(* The invariant holds in every reachable state. *)
THEOREM Invariance == Spec => []Inv
<1>1. Inv /\ [Next]_vars => Inv'
  BY StructureStep, HonestStep, ServedStep DEF Inv
<1> QED
  BY <1>1, InvInit, PTL DEF Spec

(* Every variable keeps its type, for any configuration: a TTL is never    *)
(* negative and an entry never expires before time 0.                      *)
THEOREM TypeCorrect == Spec => []TypeOK
<1>1. Inv => TypeOK
  BY DEF Inv, Structure
<1> QED
  BY <1>1, Invariance, PTL

(* Get and Set keep the map and the recency list in step, without          *)
(* duplicates and within maxSize, for any number of keys and goroutines.   *)
THEOREM MapAndListAgree == Spec => []ListMapAgree
<1>1. Inv => ListMapAgree
  BY AgreeIff DEF Inv, Structure, ListMapAgree
<1> QED
  BY <1>1, Invariance, PTL

(* No cached answer outlives its records, whatever the clock resolution,   *)
(* the clamp settings and the interleaving of Sets that wait for the lock. *)
THEOREM FreshnessOfAnswers == Spec => []ServedWithinTTL
<1>1. Inv => ServedWithinTTL
  BY DEF Inv
<1> QED
  BY <1>1, Invariance, PTL

(* No failure, truncated answer or answer with TTL 0 is ever replayed. *)
THEOREM CleanlinessOfAnswers == Spec => []OnlyCleanServed
<1>1. Inv => OnlyCleanServed
  BY DEF Inv
<1> QED
  BY <1>1, Invariance, PTL

-----------------------------------------------------------------------------
(* The refinement: map and list implement the abstract store of CacheSpec. *)

(* The recency relation of a list: its pairs, the later one first. *)
Order(s) == {<<s[ij[1]], s[ij[2]]>> :
                ij \in {ij \in (1..Len(s)) \X (1..Len(s)) : ij[1] > ij[2]}}

After(a, b, s) == \E i, j \in 1..Len(s) : i > j /\ s[i] = a /\ s[j] = b

LEMMA OrderIff ==
    ASSUME NEW s, NEW x
    PROVE  x \in Order(s) <=> \E a, b : x = <<a, b>> /\ After(a, b, s)
<1>1. ASSUME x \in Order(s) PROVE \E a, b : x = <<a, b>> /\ After(a, b, s)
  <2>1. PICK ij \in (1..Len(s)) \X (1..Len(s)) : ij[1] > ij[2] /\ x = <<s[ij[1]], s[ij[2]]>>
    BY <1>1 DEF Order
  <2>2. ij[1] \in 1..Len(s) /\ ij[2] \in 1..Len(s)
    BY <2>1
  <2> QED
    BY <2>1, <2>2 DEF After
<1>2. ASSUME NEW a, NEW b, x = <<a, b>>, After(a, b, s) PROVE x \in Order(s)
  <2>1. PICK i \in 1..Len(s), j \in 1..Len(s) : i > j /\ s[i] = a /\ s[j] = b
    BY <1>2 DEF After
  <2>2. /\ <<i, j>> \in (1..Len(s)) \X (1..Len(s))
        /\ <<i, j>>[1] > <<i, j>>[2]
        /\ x = <<s[<<i, j>>[1]], s[<<i, j>>[2]]>>
    BY <1>2, <2>1
  <2> QED
    BY <2>2 DEF Order
<1> QED
  BY <1>1, <1>2

LEMMA AfterOccurs ==
    ASSUME NEW s, NEW a, NEW b, After(a, b, s)
    PROVE  Occurs(a, s) /\ Occurs(b, s)
    BY DEF After, Occurs

LEMMA UnlinkOrder ==
    ASSUME NEW S, NEW s \in Seq(S), NEW k, Distinct(s), Occurs(k, s)
    PROVE  \A a, b : After(a, b, Unlink(s, k)) <=> After(a, b, s) /\ a # k /\ b # k
<1> DEFINE i == CHOOSE n \in 1..Len(s) : s[n] = k
           u == RemoveAt(s, i)
           old(n) == IF n < i THEN n ELSE n + 1
           new(n) == IF n < i THEN n ELSE n - 1
<1>1. i \in 1..Len(s) /\ s[i] = k
  BY DEF Occurs
<1>2. Unlink(s, k) = u
  BY DEF Unlink
<1> HIDE DEF i
<1>3. /\ Len(u) = Len(s) - 1 /\ Len(s) \in Nat
      /\ \A j \in 1..(Len(s) - 1) : u[j] = IF j < i THEN s[j] ELSE s[j + 1]
  BY <1>1, RemoveAtFacts
<1> HIDE DEF u
<1>4. \A n \in 1..Len(u) : old(n) \in 1..Len(s) /\ s[old(n)] = u[n] /\ old(n) # i
  BY <1>1, <1>3
<1>5. \A n \in 1..Len(s) : n # i => new(n) \in 1..Len(u) /\ u[new(n)] = s[n]
  BY <1>1, <1>3
<1>6. ASSUME NEW a, NEW b, After(a, b, u) PROVE After(a, b, s) /\ a # k /\ b # k
  <2>1. PICK m \in 1..Len(u), n \in 1..Len(u) : m > n /\ u[m] = a /\ u[n] = b
    BY <1>6 DEF After
  <2>2. old(m) > old(n)
    BY <1>1, <1>3, <2>1
  <2>3. a # k /\ b # k
    BY <1>1, <1>4, <2>1 DEF Distinct
  <2> QED
    BY <1>4, <2>1, <2>2, <2>3 DEF After
<1>7. ASSUME NEW a, NEW b, After(a, b, s), a # k, b # k PROVE After(a, b, u)
  <2>1. PICK m \in 1..Len(s), n \in 1..Len(s) : m > n /\ s[m] = a /\ s[n] = b
    BY <1>7 DEF After
  <2>2. m # i /\ n # i
    BY <1>1, <1>7, <2>1
  <2>3. new(m) > new(n)
    BY <1>1, <1>3, <2>1, <2>2
  <2> QED
    BY <1>5, <2>1, <2>2, <2>3 DEF After
<1> QED
  BY <1>2, <1>6, <1>7

LEMMA PushOrder ==
    ASSUME NEW S, NEW s \in Seq(S), NEW x \in S
    PROVE  \A a, b : After(a, b, <<x>> \o s) <=> After(a, b, s) \/ (Occurs(a, s) /\ b = x)
<1> DEFINE t == <<x>> \o s
<1>1. /\ Len(t) = Len(s) + 1 /\ Len(s) \in Nat /\ t[1] = x
      /\ \A j \in 1..Len(s) : t[j + 1] = s[j]
  OBVIOUS
<1> HIDE DEF t
<1>2. \A n \in 1..Len(t) : n = 1 \/ (n - 1 \in 1..Len(s) /\ t[n] = s[n - 1])
  BY <1>1
<1>3. ASSUME NEW a, NEW b, After(a, b, t) PROVE After(a, b, s) \/ (Occurs(a, s) /\ b = x)
  <2>1. PICK m \in 1..Len(t), n \in 1..Len(t) : m > n /\ t[m] = a /\ t[n] = b
    BY <1>3 DEF After
  <2>2. m - 1 \in 1..Len(s) /\ s[m - 1] = a
    BY <1>1, <1>2, <2>1
  <2>3. CASE n = 1
    BY <1>1, <2>1, <2>2, <2>3 DEF Occurs
  <2>4. CASE n # 1
    <3>1. n - 1 \in 1..Len(s) /\ s[n - 1] = b /\ m - 1 > n - 1
      BY <1>2, <2>1, <2>4
    <3> QED
      BY <2>2, <3>1 DEF After
  <2> QED
    BY <2>3, <2>4
<1>4. ASSUME NEW a, NEW b, After(a, b, s) PROVE After(a, b, t)
  <2>1. PICK m \in 1..Len(s), n \in 1..Len(s) : m > n /\ s[m] = a /\ s[n] = b
    BY <1>4 DEF After
  <2>2. /\ m + 1 \in 1..Len(t) /\ n + 1 \in 1..Len(t) /\ m + 1 > n + 1
        /\ t[m + 1] = a /\ t[n + 1] = b
    BY <1>1, <2>1
  <2> QED
    BY <2>2 DEF After
<1>5. ASSUME NEW a, Occurs(a, s) PROVE After(a, x, t)
  <2>1. PICK m \in 1..Len(s) : s[m] = a
    BY <1>5 DEF Occurs
  <2>2. m + 1 \in 1..Len(t) /\ 1 \in 1..Len(t) /\ m + 1 > 1 /\ t[m + 1] = a /\ t[1] = x
    BY <1>1, <2>1
  <2> QED
    BY <2>2 DEF After
<1> QED
  BY <1>3, <1>4, <1>5 DEF t

LEMMA DropLastOrder ==
    ASSUME NEW S, NEW s \in Seq(S), Distinct(s), Len(s) > 0
    PROVE  /\ \A a, b : After(a, b, SubSeq(s, 1, Len(s) - 1))
                           <=> After(a, b, s) /\ a # s[Len(s)] /\ b # s[Len(s)]
           /\ \A x : Occurs(x, s) /\ x # s[Len(s)] =>
                        After(s[Len(s)], x, s) /\ ~After(x, s[Len(s)], s)
<1> DEFINE t == SubSeq(s, 1, Len(s) - 1)
<1>1. /\ Len(t) = Len(s) - 1 /\ Len(s) \in Nat /\ Len(s) \in 1..Len(s)
      /\ \A j \in 1..(Len(s) - 1) : t[j] = s[j]
  <2>1. Len(s) \in Nat /\ Len(t) = Len(s) - 1
    BY DropLastFacts
  <2>2. Len(s) - 1 \in Int /\ \A j \in 1..(Len(s) - 1) : s[j] \in S
    BY <2>1
  <2>3. \A j \in 1..(Len(s) - 1 - 1 + 1) : t[j] = s[1 + j - 1]
    BY <2>2, SubSeqProperties
  <2> HIDE DEF t
  <2>4. ASSUME NEW j \in 1..(Len(s) - 1) PROVE t[j] = s[j]
    <3>1. 1 + j - 1 = j /\ j \in 1..(Len(s) - 1 - 1 + 1)
      BY <2>1
    <3> QED
      BY <2>3, <3>1
  <2> QED
    BY <2>1, <2>4
<1> HIDE DEF t
<1>2. ASSUME NEW a, NEW b PROVE After(a, b, t) => After(a, b, s) /\ a # s[Len(s)] /\ b # s[Len(s)]
  BY <1>1 DEF After, Distinct
<1>3. ASSUME NEW a, NEW b PROVE After(a, b, s) /\ a # s[Len(s)] /\ b # s[Len(s)] => After(a, b, t)
  BY <1>1 DEF After
<1>4. ASSUME NEW x, Occurs(x, s), x # s[Len(s)]
      PROVE  After(s[Len(s)], x, s) /\ ~After(x, s[Len(s)], s)
  BY <1>1, <1>4 DEF After, Occurs, Distinct
<1> QED
  BY <1>2, <1>3, <1>4 DEF t

(* The same facts about the relation as a set of pairs of the keys D. *)
LEMMA OrderOn ==
    ASSUME NEW s, NEW D, Agree(s, D)
    PROVE  Order(s) \subseteq D \X D
<1> SUFFICES ASSUME NEW x \in Order(s) PROVE x \in D \X D
  OBVIOUS
<1>1. PICK a, b : x = <<a, b>> /\ After(a, b, s)
  BY OrderIff
<1>2. a \in D /\ b \in D
  BY <1>1, AfterOccurs DEF Agree
<1> QED
  BY <1>1, <1>2

LEMMA OrderUnlinked ==
    ASSUME NEW S, NEW s \in Seq(S), NEW D, Agree(s, D), NEW k \in D
    PROVE  Order(Unlink(s, k)) = Order(s) \cap ((D \ {k}) \X (D \ {k}))
<1>1. Distinct(s) /\ Occurs(k, s)
  BY DEF Agree
<1>2. \A a, b : After(a, b, Unlink(s, k)) <=> After(a, b, s) /\ a # k /\ b # k
  BY <1>1, UnlinkOrder
<1>3. ASSUME NEW x \in Order(Unlink(s, k)) PROVE x \in Order(s) \cap ((D \ {k}) \X (D \ {k}))
  <2>1. PICK a, b : x = <<a, b>> /\ After(a, b, Unlink(s, k))
    BY OrderIff
  <2>2. After(a, b, s) /\ a # k /\ b # k
    BY <1>2, <2>1
  <2>3. x \in Order(s)
    BY <2>1, <2>2, OrderIff
  <2>4. x \in D \X D
    BY <2>3, OrderOn
  <2> QED
    BY <2>1, <2>2, <2>3, <2>4
<1>4. ASSUME NEW x \in Order(s) \cap ((D \ {k}) \X (D \ {k})) PROVE x \in Order(Unlink(s, k))
  <2>1. PICK a, b : x = <<a, b>> /\ After(a, b, s)
    BY OrderIff
  <2>2. a # k /\ b # k
    BY <2>1
  <2> QED
    BY <1>2, <2>1, <2>2, OrderIff
<1> QED
  BY <1>3, <1>4

LEMMA OrderPushed ==
    ASSUME NEW S, NEW s \in Seq(S), NEW D, Agree(s, D), NEW k \in S
    PROVE  Order(<<k>> \o s) = Order(s) \cup (D \X {k})
<1>1. \A a, b : After(a, b, <<k>> \o s) <=> After(a, b, s) \/ (Occurs(a, s) /\ b = k)
  BY PushOrder
<1>2. ASSUME NEW x \in Order(<<k>> \o s) PROVE x \in Order(s) \cup (D \X {k})
  <2>1. PICK a, b : x = <<a, b>> /\ After(a, b, <<k>> \o s)
    BY OrderIff
  <2>2. CASE After(a, b, s)
    BY <2>1, <2>2, OrderIff
  <2>3. CASE Occurs(a, s) /\ b = k
    BY <2>1, <2>3 DEF Agree
  <2> QED
    BY <1>1, <2>1, <2>2, <2>3
<1>3. ASSUME NEW x \in Order(s) PROVE x \in Order(<<k>> \o s)
  <2>1. PICK a, b : x = <<a, b>> /\ After(a, b, s)
    BY OrderIff
  <2> QED
    BY <1>1, <2>1, OrderIff
<1>4. ASSUME NEW x \in D \X {k} PROVE x \in Order(<<k>> \o s)
  <2>1. PICK a \in D : x = <<a, k>>
    OBVIOUS
  <2>2. Occurs(a, s)
    BY DEF Agree
  <2> QED
    BY <1>1, <2>1, <2>2, OrderIff
<1> QED
  BY <1>2, <1>3, <1>4

LEMMA OrderDropped ==
    ASSUME NEW S, NEW s \in Seq(S), NEW D, Agree(s, D), Len(s) > 0
    PROVE  LET last == s[Len(s)]
               front == SubSeq(s, 1, Len(s) - 1)
           IN  /\ last \in D /\ front \in Seq(S) /\ Agree(front, D \ {last})
               /\ Order(front) = Order(s) \cap ((D \ {last}) \X (D \ {last}))
               /\ \A x \in D \ {last} : <<last, x>> \in Order(s) /\ <<x, last>> \notin Order(s)
<1> DEFINE last == s[Len(s)]
           front == SubSeq(s, 1, Len(s) - 1)
<1>1. /\ front \in Seq(S) /\ Distinct(front)
      /\ \A x : Occurs(x, front) <=> Occurs(x, s) /\ x # last
  BY DropLastFacts DEF Agree
<1>2. /\ \A a, b : After(a, b, front) <=> After(a, b, s) /\ a # last /\ b # last
      /\ \A x : Occurs(x, s) /\ x # last => After(last, x, s) /\ ~After(x, last, s)
  BY DropLastOrder DEF Agree
<1>3. last \in D
  <2>1. Len(s) \in 1..Len(s)
    OBVIOUS
  <2>2. Occurs(last, s)
    BY <2>1 DEF Occurs
  <2> QED
    BY <2>2 DEF Agree
<1> HIDE DEF last, front
<1>4. Agree(front, D \ {last})
  BY <1>1 DEF Agree
<1>5. ASSUME NEW x \in Order(front) PROVE x \in Order(s) \cap ((D \ {last}) \X (D \ {last}))
  <2>1. PICK a, b : x = <<a, b>> /\ After(a, b, front)
    BY OrderIff
  <2>2. x \in Order(s)
    BY <1>2, <2>1, OrderIff
  <2> QED
    BY <1>4, <2>2, OrderOn
<1>6. ASSUME NEW x \in Order(s) \cap ((D \ {last}) \X (D \ {last})) PROVE x \in Order(front)
  <2>1. PICK a, b : x = <<a, b>> /\ After(a, b, s)
    BY OrderIff
  <2>2. a # last /\ b # last
    BY <2>1
  <2> QED
    BY <1>2, <2>1, <2>2, OrderIff
<1>7. ASSUME NEW x \in D \ {last} PROVE <<last, x>> \in Order(s) /\ <<x, last>> \notin Order(s)
  <2>1. Occurs(x, s) /\ x # last
    BY DEF Agree
  <2>2. After(last, x, s) /\ ~After(x, last, s)
    BY <1>2, <2>1
  <2>3. <<last, x>> \in Order(s)
    BY <2>2, OrderIff
  <2>4. \A a, b : <<x, last>> = <<a, b>> => a = x /\ b = last
    OBVIOUS
  <2> QED
    BY <2>2, <2>3, <2>4, OrderIff
<1>8. Order(front) = Order(s) \cap ((D \ {last}) \X (D \ {last}))
  BY <1>5, <1>6
<1> QED
  BY <1>1, <1>3, <1>4, <1>7, <1>8 DEF last, front

(* As many keys as list elements. *)
LEMMA AgreeCardinality ==
    ASSUME NEW S, NEW s \in Seq(S), NEW D, Agree(s, D)
    PROVE  Cardinality(D) = Len(s)
<1>1. /\ \A i \in 1..Len(s) : s[i] \in D
      /\ \A k \in D : \E i \in 1..Len(s) : s[i] = k
      /\ \A i, j \in 1..Len(s) : s[i] = s[j] => i = j
  BY AgreeIff
<1>2. Len(s) \in Nat /\ s \in [1..Len(s) -> D]
  BY <1>1, LenProperties
<1>3. s \in Bijection(1..Len(s), D)
  BY <1>1, <1>2 DEF Bijection, Injection, Surjection, IsInjective
<1> QED
  BY <1>2, <1>3, FS_CountingElements DEF ExistsBijection

-----------------------------------------------------------------------------
(* What the refinement needs besides Inv: the map is a function, and a     *)
(* disabled cache has no room.                                             *)
MapInv ==
    /\ items = [k \in DOMAIN items |-> items[k]]
    /\ ~cache.enabled => cache.maxSize = 0

LEMMA MapInvInit == Init => MapInv
<1> SUFFICES ASSUME Init PROVE MapInv
  OBVIOUS
<1>1. PICK cfg \in Configs : cache = NewCache(cfg)
  BY DEF Init
<1>2. ~cache.enabled => cache.maxSize = 0
  BY <1>1 DEF NewCache
<1> QED
  BY <1>2 DEF Init, MapInv

LEMMA MapInvStep == MapInv /\ [Next]_vars => MapInv'
<1> SUFFICES ASSUME MapInv, [Next]_vars PROVE MapInv'
  OBVIOUS
<1>1. cache' = cache
  BY DEF Next, vars, Get, GetMiss, GetExpired, GetHit, Tick, SetBegin,
         SetLocked, SetOverwrite, SetInsert, SetEvict
<1>2. \/ items' = items
      \/ \E k : items' = Without(items, k)
      \/ \E f, k, e : items' = With(f, k, e)
  BY DEF Next, vars, Get, GetMiss, GetExpired, GetHit, Tick, SetBegin,
         SetLocked, SetOverwrite, SetInsert, SetEvict
<1>3. items' = [k \in DOMAIN items' |-> items'[k]]
  <2>1. CASE items' = items
    BY <2>1 DEF MapInv
  <2>2. ASSUME NEW k, items' = Without(items, k) PROVE items' = [j \in DOMAIN items' |-> items'[j]]
    BY <2>2 DEF Without
  <2>3. ASSUME NEW f, NEW k, NEW e, items' = With(f, k, e)
        PROVE  items' = [j \in DOMAIN items' |-> items'[j]]
    BY <2>3 DEF With
  <2> QED
    BY <1>2, <2>1, <2>2, <2>3
<1> QED
  BY <1>1, <1>3 DEF MapInv

(* The operator that CacheSpec takes from FiniteSets is the same one. *)
LEMMA SameCardinality == \A S : Abstract!Cardinality(S) = Cardinality(S)
  BY DEF Cardinality, Abstract!Cardinality, IsFiniteSet, Abstract!IsFiniteSet

RInv == Inv /\ MapInv

LEMMA RefinesInit == Init => Abstract!Init
<1> SUFFICES ASSUME Init PROVE Abstract!Init
  OBVIOUS
<1>1. cache.maxSize \in Nat
  BY StructureInit DEF Structure, TypeOK
<1>2. Order(evict) = {}
  BY DEF Init, Order
<1>3. items = [k \in {} |-> Abstract!Miss]
  BY DEF Init
<1>4. now = 0 /\ ret = Abstract!Miss
  BY DEF Init, Miss, Abstract!Miss
<1> QED
  BY <1>1, <1>2, <1>3, <1>4 DEF Abstract!Init, Order

(* What the invariant says of map and list, in the terms of the lemmas. *)
LEMMA RFacts ==
    ASSUME RInv
    PROVE  /\ evict \in Seq(Keys) /\ Agree(evict, DOMAIN items) /\ DOMAIN items \subseteq Keys
           /\ Order(evict) \subseteq (DOMAIN items) \X (DOMAIN items)
           /\ Cardinality(DOMAIN items) = Len(evict) /\ Len(evict) \in Nat
           /\ cache.maxSize \in Nat /\ Len(evict) <= cache.maxSize
           /\ items = [k \in DOMAIN items |-> items[k]]
           /\ cache.enabled => cache.maxSize > 0
           /\ ~cache.enabled => DOMAIN items = {}
<1>1. /\ evict \in Seq(Keys) /\ Agree(evict, DOMAIN items) /\ DOMAIN items \subseteq Keys
      /\ Len(evict) \in Nat /\ cache.maxSize \in Nat /\ Len(evict) <= cache.maxSize
      /\ items = [k \in DOMAIN items |-> items[k]]
      /\ cache.enabled => cache.maxSize >= 1
  BY DEF RInv, MapInv, Inv, Structure, TypeOK, Configured
<1>2. cache.enabled => cache.maxSize > 0
  BY <1>1
<1>3. Order(evict) \subseteq (DOMAIN items) \X (DOMAIN items)
  BY <1>1, OrderOn
<1>4. Cardinality(DOMAIN items) = Len(evict)
  BY <1>1, AgreeCardinality
<1>5. ~cache.enabled => DOMAIN items = {}
  <2> SUFFICES ASSUME ~cache.enabled PROVE DOMAIN items = {}
    OBVIOUS
  <2>1. Len(evict) = 0
    BY <1>1 DEF RInv, MapInv
  <2>2. \A k : ~Occurs(k, evict)
    BY <2>1 DEF Occurs
  <2> QED
    BY <1>1, <2>2 DEF Agree
<1> QED
  BY <1>1, <1>2, <1>3, <1>4, <1>5

(* The list with k moved or put to its front, against Touched. *)
LEMMA TouchedMoved ==
    ASSUME RInv, NEW k \in DOMAIN items
    PROVE  Order(MoveToFront(evict, k))
             = (Order(evict) \cap ((DOMAIN items \ {k}) \X (DOMAIN items \ {k})))
               \cup ((DOMAIN items \ {k}) \X {k})
<1> DEFINE D == DOMAIN items
           u == Unlink(evict, k)
<1>1. evict \in Seq(Keys) /\ Agree(evict, D) /\ k \in Keys
  BY RFacts
<1>2. Order(u) = Order(evict) \cap ((D \ {k}) \X (D \ {k}))
  BY <1>1, OrderUnlinked
<1>3. u \in Seq(Keys) /\ Agree(u, D \ {k})
  BY <1>1, UnlinkFacts DEF Agree
<1>4. Order(<<k>> \o u) = Order(u) \cup ((D \ {k}) \X {k})
  BY <1>1, <1>3, OrderPushed
<1> QED
  BY <1>2, <1>4 DEF MoveToFront

LEMMA RefinesMiss ==
    ASSUME RInv, NEW k \in Keys, GetMiss(k)
    PROVE  Abstract!LookupMiss(k)
<1>1. k \notin DOMAIN items /\ DOMAIN items \ {k} = DOMAIN items
  BY RFacts DEF GetMiss
<1>2. items' = [j \in DOMAIN items \ {k} |-> items[j]]
  BY <1>1, RFacts DEF GetMiss
<1>3. Order(evict') = Order(evict) \cap ((DOMAIN items \ {k}) \X (DOMAIN items \ {k}))
  BY <1>1, RFacts DEF GetMiss
<1>4. ret' = Abstract!Miss /\ UNCHANGED <<now, cache>>
  BY DEF GetMiss, Miss, Abstract!Miss
<1>5. ~Abstract!Live(k)
  BY <1>1 DEF Abstract!Live
<1> QED
  BY <1>2, <1>3, <1>4, <1>5 DEF Abstract!LookupMiss, Abstract!Only, Order

LEMMA RefinesExpired ==
    ASSUME RInv, NEW k \in Keys, GetExpired(k)
    PROVE  Abstract!LookupMiss(k)
<1>1. /\ k \in DOMAIN items /\ now > items[k].expireAt /\ now \in Nat /\ items[k].expireAt \in Nat
  BY DEF GetExpired, RInv, Inv, Structure, TypeOK, Entries
<1>2. items' = [j \in DOMAIN items \ {k} |-> items[j]]
  BY DEF GetExpired, Without
<1>3. Order(evict') = Order(evict) \cap ((DOMAIN items \ {k}) \X (DOMAIN items \ {k}))
  BY <1>1, RFacts, OrderUnlinked DEF GetExpired
<1>4. ret' = Abstract!Miss /\ UNCHANGED <<now, cache>>
  BY DEF GetExpired, Miss, Abstract!Miss
<1>5. ~Abstract!Live(k)
  BY <1>1 DEF Abstract!Live
<1> QED
  BY <1>2, <1>3, <1>4, <1>5 DEF Abstract!LookupMiss, Abstract!Only, Order

LEMMA RefinesHit ==
    ASSUME RInv, NEW k \in Keys, GetHit(k)
    PROVE  Abstract!LookupHit(k)
<1>1. /\ k \in DOMAIN items /\ now <= items[k].expireAt /\ now \in Nat /\ items[k] \in Entries
  BY DEF GetHit, RInv, Inv, Structure, TypeOK
<1>2. /\ remainingTTL(items[k]) >= 1
      /\ remainingTTL(items[k]) > 1 => now + Second * remainingTTL(items[k]) <= items[k].expireAt
  BY <1>1, RemainingFacts
<1>3. /\ ret'.hit /\ ret'.key = k /\ ret'.msg = items[k].msg
      /\ ret'.ttl = remainingTTL(items[k])
  BY DEF GetHit, Hit
<1>4. Order(evict') = (Order(evict) \cap ((DOMAIN items \ {k}) \X (DOMAIN items \ {k})))
                      \cup ((DOMAIN items \ {k}) \X {k})
  BY <1>1, TouchedMoved DEF GetHit
<1>5. Abstract!Live(k) /\ UNCHANGED <<now, cache, items>>
  BY <1>1 DEF Abstract!Live, GetHit
<1> QED
  BY <1>2, <1>3, <1>4, <1>5 DEF Abstract!LookupHit, Abstract!Touched, Abstract!Only, Order

LEMMA RefinesOverwrite ==
    ASSUME RInv, NEW p \in Procs, NEW k \in Keys, k = setting[p].key, SetOverwrite(p)
    PROVE  Abstract!Put(k)
<1> DEFINE D == DOMAIN items
<1>1. k \in D /\ D \cup {k} = D
  BY DEF SetOverwrite
<1>2. cache.maxSize > 0
  BY RFacts DEF RInv, Inv, AllHonest, SetOverwrite
<1>3. DOMAIN items' = D \cup {k} /\ \A j \in D \ {k} : items'[j] = items[j]
  BY DEF SetOverwrite, With
<1>4. Order(evict') = (Order(evict) \cap ((D \ {k}) \X (D \ {k}))) \cup ((D \ {k}) \X {k})
  BY <1>1, TouchedMoved DEF SetOverwrite
<1>5. Abstract!Victims(k) = {} /\ UNCHANGED <<now, cache, ret>>
  BY <1>1 DEF Abstract!Victims, SetOverwrite
<1> HIDE DEF D
<1>6. D \ Abstract!Victims(k) = D
  BY <1>5
<1> QED
  BY <1>1, <1>2, <1>3, <1>4, <1>5, <1>6 DEF Abstract!Put, Abstract!Touched, Abstract!Only, Order, D

LEMMA RefinesInsert ==
    ASSUME RInv, NEW p \in Procs, NEW k \in Keys, k = setting[p].key, SetInsert(p)
    PROVE  Abstract!Put(k)
<1> DEFINE D == DOMAIN items
<1>1. k \notin D /\ k \in Keys /\ (D \cup {k}) \ {k} = D
  BY PendingFacts DEF SetInsert, RInv, Inv, Structure
<1>2. cache.maxSize > 0
  BY RFacts DEF RInv, Inv, AllHonest, SetInsert
<1>3. DOMAIN items' = D \cup {k} /\ \A j \in D \ {k} : items'[j] = items[j]
  BY DEF SetInsert, With
<1>4. Order(evict') = Order(evict) \cup (D \X {k})
  BY <1>1, RFacts, OrderPushed DEF SetInsert
<1>5. Order(evict) = Order(evict) \cap (D \X D)
  BY RFacts
<1>6. ~(Cardinality(D) >= cache.maxSize)
  BY RFacts DEF SetInsert
<1>7. Abstract!Victims(k) = {} /\ UNCHANGED <<now, cache, ret>>
  <2>1. Abstract!Victims(k) = {}
    BY <1>6, SameCardinality DEF Abstract!Victims
  <2> QED
    BY <2>1 DEF SetInsert
<1> HIDE DEF D
<1>8. D \ Abstract!Victims(k) = D
  BY <1>7
<1> QED
  BY <1>1, <1>2, <1>3, <1>4, <1>5, <1>7, <1>8
     DEF Abstract!Put, Abstract!Touched, Abstract!Only, Order, D

LEMMA RefinesEvict ==
    ASSUME RInv, NEW p \in Procs, NEW k \in Keys, k = setting[p].key, SetEvict(p)
    PROVE  Abstract!Put(k)
<1> DEFINE D == DOMAIN items
           last == evict[Len(evict)]
           front == SubSeq(evict, 1, Len(evict) - 1)
           kept == D \ {last}
<1>1. k \notin D /\ k \in Keys /\ (kept \cup {k}) \ {k} = kept
  BY PendingFacts DEF SetEvict, RInv, Inv, Structure
<1>2. cache.maxSize > 0 /\ Len(evict) > 0 /\ Cardinality(D) >= cache.maxSize
  <2>1. cache.maxSize > 0
    BY RFacts DEF RInv, Inv, AllHonest, SetEvict
  <2> QED
    BY <2>1, RFacts DEF SetEvict
<1>3. /\ last \in D /\ front \in Seq(Keys) /\ Agree(front, kept)
      /\ Order(front) = Order(evict) \cap (kept \X kept)
      /\ \A x \in kept : <<last, x>> \in Order(evict) /\ <<x, last>> \notin Order(evict)
  BY <1>2, RFacts, OrderDropped
<1>4. evict' = <<k>> \o front /\ items' = With(Without(items, last), k, setting[p].entry)
  BY DEF SetEvict
<1>5. UNCHANGED <<now, cache, ret>>
  BY DEF SetEvict
<1> HIDE DEF front, last
<1>6. Order(evict') = Order(front) \cup (kept \X {k})
  BY <1>1, <1>3, <1>4, OrderPushed
<1>7. DOMAIN items' = kept \cup {k} /\ \A j \in kept \ {k} : items'[j] = items[j]
  BY <1>4 DEF With, Without
<1>8. \A v : Abstract!Oldest(v) <=> v = last
  <2>1. Abstract!Oldest(last)
    BY <1>3 DEF Abstract!Oldest, Order
  <2>2. ASSUME NEW v, Abstract!Oldest(v), v # last PROVE FALSE
    <3>1. v \in D /\ \A u \in D \ {v} : <<v, u>> \in Order(evict)
      BY <2>2 DEF Abstract!Oldest, Order
    <3> QED
      BY <1>3, <2>2, <3>1
  <2> QED
    BY <2>1, <2>2
<1>9. Abstract!Victims(k) = {last}
  <2>1. Abstract!Victims(k) = {v \in D : Abstract!Oldest(v)}
    BY <1>1, <1>2, SameCardinality DEF Abstract!Victims
  <2>2. {v \in D : Abstract!Oldest(v)} = {last}
    BY <1>3, <1>8
  <2> QED
    BY <2>1, <2>2
<1>10. D \ Abstract!Victims(k) = kept
  BY <1>9
<1>11. Order(evict') = (Order(evict) \cap (kept \X kept)) \cup (kept \X {k})
  BY <1>3, <1>6
<1> HIDE DEF kept, D
<1> QED
  BY <1>1, <1>2, <1>5, <1>7, <1>10, <1>11
     DEF Abstract!Put, Abstract!Touched, Abstract!Only, Order, D

LEMMA RefinesStep == RInv /\ [Next]_vars => [Abstract!Next]_(Abstract!vars)
<1> SUFFICES ASSUME RInv, [Next]_vars PROVE [Abstract!Next]_(Abstract!vars)
  OBVIOUS
<1>1. CASE UNCHANGED vars
  BY <1>1 DEF vars, Abstract!vars
<1>2. CASE Tick
  BY <1>2 DEF Tick, Abstract!Tick, Abstract!Next
<1>3. ASSUME NEW k \in Keys, Get(k) PROVE Abstract!Next
  BY <1>3, RefinesMiss, RefinesExpired, RefinesHit DEF Get, Abstract!Next
<1>4. ASSUME NEW p \in Procs, NEW k \in Keys, NEW msg \in Responses, SetBegin(p, k, msg)
      PROVE  UNCHANGED Abstract!vars
  BY <1>4 DEF SetBegin, Abstract!vars
<1>5. ASSUME NEW p \in Procs, SetLocked(p) PROVE Abstract!Next
  <2>1. PICK k \in Keys : k = setting[p].key
    BY <1>5, PendingFacts DEF RInv, Inv, Structure, SetLocked, SetOverwrite, SetInsert, SetEvict
  <2> QED
    <3>1. Abstract!Put(k)
      BY <1>5, <2>1, RefinesOverwrite, RefinesInsert, RefinesEvict DEF SetLocked
    <3> QED
      BY <3>1 DEF Abstract!Next
<1> QED
  BY <1>1, <1>2, <1>3, <1>4, <1>5 DEF Next

(* The cache implements the abstract store for every capacity, key set and *)
(* number of goroutines: evictions hit the least recently used key, and    *)
(* nothing but an eviction, an expiry or a Set alters an entry.            *)
THEOREM CacheRefinement == Spec => ImplementsCacheSpec
<1>1. MapInv /\ [Next]_vars => MapInv'
  BY MapInvStep
<1>2. Spec => []MapInv
  BY <1>1, MapInvInit, PTL DEF Spec
<1>3. Inv /\ MapInv /\ [Next]_vars => [Abstract!Next]_(Abstract!vars)
  BY RefinesStep DEF RInv
<1> QED
  BY <1>2, <1>3, RefinesInit, Invariance, PTL DEF Spec, ImplementsCacheSpec, Abstract!Spec
=============================================================================
