------------------------------- MODULE LRUCache ------------------------------
(***************************************************************************)
(* The response cache, internal/dns/cache.go: a map from normalised        *)
(* questions to entries and a recency list, both under one mutex.  Get and *)
(* the locked half of Set are single actions; Set computes the expiry      *)
(* BEFORE it takes the mutex, so a Set in progress is a record of its own  *)
(* and may be overtaken by any number of other operations.                 *)
(*                                                                         *)
(* Time is counted in ticks, `Second' of them to the second, so that the   *)
(* truncation of durations to whole seconds is visible.                    *)
(***************************************************************************)
EXTENDS Integers, Sequences, FiniteSets, SequencesExt

CONSTANTS
    Keys,        \* results of makeKey: name in lower case, type, class
    Responses,   \* upstream responses: [rcode, truncated, ttls]
    Procs,       \* goroutines that may be inside Set at the same time
    Configs,     \* cache sections: [enabled, size, minTTL, maxTTL], durations in ticks
    Second,      \* ticks in one second
    MaxTime      \* bound on the clock

ASSUME CacheAssumption ==
    /\ Second \in Nat \ {0}
    /\ MaxTime \in Nat
    /\ Configs \subseteq [enabled : BOOLEAN, size : Int, minTTL : Int, maxTTL : Int]
    /\ Responses \subseteq [rcode : STRING, truncated : BOOLEAN, ttls : SUBSET Nat]

VARIABLES
    cache,   \* the configuration fields of the Cache struct; never change
    now,     \* the clock
    items,   \* the map, from key to the entry its list element holds
    evict,   \* the list, most recently used first
    setting, \* what each goroutine inside Set carries to the lock, or Idle
    ret      \* what the last Get returned

vars == <<cache, now, items, evict, setting, ret>>

Idle == [idle |-> TRUE]

-----------------------------------------------------------------------------
(* NewCache: a disabled cache has the zero value of every field. *)
NewCache(cfg) ==
    IF ~cfg.enabled \/ cfg.size <= 0
    THEN [enabled |-> FALSE, maxSize |-> 0, minTTL |-> 0, maxTTL |-> 0]
    ELSE [enabled |-> TRUE,
          maxSize |-> cfg.size,
          minTTL  |-> IF cfg.minTTL <= 0 THEN 60 * Second ELSE cfg.minTTL,
          maxTTL  |-> IF cfg.maxTTL <= 0 THEN 86400 * Second ELSE cfg.maxTTL]

(* Mutant: the largest TTL instead of the smallest. *)
MutantMaxTTL(msg) ==
    IF msg.ttls = {} THEN 60 ELSE CHOOSE t \in msg.ttls : \A u \in msg.ttls : t >= u

(* The smallest TTL among the records that are not OPT; 60 if there is none. *)
calculateMinTTL(msg) ==
    IF msg.ttls = {} THEN 60 ELSE CHOOSE t \in msg.ttls : \A u \in msg.ttls : t <= u

(* Mutant: truncated responses are not refused. *)
MutantCacheTruncated(msg) ==
    msg.rcode \in {"NOERROR", "NXDOMAIN"} /\ calculateMinTTL(msg) # 0

Cacheable(msg) ==
    /\ msg.rcode \in {"NOERROR", "NXDOMAIN"}
    /\ ~msg.truncated
    /\ calculateMinTTL(msg) # 0

MinSec(c) == c.minTTL \div Second
MaxSec(c) == c.maxTTL \div Second

(* min_ttl first, then max_ttl, each truncated to whole seconds; a max_ttl *)
(* below one second counts as no maximum.                                  *)
ClampTTL(c, ttl) ==
    LET raised == IF ttl < MinSec(c) THEN MinSec(c) ELSE ttl
    IN  IF MaxSec(c) > 0 /\ raised > MaxSec(c) THEN MaxSec(c) ELSE raised

(* container/list, on the list of keys. *)
Unlink(s, k) == RemoveAt(s, CHOOSE i \in 1..Len(s) : s[i] = k)
MoveToFront(s, k) == <<k>> \o Unlink(s, k)

Without(f, k) == [j \in DOMAIN f \ {k} |-> f[j]]
With(f, k, e) == [j \in DOMAIN f \cup {k} |-> IF j = k THEN e ELSE f[j]]

(* Whole seconds until e expires, at least one. *)
remainingTTL(e) ==
    LET secs == (e.expireAt - now) \div Second
    IN  IF secs = 0 THEN 1 ELSE secs

Miss == [hit |-> FALSE]

-----------------------------------------------------------------------------
Init ==
    /\ \E cfg \in Configs : cache = NewCache(cfg)
    /\ now = 0
    /\ items = [k \in {} |-> Idle]
    /\ evict = << >>
    /\ setting = [p \in Procs |-> Idle]
    /\ ret = Miss

Tick ==
    /\ now < MaxTime
    /\ now' = now + 1
    /\ UNCHANGED <<cache, items, evict, setting, ret>>

(* Get, not found (or the cache is disabled). *)
GetMiss(k) ==
    /\ ~cache.enabled \/ k \notin DOMAIN items
    /\ ret' = Miss
    /\ UNCHANGED <<cache, now, items, evict, setting>>

(* Mutant: the expired entry is deleted from the map but not unlinked. *)
MutantExpiredNotUnlinked(k) ==
    /\ cache.enabled /\ k \in DOMAIN items /\ now > items[k].expireAt
    /\ items' = Without(items, k)
    /\ ret' = Miss
    /\ UNCHANGED <<cache, now, evict, setting>>

(* Get, found but past its expiry: unlinked and deleted on the way out. *)
GetExpired(k) ==
    /\ cache.enabled
    /\ k \in DOMAIN items
    /\ now > items[k].expireAt
    /\ evict' = Unlink(evict, k)
    /\ items' = Without(items, k)
    /\ ret' = Miss
    /\ UNCHANGED <<cache, now, setting>>

(* A copy of the stored message with every TTL set to what remains.  `age' *)
(* is the time since it arrived from upstream, for the properties.         *)
Hit(k) == [hit |-> TRUE, key |-> k, msg |-> items[k].msg, ttl |-> remainingTTL(items[k]),
           age |-> now - items[k].receivedAt]

(* Mutant: the expiry is not looked at. *)
MutantHitExpired(k) ==
    /\ cache.enabled /\ k \in DOMAIN items
    /\ evict' = MoveToFront(evict, k)
    /\ ret' = Hit(k)
    /\ UNCHANGED <<cache, now, items, setting>>

(* Mutant: a hit does not move the element to the front. *)
MutantHitNotMoved(k) ==
    /\ cache.enabled /\ k \in DOMAIN items /\ now <= items[k].expireAt
    /\ ret' = Hit(k)
    /\ UNCHANGED <<cache, now, items, evict, setting>>

(* Get, found and still fresh. *)
GetHit(k) ==
    /\ cache.enabled
    /\ k \in DOMAIN items
    /\ now <= items[k].expireAt
    /\ evict' = MoveToFront(evict, k)
    /\ ret' = Hit(k)
    /\ UNCHANGED <<cache, now, items, setting>>

(* Set up to the lock: the early returns, the clamp and the expiry.        *)
SetBegin(p, k, msg) ==
    /\ setting[p] = Idle
    /\ cache.enabled
    /\ Cacheable(msg)
    /\ LET ttl == ClampTTL(cache, calculateMinTTL(msg)) IN
       setting' = [setting EXCEPT ![p] =
          [idle |-> FALSE, key |-> k,
           entry |-> [msg |-> msg, initialTTL |-> ttl,
                      expireAt |-> now + ttl * Second, receivedAt |-> now]]]
    /\ UNCHANGED <<cache, now, items, evict, ret>>

(* Set, key present: overwrite the entry in place. *)
SetOverwrite(p) ==
    /\ setting[p] # Idle
    /\ LET k == setting[p].key IN
       /\ k \in DOMAIN items
       /\ evict' = MoveToFront(evict, k)
       /\ items' = With(items, k, setting[p].entry)
    /\ setting' = [setting EXCEPT ![p] = Idle]
    /\ UNCHANGED <<cache, now, ret>>

(* Set, new key and room for it. *)
SetInsert(p) ==
    /\ setting[p] # Idle
    /\ LET k == setting[p].key IN
       /\ k \notin DOMAIN items
       /\ Len(evict) < cache.maxSize
       /\ evict' = <<k>> \o evict
       /\ items' = With(items, k, setting[p].entry)
    /\ setting' = [setting EXCEPT ![p] = Idle]
    /\ UNCHANGED <<cache, now, ret>>

(* Set, new key and a full list: removeOldest drops the back element first. *)
SetEvict(p) ==
    /\ setting[p] # Idle
    /\ LET k == setting[p].key IN
       /\ k \notin DOMAIN items
       /\ Len(evict) >= cache.maxSize
       /\ evict' = <<k>> \o SubSeq(evict, 1, Len(evict) - 1)
       /\ items' = With(Without(items, evict[Len(evict)]), k, setting[p].entry)
    /\ setting' = [setting EXCEPT ![p] = Idle]
    /\ UNCHANGED <<cache, now, ret>>

Get(k) == GetMiss(k) \/ GetExpired(k) \/ GetHit(k)
SetLocked(p) == SetOverwrite(p) \/ SetInsert(p) \/ SetEvict(p)

Next ==
    \/ Tick
    \/ \E k \in Keys : Get(k)
    \/ \E p \in Procs, k \in Keys, msg \in Responses : SetBegin(p, k, msg)
    \/ \E p \in Procs : SetLocked(p)

Spec == Init /\ [][Next]_vars
-----------------------------------------------------------------------------
Entries == [msg : Responses, initialTTL : Nat, expireAt : Nat, receivedAt : Nat]

Pending == [idle : {FALSE}, key : Keys, entry : Entries]

Answers == [hit : {TRUE}, key : Keys, msg : Responses, ttl : Nat, age : Nat]

(* The type of every variable. *)
TypeOK ==
    /\ cache \in [enabled : BOOLEAN, maxSize : Nat, minTTL : Nat, maxTTL : Nat]
    /\ now \in Nat
    /\ DOMAIN items \subseteq Keys
    /\ \A k \in DOMAIN items : items[k] \in Entries
    /\ evict \in Seq(Keys)
    /\ setting \in [Procs -> Pending \cup {Idle}]
    /\ ret \in Answers \cup {Miss}

(* The map and the recency list always hold the same keys, the list holds  *)
(* each of them once, and there are never more than maxSize: Get and Set   *)
(* update the two structures separately, and an element left in one of     *)
(* them only would leak or make a later eviction delete the wrong key.     *)
ListMapAgree ==
    /\ \A i \in 1..Len(evict) : evict[i] \in DOMAIN items
    /\ \A k \in DOMAIN items : \E i \in 1..Len(evict) : evict[i] = k
    /\ \A i, j \in 1..Len(evict) : evict[i] = evict[j] => i = j
    /\ Len(evict) <= cache.maxSize

AtLeastMin(c, t) == IF t < MinSec(c) THEN MinSec(c) ELSE t

(* However long a Set waits for the lock and whatever overtakes it, a      *)
(* cached answer is served no later than the TTL of each of its records    *)
(* (raised to min_ttl) after it arrived from upstream, and never later     *)
(* than max_ttl.  The TTL it is served with is positive, and a TTL above   *)
(* the floor of one second never lets the client keep it past that moment. *)
ServedWithin(life) ==
    /\ ret.age <= Second * life
    /\ ret.ttl > 1 => ret.age + Second * ret.ttl <= Second * life

ServedWithinTTL ==
    ret.hit =>
        /\ ret.ttl >= 1
        /\ \A t \in ret.msg.ttls : ServedWithin(AtLeastMin(cache, t))
        /\ MaxSec(cache) > 0 => ServedWithin(MaxSec(cache))

(* What a Get may return is a clean answer: no server failure, nothing     *)
(* truncated and no answer with a record of TTL 0 is ever replayed.        *)
OnlyCleanServed ==
    ret.hit => /\ ret.msg.rcode \in {"NOERROR", "NXDOMAIN"}
               /\ ~ret.msg.truncated
               /\ 0 \notin ret.msg.ttls

Abstract == INSTANCE CacheSpec WITH
    capacity <- cache.maxSize,
    store    <- items,
    older    <- {<<evict[ij[1]], evict[ij[2]]>> :
                   ij \in {ij \in (1..Len(evict)) \X (1..Len(evict)) : ij[1] > ij[2]}},
    answer   <- ret

(* The map and the list together implement the abstract store: every       *)
(* eviction hits the least recently used key, a hit or an overwrite makes  *)
(* a key the most recent, an expired key is a miss, and nothing else ever  *)
(* drops or alters an entry.                                               *)
ImplementsCacheSpec == Abstract!Spec
=============================================================================
