------------------------------ MODULE CacheSpec ------------------------------
(***************************************************************************)
(* What the response cache of internal/dns/cache.go promises its caller,   *)
(* without its map, its list and its lock: a bounded store in which every  *)
(* operation is atomic, whose eviction victim is the least recently used   *)
(* key, and which answers with a positive TTL that does not outrun the     *)
(* entry.  Recency is kept as a relation, not as a list.                   *)
(***************************************************************************)
EXTENDS Integers, FiniteSets

CONSTANTS
    Keys,       \* normalised questions
    Second      \* clock ticks in one second

VARIABLES
    now,        \* the clock
    capacity,   \* the number of entries the store may hold, 0 if disabled
    store,      \* the entries by key: [msg, expireAt, ...]
    older,      \* <<j, k>> : j was used less recently than k
    answer      \* what the last lookup returned

vars == <<now, capacity, store, older, answer>>

Miss == [hit |-> FALSE]

Init ==
    /\ now = 0
    /\ capacity \in Nat
    /\ store = [k \in {} |-> Miss]
    /\ older = {}
    /\ answer = Miss

Only(S) == older \cap (S \X S)

(* The recency relation after k became the most recent key of S. *)
Touched(k, S) == Only(S \ {k}) \cup ((S \ {k}) \X {k})

Live(k) == k \in DOMAIN store /\ now <= store[k].expireAt

Oldest(v) == v \in DOMAIN store /\ \A u \in DOMAIN store \ {v} : <<v, u>> \in older

LookupHit(k) ==
    /\ Live(k)
    /\ answer'.hit
    /\ answer'.key = k
    /\ answer'.msg = store[k].msg
    /\ answer'.ttl >= 1
    /\ answer'.ttl > 1 => now + Second * answer'.ttl <= store[k].expireAt
    /\ older' = Touched(k, DOMAIN store)
    /\ UNCHANGED <<now, capacity, store>>

LookupMiss(k) ==
    /\ ~Live(k)
    /\ answer' = Miss
    /\ store' = [j \in DOMAIN store \ {k} |-> store[j]]
    /\ older' = Only(DOMAIN store \ {k})
    /\ UNCHANGED <<now, capacity>>

(* The keys a new key pushes out: none, or the one used longest ago. *)
Victims(k) == IF k \notin DOMAIN store /\ Cardinality(DOMAIN store) >= capacity
              THEN {v \in DOMAIN store : Oldest(v)}
              ELSE {}

Put(k) ==
    LET kept == DOMAIN store \ Victims(k) IN
    /\ capacity > 0
    /\ DOMAIN store' = kept \cup {k}
    /\ \A j \in kept \ {k} : store'[j] = store[j]
    /\ older' = Touched(k, kept \cup {k})
    /\ UNCHANGED <<now, capacity, answer>>

Tick == now' = now + 1 /\ UNCHANGED <<capacity, store, older, answer>>

Next ==
    \/ \E k \in Keys : LookupHit(k) \/ LookupMiss(k) \/ Put(k)
    \/ Tick

Spec == Init /\ [][Next]_vars
=============================================================================
