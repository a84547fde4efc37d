------------------------------- MODULE Handler -------------------------------
(***************************************************************************)
(* ServeDNS of internal/dns/handler.go: one goroutine per query, running   *)
(* the filter, the cache, the upstream and the vetting of the answer one   *)
(* after the other, while other queries fill the cache and a reload swaps  *)
(* the rules between any two of its steps.                                 *)
(*                                                                         *)
(* The components are those of the other modules, seen from outside: the   *)
(* published rules decide a verdict in one step (FilterEngine), Get and    *)
(* Set are atomic and an entry goes away sooner or later (LRUCache), an    *)
(* exchange with the upstream pool ends in an answer or an error           *)
(* (Forwarder).  logQuery's push to the ring, which ServeDNS never reads,  *)
(* is QueryLog's.                                                          *)
(***************************************************************************)
EXTENDS Integers, Sequences

CONSTANTS
    Clients,     \* queries in progress; the request Id is the client itself
    Names,       \* domain names in lower case
    Casings,     \* ways a client may write a name
    Types,       \* question types: "A", "AAAA" or another
    Answers,     \* upstream answers: [rcode, aliases, private, cacheable], where
                 \* private is FilterDNSRebinding's verdict on the answer section
    Whitelist,   \* names that are never blocked
    Blacklists,  \* blocked names of each snapshot that may be published
    LocalNames,  \* names IsAllowedLocalDomain accepts
    Configs      \* [uncloak, rebind, mode] settings

ASSUME HandlerAssumption ==
    /\ Answers \subseteq [rcode : STRING, aliases : Seq(Names), private : BOOLEAN,
                          cacheable : BOOLEAN]
    /\ Configs \subseteq [uncloak : BOOLEAN, rebind : BOOLEAN, mode : STRING]
    /\ LocalNames \subseteq Names

VARIABLES
    cfg,      \* the configuration, never changes
    rules,    \* blacklist of the published snapshot
    store,    \* the cache: question key -> message
    pc,       \* per client: the step of ServeDNS it is at
    req,      \* per client: the question
    resp,     \* per client: the upstream response being vetted
    todo,     \* per client: CNAME targets still to be checked
    reply,    \* per client: what was written to it last
    clear     \* history, per client: names not blocked at some moment of its query

vars == <<cfg, rules, store, pc, req, resp, todo, reply, clear>>

-----------------------------------------------------------------------------
(* Engine.IsBlocked on a snapshot. *)
Blocked(black) == black \ Whitelist

Questions == [name : Names, casing : Casings, type : Types]

(* makeKey: the casing is not part of the key. *)
Key(q) == <<q.name, q.type>>

NoReply == [kind |-> "none"]
NoAnswer == [id |-> "none"]

(* handleBlocked: a sinkhole response carries the id and question of r. *)
Sinkhole(c) ==
    [kind |-> "blocked", id |-> c, casing |-> req[c].casing,
     rcode |-> IF cfg.mode = "nxdomain" THEN "NXDOMAIN" ELSE "NOERROR",
     data |-> IF cfg.mode = "nxdomain" THEN "none"
              ELSE CASE req[c].type = "A" -> "zero4"
                     [] req[c].type = "AAAA" -> "zero6"
                     [] OTHER -> "none"]

(* A message as the client sees it, from upstream or from the cache. *)
Message(kind, id, m) ==
    [kind |-> kind, id |-> id, key |-> m.key, casing |-> m.casing, answer |-> m.answer]

(* WriteMsg and return: the locals of the call are gone. *)
Finish(c, r) ==
    /\ pc' = [pc EXCEPT ![c] = "idle"]
    /\ reply' = [reply EXCEPT ![c] = r]
    /\ resp' = [resp EXCEPT ![c] = NoAnswer]
    /\ todo' = [todo EXCEPT ![c] = << >>]

-----------------------------------------------------------------------------
Init ==
    /\ cfg \in Configs
    /\ rules \in Blacklists
    /\ store = [k \in {} |-> NoAnswer]
    /\ pc = [c \in Clients |-> "idle"]
    /\ req \in [Clients -> {CHOOSE q \in Questions : TRUE}]
    /\ resp = [c \in Clients |-> NoAnswer]
    /\ todo = [c \in Clients |-> << >>]
    /\ reply = [c \in Clients |-> NoReply]
    /\ clear = [c \in Clients |-> {}]

(* A query without a question is answered FORMERR at once. *)
ReceiveMalformed(c) ==
    /\ pc[c] = "idle"
    /\ reply' = [reply EXCEPT ![c] = [kind |-> "formerr", id |-> c]]
    /\ UNCHANGED <<cfg, rules, store, pc, req, resp, todo, clear>>

Receive(c, q) ==
    /\ pc[c] = "idle"
    /\ pc' = [pc EXCEPT ![c] = "filter"]
    /\ req' = [req EXCEPT ![c] = q]
    /\ reply' = [reply EXCEPT ![c] = NoReply]
    /\ clear' = [clear EXCEPT ![c] = Names \ Blocked(rules)]
    /\ UNCHANGED <<cfg, rules, store, resp, todo>>

(* 1. The name itself. *)
FilterBlocks(c) ==
    /\ pc[c] = "filter"
    /\ req[c].name \in Blocked(rules)
    /\ Finish(c, Sinkhole(c))
    /\ UNCHANGED <<cfg, rules, store, req, clear>>

FilterPasses(c) ==
    /\ pc[c] = "filter"
    /\ req[c].name \notin Blocked(rules)
    /\ pc' = [pc EXCEPT ![c] = "cache"]
    /\ UNCHANGED <<cfg, rules, store, req, resp, todo, reply, clear>>

(* Mutant: the cached message keeps the id it was stored with. *)
MutantCachedId(c) ==
    /\ pc[c] = "cache"
    /\ Key(req[c]) \in DOMAIN store
    /\ Finish(c, Message("cache_hit", store[Key(req[c])].id, store[Key(req[c])]))
    /\ UNCHANGED <<cfg, rules, store, req, clear>>

(* 2. The cache: a copy with the id of this request. *)
CacheHit(c) ==
    /\ pc[c] = "cache"
    /\ Key(req[c]) \in DOMAIN store
    /\ Finish(c, Message("cache_hit", c, store[Key(req[c])]))
    /\ UNCHANGED <<cfg, rules, store, req, clear>>

CacheMiss(c) ==
    /\ pc[c] = "cache"
    /\ Key(req[c]) \notin DOMAIN store
    /\ pc' = [pc EXCEPT ![c] = "forward"]
    /\ UNCHANGED <<cfg, rules, store, req, resp, todo, reply, clear>>

(* The response with the client's casing in its question again. *)
Response(c, a) == [id |-> c, key |-> Key(req[c]), casing |-> req[c].casing, answer |-> a]

Saved(c, m) ==
    [k \in DOMAIN store \cup {Key(req[c])} |-> IF k = Key(req[c]) THEN m ELSE store[k]]

(* Mutant: only the first alias is checked. *)
MutantFirstAlias(c, a) ==
    /\ pc[c] = "forward"
    /\ pc' = [pc EXCEPT ![c] = "vet"]
    /\ resp' = [resp EXCEPT ![c] = Response(c, a)]
    /\ todo' = [todo EXCEPT ![c] = IF cfg.uncloak /\ a.aliases # << >>
                                   THEN <<Head(a.aliases)>> ELSE << >>]
    /\ UNCHANGED <<cfg, rules, store, req, reply, clear>>

(* Mutant: the answer is cached before it is vetted. *)
MutantSaveFirst(c, a) ==
    /\ pc[c] = "forward"
    /\ pc' = [pc EXCEPT ![c] = "vet"]
    /\ resp' = [resp EXCEPT ![c] = Response(c, a)]
    /\ todo' = [todo EXCEPT ![c] = IF cfg.uncloak THEN a.aliases ELSE << >>]
    /\ store' = Saved(c, Response(c, a))
    /\ UNCHANGED <<cfg, rules, req, reply, clear>>

(* 3.-5. The upstream answers. *)
ForwardOK(c, a) ==
    /\ pc[c] = "forward"
    /\ pc' = [pc EXCEPT ![c] = "vet"]
    /\ resp' = [resp EXCEPT ![c] = Response(c, a)]
    /\ todo' = [todo EXCEPT ![c] = IF cfg.uncloak THEN a.aliases ELSE << >>]
    /\ UNCHANGED <<cfg, rules, store, req, reply, clear>>

(* Mutant: an upstream failure is logged and nothing is written. *)
MutantNoServfail(c) ==
    /\ pc[c] = "forward"
    /\ Finish(c, NoReply)
    /\ UNCHANGED <<cfg, rules, store, req, clear>>

ForwardErr(c) ==
    /\ pc[c] = "forward"
    /\ Finish(c, [kind |-> "servfail", id |-> c, casing |-> req[c].casing])
    /\ UNCHANGED <<cfg, rules, store, req, clear>>

(* 6. CNAME uncloaking, one target at a time, each against the rules       *)
(* published at that moment.                                               *)
UncloakBlocks(c) ==
    /\ pc[c] = "vet" /\ todo[c] # << >>
    /\ Head(todo[c]) \in Blocked(rules)
    /\ Finish(c, Sinkhole(c))
    /\ UNCHANGED <<cfg, rules, store, req, clear>>

UncloakPasses(c) ==
    /\ pc[c] = "vet" /\ todo[c] # << >>
    /\ Head(todo[c]) \notin Blocked(rules)
    /\ todo' = [todo EXCEPT ![c] = Tail(@)]
    /\ UNCHANGED <<cfg, rules, store, pc, req, resp, reply, clear>>

Rebinding(c) ==
    cfg.rebind /\ resp[c].answer.private /\ req[c].name \notin LocalNames

(* 7. Rebinding protection. *)
RebindBlocks(c) ==
    /\ pc[c] = "vet" /\ todo[c] = << >>
    /\ Rebinding(c)
    /\ Finish(c, Sinkhole(c))
    /\ UNCHANGED <<cfg, rules, store, req, clear>>

RebindPasses(c) ==
    /\ pc[c] = "vet" /\ todo[c] = << >>
    /\ ~Rebinding(c)
    /\ pc' = [pc EXCEPT ![c] = "save"]
    /\ UNCHANGED <<cfg, rules, store, req, resp, todo, reply, clear>>

(* 8. Save to the cache, if Set accepts it, and reply. *)
SaveAndReply(c) ==
    /\ pc[c] = "save"
    /\ store' = IF resp[c].answer.cacheable THEN Saved(c, resp[c]) ELSE store
    /\ Finish(c, Message("forwarded", c, resp[c]))
    /\ UNCHANGED <<cfg, rules, req, clear>>

(* Mutant: a query that is being served puts the expiry off. *)
MutantHitExtends(k) ==
    /\ k \in DOMAIN store
    /\ \A c \in Clients : pc[c] = "idle"
    /\ store' = [j \in DOMAIN store \ {k} |-> store[j]]
    /\ UNCHANGED <<cfg, rules, pc, req, resp, todo, reply, clear>>

(* An entry expires or is evicted. *)
Drop(k) ==
    /\ k \in DOMAIN store
    /\ store' = [j \in DOMAIN store \ {k} |-> store[j]]
    /\ UNCHANGED <<cfg, rules, pc, req, resp, todo, reply, clear>>

(* LoadRules publishes another snapshot. *)
Reload(black) ==
    /\ rules' = black
    /\ clear' = [c \in Clients |-> IF pc[c] = "idle" THEN clear[c]
                                   ELSE clear[c] \cup (Names \ Blocked(black))]
    /\ UNCHANGED <<cfg, store, pc, req, resp, todo, reply>>

ServeDNS(c) ==
    \/ FilterBlocks(c) \/ FilterPasses(c)
    \/ CacheHit(c) \/ CacheMiss(c)
    \/ (\E a \in Answers : ForwardOK(c, a)) \/ ForwardErr(c)
    \/ UncloakBlocks(c) \/ UncloakPasses(c)
    \/ RebindBlocks(c) \/ RebindPasses(c)
    \/ SaveAndReply(c)

Keys == {<<n, t>> : n \in Names, t \in Types}

Next ==
    \/ \E c \in Clients : ReceiveMalformed(c) \/ (\E q \in Questions : Receive(c, q)) \/ ServeDNS(c)
    \/ \E k \in Keys : Drop(k)
    \/ \E black \in Blacklists : Reload(black)

(* Each handler goroutine runs on (Forward returns, see Forwarder), and    *)
(* time passes, so that an entry is gone some day: its lifetime is fixed   *)
(* when it is stored and a hit does not extend it (see LRUCache).          *)
Fairness ==
    /\ \A c \in Clients : WF_vars(ServeDNS(c))
    /\ \A k \in Keys : WF_vars(Drop(k))

Spec == Init /\ [][Next]_vars /\ Fairness

-----------------------------------------------------------------------------
FromUpstream(r) == r.kind \in {"forwarded", "cache_hit"}
Aliases(a) == {a.aliases[i] : i \in 1..Len(a.aliases)}

(* However reloads interleave with a query, a client is given a real       *)
(* answer only if its name, and with uncloaking every alias a forwarded    *)
(* answer went through, was unblocked at some moment while the query was   *)
(* being served: a name that is blocked throughout is never let through.   *)
OnlyClearedAnswers ==
    \A c \in Clients : FromUpstream(reply[c]) =>
        /\ req[c].name \in clear[c]
        /\ reply[c].kind = "forwarded" /\ cfg.uncloak =>
              Aliases(reply[c].answer) \subseteq clear[c]

(* With rebinding protection, no client is ever given an answer that       *)
(* FilterDNSRebinding refuses (an A or AAAA record with a private address  *)
(* in the answer section; it looks at nothing else) for a name that is not *)
(* local, neither directly nor by way of the cache another query filled.   *)
NoPrivateAnswers ==
    cfg.rebind => \A c \in Clients :
        FromUpstream(reply[c]) /\ reply[c].answer.private => req[c].name \in LocalNames

(* Every reply carries the id of the request it answers, and an answer is  *)
(* one to the question asked, whichever query fetched it.                  *)
ReplyMatchesRequest ==
    \A c \in Clients : reply[c] # NoReply =>
        /\ reply[c].id = c
        /\ FromUpstream(reply[c]) => reply[c].key = Key(req[c])

(* Every query that is received is answered. *)
EveryQueryAnswered == \A c \in Clients : pc[c] # "idle" ~> reply[c] # NoReply

(* A reload that blocks a tracker for good takes hold, also for the names  *)
(* that hide it behind an alias: with uncloaking, from some moment on no   *)
(* cached answer goes through the tracker any more.                        *)
UncloakingTakesHold ==
    cfg.uncloak => \A n \in Names :
        <>[](n \in Blocked(rules)) =>
            <>[](\A k \in DOMAIN store : n \notin Aliases(store[k].answer))

(* "Domains that must never be blocked (overrides all blocklists)"         *)
(* (config.example.yaml:109).  Rebinding protection is no blocklist, hence *)
(* the condition: without it, only the filter sinkholes.  It does not      *)
(* hold: the uncloaking check (handler.go:129) asks about the alias only,  *)
(* so a whitelisted name that goes through a blacklisted alias is refused. *)
WhitelistNeverBlocked ==
    ~cfg.rebind => \A c \in Clients :
        reply[c] # NoReply /\ reply[c].kind = "blocked" => req[c].name \notin Whitelist
=============================================================================
