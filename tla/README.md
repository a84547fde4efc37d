# TLA+ models of TuxDNS-Hole

TuxDNS-Hole is a filtering DNS forwarder. A query goes through a block filter, a
response cache and a pool of upstream resolvers; the answer is vetted (CNAME uncloaking,
rebinding protection), cached and sent. This directory models the parts of it that keep
state or run concurrently, checks them with TLC on small instances and proves their safety
properties with TLAPS for every instance.

Run a model with `tlc -config X.cfg M` (the pairs are under "Runs"), check the proofs with
`tlapm M.tla`, where `M` is `Lemmas` or a module in
`...Proofs`. `PROJECT.json` maps every definition to the lines it models.

## Inventory

| Component | Source | State | Operations |
|---|---|---|---|
| Query handler | `internal/dns/handler.go` | none of its own; one goroutine per query | `ServeDNS`, `prepareUpstreamQuery`, `handleBlocked`, `logQuery` |
| Response cache | `internal/dns/cache.go` | map, recency list, one mutex | `Get`, `Set`, `Len` |
| Query log | `internal/dns/opsec.go` `RingBuffer` | atomic cursor, array of atomic pointers | `Push`, `GetRecent` |
| Answer vetting and query privacy | `internal/dns/opsec.go` | none | `FilterDNSRebinding`, `IsAllowedLocalDomain`, `ApplyEDNS0Padding`, `Randomize0x20` |
| Rule tree | `internal/filter/engine.go` `DomainTrie` | tree of labels, rule count | `Insert`, `Matches`, `HasRules` |
| Filter engine | `internal/filter/engine.go` `Engine` | published snapshot (atomic pointer), reload mutex | `LoadRules`, `IsBlocked`, `StartAutoUpdate` |
| Blocklist loader | `internal/filter/loader.go` | none | `ParseHosts`, `FetchURL`, `LoadFile`, `normalizeDomain` |
| Upstream pool | `internal/upstream/forwarder.go` | round-robin counter; per call a deadline, in parallel mode a channel | `Forward` and its three strategies, `StandardResolver.Exchange` |
| DoH and DoT clients | `internal/upstream/doh.go`, `dot.go` | connection pool of the HTTP client, bootstrap addresses | `Exchange`, dialling |
| DNS listeners | `internal/dns/server.go` | UDP and TCP servers | `Start`, `Shutdown` |
| Daemon | `cmd/tuxdnshole/main.go` | root context, signal channel | start-up order, SIGHUP, termination |
| Configuration | `internal/config/config.go` | read once | `Load`, `Validate` |

How they interact: `ServeDNS` calls `IsBlocked` (for the name, later for every CNAME
target), `Cache.Get`, `Forwarder.Forward`, `Cache.Set` and `RingBuffer.Push`. `LoadRules`
is called by `main` before the server starts, then by the signal goroutine and by the
ticker goroutine; it shares nothing with the readers but the snapshot pointer. `Forward`
runs under a context that `ServeDNS` makes with `timeout + 1s`.

What is hard, and the property that makes each part correct:

- *Cache.* `Set` computes the expiry before it takes the lock, and map and list are updated
  separately. Correct: both hold the same keys, no answer outlives its records, eviction is
  least-recently-used.
- *Query log.* `Push` is two atomic steps and `GetRecent` one per slot, without a lock.
  Correct: no duplicates, nothing recent is lost.
- *Upstream pool.* Attempts of one query share a budget; results of parallel mode arrive
  after the caller has gone. Correct: every call returns, fails only for a cause, and leaves
  no goroutine behind.
- *Rule tree.* The walk stops early. Correct: it answers as the rules one by one would.
- *Filter engine.* Snapshots are built in place by several goroutines, and reloads overlap.
  Correct: a published snapshot is final, its verdicts are the configured ones, lists never
  go back in time.
- *Handler.* Rules and cache change between any two steps. Correct: nothing blocked
  throughout a query gets through, replies belong to their requests, answers that
  rebinding protection refuses do not leak through the cache.
- *Query preparation.* Two functions filter the options, and the padding depends on a length
  that includes itself. Correct: the message fills whole blocks, only the client subnet is
  lost.
- *Loader.* Texts are normalised twice, by rules that strip one decoration of each kind.
  Correct: what a list names is blocked, and nothing else; a broken list counts for nothing.
- *DoH and DoT.* Addresses may be silent, dead or somebody else's, and concurrent exchanges
  share the rotation and a pooled connection. Correct: every exchange ends, an address that
  answers is come to.
- *Daemon and listeners.* Signals, reloads, lost ports and queries meet at any step. Correct:
  all listeners or none, a termination that was received ends the process after draining,
  lists lost at a cold start come back.

## Modules

| Module | Models | Notes |
|---|---|---|
| `CacheSpec` | what the cache promises | bounded store, recency as a relation, atomic operations |
| `LRUCache` | `cache.go` | implements `CacheSpec` (`ImplementsCacheSpec`) |
| `QueryLog` | `RingBuffer` | |
| `Forwarder` | `forwarder.go` | |
| `Filtering` | the loops that copy a sequence and skip some elements | operators, used by `DomainTrie` and `UpstreamQuery` |
| `DomainTrie` | `DomainTrie` | operators, used by the next two |
| `ListLoad` | `loader.go` and the loops of `LoadRules` that take what it returns | |
| `FilterEngine` | `engine.go` and its callers in `main.go` | builds its trees with `DomainTrie` |
| `Handler` | `ServeDNS` | composes the other components, each as seen from outside |
| `UpstreamQuery` | `prepareUpstreamQuery`, `Randomize0x20`, `ApplyEDNS0Padding` | |
| `Encrypted` | `doh.go`, `dot.go` | one client and its concurrent exchanges |
| `Config` | `config.go` | operators, used by the next |
| `Daemon` | `main.go`, `server.go`, `StartAutoUpdate` | composes configuration, listeners, reloads and queries |
| `MC...` | | the small instance of each |
| `...Proofs` | | the proofs about `LRUCache`, `QueryLog`, `Forwarder`, `FilterEngine` (and `ListLoad`), `Handler` (and `UpstreamQuery`), `Encrypted` and `Daemon` |
| `Lemmas` | | lemmas about `%`, for the slots of the log and the rotations of resolvers and addresses; about induction, recursive functions and `Filtering` |

### Correspondence with the code

**LRUCache.** `items` is the map, `evict` the list (front first) of keys, `cache` the
configuration fields of the struct. `Get` is one action per outcome (`GetMiss`,
`GetExpired`, `GetHit`), since it holds the mutex throughout. `Set` is two steps:
`SetBegin` is everything up to `c.mu.Lock()` and leaves its result in `setting[p]`;
`SetOverwrite`, `SetInsert` and `SetEvict` are the three ways through the locked part, the
last one including `removeOldest`. Time is in ticks, `Second` of them to the second, so
that the truncations of lines 101, 138 and 139 are visible. A response is its rcode, its TC
bit and the set of the TTLs of its records that are not OPT. `receivedAt` and `age` exist for the
properties. `min_ttl` and `max_ttl` are assumed to be below 2^32 seconds (the conversion
to `uint32`). A TTL is at most 2^32 - 1 seconds, and `time.Duration(ttl) * time.Second`
does not overflow 64 bits.

**QueryLog.** `Claim` is `cursor.Add(1)`, `Store` the store into the slot. An entry is the
ticket claimed for it. `GetRecent` starts a read, `ReadSlot` is a turn of its loop.
`lapped` and `reader.quiet` are history for the properties.

**Forwarder.** A call of `Exchange` is a record `[phase, left]`; `left` is the time to its
deadline. A resolver has a profile that says how its UDP and its TCP port behave; the profile
is fixed, "slow" means that the answer may come at any time or never. The clock moves only
when all goroutines wait for the network. The round-robin counter is not wrapped at 2^64.
`Timeout` is the setting as `NewForwarder` repairs it; `Budget` comes from the setting itself,
which may be negative (`Validate` lets it pass): then the context has expired from the start.
`Begin...` is the code up to the first `Exchange`; `Accept`, `NextResolver`, `GiveUp` are the
loop of `forwardRoundRobin`, which `forwardFailover` shares with `first = 0`; `Send` and
`Receive` are the two ends of the channel of `forwardParallel`. A DoH or DoT resolver is one
attempt under the deadline here; `Encrypted` has its inside.

**DomainTrie.** A node is the path to it. `PathOf` is `iterateDomainLabelsReverse` (empty
labels skipped). `Visited` and `MatchesPath` are the walk. A rule is a text after
`normalizeDomain`, split at its leading `*.` or `.` (`RuleTexts`). `InsertRules` is a loop that
inserts a sequence of rules, `UpTo(p, i)` the node `i` labels down the path `p`.

**FilterEngine.** `heap` holds every snapshot ever allocated, `snapshot` the published index.
`Lock` is `LoadRules` from the mutex to the start of the goroutines, including the local lists
(each of which may be unreadable); `FetchOK`, `FetchFail`, `Merge` are the goroutine of a
list, `Publish` is `wg.Wait`, the pointer store and the unlock. `Update` lets a remote server
change its list. A list whose fetch fails is missing from the snapshot that replaces the old
one, as in the code, also if the old one had it. A regular expression is the set of domains it
matches.

**Handler.** One action per step and outcome of `ServeDNS`. `rules`, `store` and the
outcome of `Forward` are the other components from outside: a verdict is one atomic read of
the published rules (`FilterEngine`), `Get` and `Set` are atomic (`LRUCache` implements
`CacheSpec`), an entry disappears by expiry or eviction (`Drop`), `Forward` returns an
answer or an error (`Forwarder`). An answer is the CNAME targets it contains, whether
`FilterDNSRebinding` refuses it (`private`: an A or AAAA record of the answer section has a
private address; other records and sections are not looked at) and whether `Set` accepts it.
The id of a request is the client itself. `clear` is history: the names that were unblocked at
some moment of the query.
`logQuery`'s push is left to `QueryLog`; nothing in `ServeDNS` reads the log.

**ListLoad.** A token is the sequence of its pieces, where a piece is a label or one of `||`,
`^`, `*`, `.`, `#`; so trimming is trimming of pieces, and a length counts pieces (`MaxLen`
stands for 253). `ScanLine` is a turn of the scanner's loop, with `domains` as both the
result and `seen`; `EndOfList` is the loop of `LoadRules` over the result, `ReadFails` any
error on the way. `Rule` is what `Insert` sees: it normalises a second time. Nothing in the
program inserts an exact rule into the tree (`TreeOK`); the branch of `Matches` for it is
used by tests only. The reference `Names` builds up the spellings of a name, where the code
strips texts down. A query is a name as the DNS library prints it: labels with a dot behind
each (`IsName`). `WellFormed` says what the pieces are: only labels have a lower case, tokens
are not empty (`strings.Fields`), no ignored host begins with a wildcard mark. The specification
is `ListSpec`, since `FilterEngineProofs` extends both this module and `FilterEngine`: their
proofs are about the same tree.

**UpstreamQuery.** A name is a sequence of characters with a case, an option `[code, size]`, a
message a name and at most one OPT record. `WithoutCodes` is the loop that both functions use
to drop options, `OptionBytes` the sum of the sizes. The three actions are the numbered steps
of `prepareUpstreamQuery`; `MsgLen` is the length of the wire format. Reading past the random
bytes would be a panic, so it is a state. The variables `setting`, `query`, `outgoing` and
`step` are `cfg`, `r`, `req` and the place in the function; they and `PrepareSpec` have names of
their own because `HandlerProofs` extends both this module and `Handler`.

**Encrypted.** `ex[q]` is an exchange: `start` is the draw from `ipCounter`, `tried` the loop
variable. `net` says how each address behaves, `Own` which addresses have a certificate for
the host. For DoH, dialling (`dialContext`) ends with the TCP connection and the TLS
handshake follows outside the loop; for DoT one turn is dial, handshake and answer. `pool` is
the connection the HTTP client keeps (HTTP/2, so one is enough for all requests); a request
waiting for a dial may take a connection that another one made. `streak` is history.

**Config, Daemon.** A file is what it sets; `Unmarshal` puts it over the defaults,
`Acceptable` and `Repaired` are the two halves of `Validate`. In `Daemon`, `pc` is `main`'s
numbered steps, `sock` the goroutines of `Start` (one per address and protocol), `sig` the
signal goroutine, `ticker` that of `StartAutoUpdate`. A `LoadRules` call is `Lock`, `Fetch`,
`Publish` (in detail: `FilterEngine`); `Obstacle` says why a fetch failed. `Deliver` is the
operating system: before `signal.Notify` a signal kills, afterwards it is dropped if the
channel of one is full. On a host that `setup-resolvconf.sh` has set up
(`env.selfResolving`), a list can be fetched only while a UDP listener of the daemon is up.
That the daemon's own rules may block the host of a list there is not modelled.

## Runs

| Run | Model, config | Shows |
|---|---|---|
| `lru_cache` | `MCLRUCache`, `LRUCache.cfg` | map and list agree, answers stay within their TTL, only clean answers, LRU refinement |
| `query_log` | `MCQueryLog`, `QueryLog.cfg` | no duplicates, nothing recent lost, undisturbed reads exact |
| `forwarder` | `MCForwarder`, `Forwarder.cfg` | every strategy: causes of failure, balance, termination, no goroutine leak |
| `list_load` | `MCListLoad`, `ListLoad.cfg` | lists and tree against the spelled-out reference |
| `filter_engine` | `MCFilterEngine`, `FilterEngine.cfg` | verdicts, frozen snapshots, lists never go back, every load returns |
| `handler` | `MCHandler`, `Handler.cfg` | cleared answers only, no private answers, replies match requests, every query answered, uncloaking takes hold |
| `upstream_query` | `MCUpstreamQuery`, `UpstreamQuery.cfg` | only the subnet is lost, whole blocks |
| `encrypted` | `MCEncrypted`, `Encrypted.cfg` | no cold-start deadlock, DoT falls back, DoH outages bounded, every exchange returns |
| `daemon` | `MCDaemon`, `Daemon.cfg` | usable configuration, graceful shutdown, lists kept, all listeners or none, termination, recovery from a cold start |

Three runs show where the code and what is written about it differ:

- `handler_whitelist`: a whitelisted name is blocked because of a blacklisted alias
  (`handler.go:129`), although the whitelist "must never be blocked (overrides all blocklists)"
  (`configs/config.example.yaml:109`). The property leaves out rebinding protection, which
  sinkholes whitelisted names too but is no blocklist.
- `forwarder_fallback`: "falling back to others if the selected one fails"
  (`forwarder.go:170`) does not reach a healthy resolver behind two silent ones, because
  the whole call has `timeout + 1s` (`handler.go:96`). `FailsOnlyForCause` says that this is
  the only cause.
- `encrypted_bootstrap`: "The daemon connects directly to these IPs to reach DoH/DoT
  providers" (`configs/config.example.yaml:34`): the general addresses belong to several
  providers, and a DoH dial that comes to a foreign one (first, or after an own one that
  refused) takes its TCP connection, and the exchange fails in the handshake without trying the
  host's other addresses. `OutageBounded` says how long that can last.

Observed while modelling, and not given a run of their own:

- A file that sets only `listen_addr` ("maintained for backward compatibility",
  `config.go:26`) has no effect: the defaults fill `listen_addrs`, which goes first.
- A cache hit carries the casing of the client that filled the cache; `handler.go:119`
  restores it on the forwarding path only.
- A pusher that sleeps between its two steps for a whole lap overwrites a newer log entry
  (`opsec.go:184`); `RecentComplete` and `UndisturbedReadExact` say that nothing else loses
  one.
- A SIGTERM that arrives while a SIGHUP waits in the channel is lost; a SIGHUP during the
  first load kills the daemon.
- A plain list entry with two trailing dots is stored with one of them and never matches; the
  same entry with a wildcard mark does, since `Insert` strips the other.
- The words of a comment in AdGuard syntax (`! ...`) are taken for domains.
- A DoH server that answers with errors keeps its pooled connection, so that no other address
  is tried.

### Bounds

- *Cache:* three keys, capacity one and two (so eviction, eviction of the only entry, and
  reuse happen), two goroutines inside `Set`, half-second ticks up to 1.5 s (a TTL of 1 s
  expires), a response of every class `Set` tells apart, a configuration for every branch of
  `NewCache` and of the clamp.
- *Query log:* three slots, three pushers, seven pushes (more than two laps), limits of
  zero, below, at and above the size.
- *Forwarder:* three resolvers of seven profiles each, a timeout of two ticks and a budget of
  three, so that a second slow resolver gets a shortened deadline and a third none.
  Two queries, which share the counter; in parallel mode queries share nothing, hence
  `MaxParallel` is one.
- *Lists:* up to three lines, in up to three lists, out of thirty-one that cover every
  decoration, wildcard rules above and below each other (two of them and one more line are
  what a shadowed rule needs), tokens of marks only, too long and malformed ones, hosts
  lines, comments; eleven names.
- *Filter engine:* two remote lists, one with two versions, one local file, three loads after
  the empty snapshot, overlapping rules.
- *Handler:* two clients that query again and again, two names (one whitelisted, one local
  and sometimes blocked), answers with and without aliases and private addresses, with
  either protection off. The trace of `handler_whitelist` has rebinding protection off and
  uncloaking on.
- *Query preparation:* every sequence of up to three of four options, names of 1, 8 and 10
  characters (below, at and above a byte of random bits), blocks of 1, 16 and the default.
- *Encrypted:* two exchanges, two addresses of the provider and one of another, of every
  behaviour; the sources of addresses in six combinations for each protocol; a deadline of
  two ticks; failures are counted up to `MaxStreak`, the bound that `OutageBounded` excludes.
- *Daemon:* one query at a time, a grace period of two ticks and budgets from none to four;
  four configurations that serve, six that do not, and `-test-config`; one port that others
  may take.

`LRUCache.cfg` and `QueryLog.cfg` use symmetry of interchangeable values; no liveness
property is checked with it.

Deadlock checking is off where the model comes to a natural end: all calls of `Forward`
have returned, all loads are used up, the last line is read, the query is ready, the process
has exited.

### Fairness

- *Forwarder:* weak fairness of `Progress`: the scheduler runs a goroutine that can run, a
  server that answers at once does so, time passes and deadlines fire. Slow and silent
  servers have no fairness, nor have arrivals.
- *Filter engine:* weak fairness of a loader's fetches (they end by the 45 s timeout) and of
  publication; strong fairness of taking the mutex, since Go's `sync.Mutex` hands over to a
  starved waiter. Whether a fetch succeeds is free.
- *Handler:* weak fairness of each query's next step (`Forward` returns, as the forwarder
  runs show) and of the disappearance of each entry: its expiry is fixed at `Set`, and a hit
  does not extend it.
- *Encrypted:* weak fairness of each exchange, and strong fairness of time, which passes
  however often other exchanges begin and end. Addresses that stay silent have none.
- *Daemon:* weak fairness of `main`, of the signal and ticker goroutines, of the listeners'
  binds, of a load's fetch (it ends by its timeout) and of time; strong fairness of taking
  the reload mutex. Signals, queries, other processes and the network are free: in
  particular a query ends by its budget, not sooner.

## Proofs

Every theorem is of the form `Spec => []Inv`, `Spec => [][A]_vars` or, for the cache, `Spec`
implies the abstract specification, and holds for every value of the constants: any number of
goroutines, queries, resolvers, addresses, lists, slots or keys, any behaviour of the servers,
runs of any length. The bounds that TLC needs (`MaxTime`, `MaxPush`, `MaxLoads`, `MaxStreak`)
are guards with a constant that may be any number. What is assumed of the constants is in the
`...Assumption` of each module:

- sizes, times and limits are numbers, of the range the code can be given: `CfgSize`, cache
  sizes and TTLs may be zero or negative, a clock has at least one tick to the second, a pool
  has at least one resolver (`NewForwarder` fails otherwise);
- responses, answers, profiles and setups are records of the right type, and a configuration
  file sets what the types of the `Config` structures accept (`WellTyped`: `yaml.Unmarshal`
  rejects anything else);
- rules are texts `[mark, labels]`, lists are finite, and a remote list has at least one version
  (`EngineAssumption`);
- lines consist of tokens that are not empty, queries are names with a dot behind each label,
  only labels have a lower case (`WellFormed` of `ListLoad`); a message has at most one OPT
  record, whose options are `[code, size]` (`WellFormed` of `UpstreamQuery`);
- the exchanges of an encrypted client are finitely many and at least one, since
  `OutageBounded` counts them. Its theorem has the hypothesis `Timeout > 0`, which
  `NewForwarder` ensures (`forwarder.go:114`): an exchange without any time fails wherever it
  starts, and the outage lasts as long as that.

| Module | Theorem | Property |
|---|---|---|
| `LRUCacheProofs` | `TypeCorrect` | `TypeOK` |
| | `MapAndListAgree` | `ListMapAgree` |
| | `FreshnessOfAnswers` | `ServedWithinTTL` |
| | `CleanlinessOfAnswers` | `OnlyCleanServed` |
| | `CacheRefinement` | `ImplementsCacheSpec` |
| `QueryLogProofs` | `TypeCorrect` | `TypeOK` |
| | `ReadsHaveNoDuplicates` | `NoDuplicates` |
| | `NothingRecentLost` | `RecentComplete` |
| | `UndisturbedReadsExact` | `UndisturbedReadExact` |
| `ForwarderProofs` | `TypeCorrect` | `TypeOK` |
| | `FailuresHaveCause` | `FailsOnlyForCause` |
| | `TruncationHasCause` | `NoNeedlessTruncation` |
| | `RoundRobinBalanced` | `RoundRobinBalance` |
| `FilterEngineProofs` | `TypeCorrect` | `TypeOK` |
| | `PublishedSnapshotsFrozen` | `PublishedFrozen` |
| | `PublishedListsNeverGoBack` | `ListsNeverGoBack` |
| | `VerdictCorrect` | `VerdictAsConfigured` |
| (`ListLoad`) | `LoadedTreeOK` | `TreeOK` |
| | `ListedNamesBlocked` | `ListedIsBlocked` |
| | `NothingUnlistedBlocked` | `NothingElseBlocked` |
| `HandlerProofs` | `OnlyClearedAnswersGiven` | `OnlyClearedAnswers` |
| | `NoPrivateAnswersGiven` | `NoPrivateAnswers` |
| | `RepliesMatchRequests` | `ReplyMatchesRequest` |
| (`UpstreamQuery`) | `UpstreamLosesOnlySubnet` | `OnlySubnetLost` |
| | `UpstreamPaddedToBlock` | `PaddedToBlock` |
| `EncryptedProofs` | `NoColdStart` | `NoColdStartDeadlock` |
| | `DoTFallback` | `DoTFallsBack` |
| | `OutagesAreBounded` | `OutageBounded` |
| `DaemonProofs` | `ConfigUsable` | `UsableConfig` |
| | `ShutdownCoversQueries` | `GraceCoversQueries` |
| | `ListsKeptWithoutCause` | `ListsLostOnlyForCause` |

Each module proves one inductive invariant `Inv` (theorem `Invariance`), with one lemma or
step per action, and derives the rest from it. `FilterEngineProofs` and `HandlerProofs` have a
second one for the second specification they are about (`LoadInvariance`,
`PrepareInvariance`). Why the properties are not inductive alone:

**LRUCache.** `Inv` has two halves. `Structure` is the type, the agreement of list and map,
and that an enabled cache has a positive capacity (else eviction from an empty list could not
be ruled out). `AllHonest` is about time: `ServedWithinTTL` and `OnlyCleanServed` speak of
what `Get` returned, so what is stored, and what a `Set` that waits for the lock carries with
it, has to be known: it is cacheable, was received in the past, and expires exactly its
clamped smallest TTL after that. Its preservation is why the moment at which `Set` takes the
lock does not matter. For the refinement, the recency relation of `CacheSpec` is read off the
list (`Order`), and the lemmas say what moving, pushing and unlinking do to it: the last of
the list is the least recently used key. `MapInv` adds that a disabled cache has no room.

**QueryLog.** A slot holds only tickets that belong to it, and a read has been at each slot
at most once (`TicketsInPlace`, `ReadInPlace`); two turns of a read are less than a ring apart,
so their slots, and hence their entries, differ. `ReadUndisturbed` says how far an undisturbed
read has got.

**Forwarder.** For each call of `Forward` `QInv` says how far it got: the resolvers the loop
has left behind failed (`SeqOK`), every result sent is in the channel or was counted as a
failure (`ParOK`), and a healthy resolver has failed only when the query had no time left
(`HealthOK`). The last is where time comes in: the clock does not move while a server that
answers at once is being waited for, so that a call to a healthy resolver has time left if the
query has. `Balance` says exactly how often each resolver was first, given the counter.

**FilterEngine.** A load in progress writes to the newest snapshot, which is not published,
and a body that waits to be merged is as new as anything merged before. Both rest on the
mutex: `TypeOK` includes that exactly its holder is loading.

For the verdicts, `TrieOK` is the shape of a tree: no node is marked exact, the root is not
marked, a marked node has its ancestors, and there is a rule exactly if some node is marked.
Under it the walk of `Matches`, which stops at the first marked node, finds one exactly if the
path of some rule is the start of the domain's (`WalkMatches`): the shortest such path is where
the walk ends, and the ancestors are why it gets that far. `InsertMany` says that inserting a
sequence of rules keeps the shape and marks the path of each, except the root. `RulesOK`, on top
of `Inv`, says that each snapshot `LoadRules` built holds the whitelist and the rules of exactly
the lists that went in; a list is merged once, because until it is merged the snapshot has
nothing of it.

**ListLoad.** `LoadInv` says that the domains, the exact map and the marked nodes are what is
parsed of the lines read and of the lines loaded, and `BlocksIff` when a name is blocked, given
these. The rest is about texts, in both directions, for tokens of any length.
`NormalizedAround`: whatever a token is, what `normalizeDomain` leaves of it stands in it with at
most one decoration of each kind around it, so its words are the token's; that proves
`NothingElseBlocked`. `AroundNormalized`: a text that does not begin or end with a decoration
comes out of all its spellings; that proves `ListedIsBlocked`. `RuleWords` is about the second
normalisation, in `Insert`: it may take another dot or caret off, but the labels that remain are
the words.

**Handler.** `Progress` and `Vetting` say what each query has established at its step (the name
was unblocked, each alias was or is still to be checked), `StoreClean` what other queries may
have put into the cache.

**UpstreamQuery.** `PrepareInv` says what each of the numbered steps has done to the message:
until the options are touched they are the client's, then the client subnet is gone and the
others stand in their order, whichever of them the padding step drops and adds. That the padding
fills the last block is a fact about `MsgLen`, whose sum over the options grows by exactly the
size of the option appended.

**Induction.** The library's induction theorems take an operator, which the provers cannot
instantiate. `Lemmas` has the set of the numbers with the property in its place (`Induction`,
from the well-foundedness of the numbers), and `Recursion`, which says that a function defined
by recursion exists. With these, what the loops compute is proved for sequences of any length:
`Without` of `Filtering`, `InsertRules`, `OptionBytes`.

**Encrypted.** `LoopOK` says that the addresses a DoT exchange has left behind do not answer,
or that its time is up; a lemma about the rotation shows that a whole turn visits every
address. `OutageBounded` needs an invariant of its own, `Outage`: for every start `g` from
which an exchange succeeds, the failures so far, the exchanges that may still fail and the
draws until the rotation comes to `g` are together bounded, with `N - 1` more for each
exchange that already started there and has not yet ended the outage. A failure turns one of
the second kind into one of the first; a draw elsewhere turns one of the third into one of the
second; a draw at `g` begins a turn, which the exchange it commits pays for. TLC checked
`Outage` for three concurrent exchanges before it was proved.

**Daemon.** `LoadChecked` is about `Config`: what `Load` returns is usable, for every file.
`StageOK` ties the listeners to the stage of `main` and the signal goroutine, `QueriesOK` says
that a query of a draining listener has been in progress as long as the shutdown, and `ListsOK`
that on a host that resolves through the daemon full lists mean that a UDP listener has been
up, and that a load which could not resolve while the lists were full met a broken listener.

Only model-checked is *liveness*, since fairness and `ENABLED` are out of the prover's reach:
`EveryForwardReturns`, `NoGoroutineLeak`, `EveryLoadReturns`, `EveryQueryAnswered`,
`UncloakingTakesHold`, `EveryExchangeReturns`, `AllListenersOrNone`, `TerminationHonoured`,
`ColdStartRecovers`; and the violations.

## Not modelled

- Wire formats, TLS, HTTP and YAML: they are libraries; their results are inputs.
- `IsAllowedLocalDomain` and the address ranges of `FilterDNSRebinding`: a name is local or
  not, an answer private or not.
- Rules of the daemon that block the host of one of its own lists.
- Flags, banner, logging and its levels, `formatPortConflictError`: text only.
- `Len` of cache and log, `TotalRules`, `Address`: they only read.
- The deployment files.

## Plan

1. *Done:* every component above is modelled and checked, and every safety property that a run
   checks is proved as well, except those of the three runs that show a divergence.
2. *Left:* a proof that the verdict, the cache and the pool as `Handler` sees them are
   refined by `FilterEngine`, `LRUCache` and `Forwarder` (the cache already implements
   `CacheSpec`).
