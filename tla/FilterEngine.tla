----------------------------- MODULE FilterEngine ----------------------------
(***************************************************************************)
(* The filter engine, internal/filter/engine.go: LoadRules builds a new    *)
(* snapshot, in place, with one goroutine per remote list, and publishes   *)
(* it through an atomic pointer; IsBlocked reads the published one without *)
(* a lock.  LoadRules is called by main before the server starts, and then *)
(* by the signal goroutine (SIGHUP) and by the auto-update goroutine.      *)
(***************************************************************************)
EXTENDS DomainTrie

CONSTANTS
    URLs,        \* remote lists
    Files,       \* local lists
    Whitelist,   \* rule texts [mark, labels] of the configuration
    Blacklist,
    RegexHits,   \* the domains some valid configured regex matches
    FileRules,   \* file -> its rules
    URLRules,    \* list -> sequence of its versions, each a set of rules
    Domains,     \* the domains asked for
    MaxLoads     \* bound on the number of snapshots built

(* A rule text after normalizeDomain, split at the mark it begins with. *)
RuleTexts == [mark : {"", ".", "*."}, labels : Seq(STRING)]
IsList(rules) == rules \subseteq RuleTexts /\ IsFiniteSet(rules)

ASSUME EngineAssumption ==
    /\ MaxLoads \in Nat
    /\ IsList(Whitelist) /\ IsList(Blacklist)
    /\ IsFiniteSet(Files) /\ \A f \in Files : IsList(FileRules[f])
    /\ \A u \in URLs : /\ URLRules[u] \in Seq(SUBSET RuleTexts) /\ URLRules[u] # << >>
                       /\ \A v \in 1..Len(URLRules[u]) : IsList(URLRules[u][v])
    /\ Domains \subseteq Seq(STRING)

VARIABLES
    enabled,     \* cfg.Enabled, never changes
    version,     \* the version each remote server offers now
    heap,        \* every snapshot ever built, in the order of allocation
    snapshot,    \* the published pointer
    reloadMu,    \* holder of reloadMu, or "free"
    loader       \* the LoadRules call of each caller: [pc, snap, url, body]

vars == <<enabled, version, heap, snapshot, reloadMu, loader>>

Callers == {"main", "signal", "ticker"}

-----------------------------------------------------------------------------
(* A rule text goes to the tree if it is marked, else to the exact map. *)
Marked(rules) == {r \in rules : r.mark # ""}
Plain(rules) == {r.labels : r \in rules \ Marked(rules)}

InsertAll(t, rules) == InsertRules(t, SetToSeq(Marked(rules)))

AddBlack(s, rules) ==
    [s EXCEPT !.blacklistExact = @ \cup Plain(rules),
              !.blacklistTrie  = InsertAll(@, rules)]

(* NewEngine publishes an empty snapshot.  `vers' and `files' say which    *)
(* lists went in, for the properties.                                      *)
EmptySnapshot ==
    [whitelistExact |-> {}, whitelistTrie |-> EmptyTrie,
     blacklistExact |-> {}, blacklistTrie |-> EmptyTrie,
     regexBlacklist |-> {}, vers |-> [u \in URLs |-> 0], files |-> {}]

(* LoadRules up to the goroutines: whitelist, blacklist, regexes, and      *)
(* those of the local files that could be read.                            *)
LocalSnapshot(readable) ==
    AddBlack([EmptySnapshot EXCEPT !.whitelistExact = Plain(Whitelist),
                                   !.whitelistTrie  = InsertAll(@, Whitelist),
                                   !.regexBlacklist = RegexHits,
                                   !.files          = readable],
             Blacklist \cup UNION {FileRules[f] : f \in readable})

(* Mutant: the exact blacklist is looked at before the whitelist. *)
MutantBlacklistFirst(s, d) ==
    /\ enabled
    /\ \/ d \in s.blacklistExact
       \/ /\ d \notin s.whitelistExact
          /\ ~(HasRules(s.whitelistTrie) /\ Matches(s.whitelistTrie, d))
          /\ \/ HasRules(s.blacklistTrie) /\ Matches(s.blacklistTrie, d)
             \/ d \in s.regexBlacklist

IsBlocked(s, d) ==
    /\ enabled
    /\ d \notin s.whitelistExact
    /\ ~(HasRules(s.whitelistTrie) /\ Matches(s.whitelistTrie, d))
    /\ \/ d \in s.blacklistExact
       \/ HasRules(s.blacklistTrie) /\ Matches(s.blacklistTrie, d)
       \/ d \in s.regexBlacklist

-----------------------------------------------------------------------------
Resting == [pc |-> "idle", snap |-> 0, url |-> [u \in URLs |-> "done"], body |-> [u \in URLs |-> 0]]

Init ==
    /\ enabled \in BOOLEAN
    /\ version = [u \in URLs |-> 1]
    /\ heap = <<EmptySnapshot>>
    /\ snapshot = 1
    /\ reloadMu = "free"
    /\ loader = [l \in Callers |-> IF l = "main" /\ enabled
                                THEN [Resting EXCEPT !.pc = "wait"] ELSE Resting]

(* A remote server offers the next version of its list. *)
Update(u) ==
    /\ version[u] < Len(URLRules[u])
    /\ version' = [version EXCEPT ![u] = @ + 1]
    /\ UNCHANGED <<enabled, heap, snapshot, reloadMu, loader>>

(* SIGHUP or the ticker calls LoadRules; both goroutines are started after *)
(* main's own call returned, the ticker only if blocking is enabled.       *)
CallLoadRules(l) ==
    /\ loader["main"].pc = "idle" /\ loader[l].pc = "idle"
    /\ l = "signal" \/ (l = "ticker" /\ enabled)
    /\ Len(heap) + Cardinality({x \in Callers : loader[x].pc = "wait"}) <= MaxLoads
    /\ loader' = [loader EXCEPT ![l].pc = "wait"]
    /\ UNCHANGED <<enabled, version, heap, snapshot, reloadMu>>

(* LoadRules with blocking disabled: lock, return nil, unlock. *)
LoadDisabled(l) ==
    /\ loader[l].pc = "wait" /\ reloadMu = "free" /\ ~enabled
    /\ loader' = [loader EXCEPT ![l] = Resting]
    /\ UNCHANGED <<enabled, version, heap, snapshot, reloadMu>>

(* Mutant: reloads do not exclude each other. *)
MutantNoMutex(l) ==
    /\ loader[l].pc = "wait" /\ enabled
    /\ reloadMu' = l
    /\ heap' = Append(heap, LocalSnapshot(Files))
    /\ loader' = [loader EXCEPT ![l] = [Resting EXCEPT !.pc = "load", !.snap = Len(heap) + 1,
                                                       !.url = [u \in URLs |-> "get"]]]
    /\ UNCHANGED <<enabled, version, snapshot>>

(* LoadRules from the lock to the start of the fetch goroutines. *)
Lock(l) ==
    /\ loader[l].pc = "wait" /\ reloadMu = "free" /\ enabled
    /\ reloadMu' = l
    /\ \E readable \in SUBSET Files : heap' = Append(heap, LocalSnapshot(readable))
    /\ loader' = [loader EXCEPT ![l] = [Resting EXCEPT !.pc = "load", !.snap = Len(heap) + 1,
                                                       !.url = [u \in URLs |-> "get"]]]
    /\ UNCHANGED <<enabled, version, snapshot>>

(* FetchURL returned the list as it was at that moment... *)
FetchOK(l, u) ==
    /\ loader[l].url[u] = "get"
    /\ loader' = [loader EXCEPT ![l].url[u] = "have", ![l].body[u] = version[u]]
    /\ UNCHANGED <<enabled, version, heap, snapshot, reloadMu>>

(* ... or an error (status, timeout, cancelled context): it is logged. *)
FetchFail(l, u) ==
    /\ loader[l].url[u] = "get"
    /\ loader' = [loader EXCEPT ![l].url[u] = "done"]
    /\ UNCHANGED <<enabled, version, heap, snapshot, reloadMu>>

(* The goroutine adds the fetched rules to the new snapshot under urlMu. *)
Merge(l, u) ==
    /\ loader[l].url[u] = "have"
    /\ LET v == loader[l].body[u] IN
       heap' = [heap EXCEPT ![loader[l].snap] =
                  [AddBlack(@, URLRules[u][v]) EXCEPT !.vers[u] = v]]
    /\ loader' = [loader EXCEPT ![l].url[u] = "done"]
    /\ UNCHANGED <<enabled, version, snapshot, reloadMu>>

(* Mutant: the snapshot is published without waiting for the goroutines. *)
MutantNoWait(l) ==
    /\ loader[l].pc = "load"
    /\ snapshot' = loader[l].snap
    /\ reloadMu' = "free"
    /\ loader' = [loader EXCEPT ![l].pc = "idle"]
    /\ UNCHANGED <<enabled, version, heap>>

(* Mutant: the mutex is not unlocked. *)
MutantNoUnlock(l) ==
    /\ loader[l].pc = "load"
    /\ \A u \in URLs : loader[l].url[u] = "done"
    /\ snapshot' = loader[l].snap
    /\ loader' = [loader EXCEPT ![l] = Resting]
    /\ UNCHANGED <<enabled, version, heap, reloadMu>>

(* wg.Wait, snapshot.Store and the deferred unlock. *)
Publish(l) ==
    /\ loader[l].pc = "load"
    /\ \A u \in URLs : loader[l].url[u] = "done"
    /\ snapshot' = loader[l].snap
    /\ reloadMu' = "free"
    /\ loader' = [loader EXCEPT ![l] = Resting]
    /\ UNCHANGED <<enabled, version, heap>>

Fetching(l) == \E u \in URLs : FetchOK(l, u) \/ FetchFail(l, u) \/ Merge(l, u)
LoadRules(l) == LoadDisabled(l) \/ Lock(l) \/ Fetching(l) \/ Publish(l)

Next ==
    \/ \E u \in URLs : Update(u)
    \/ \E l \in Callers : CallLoadRules(l) \/ LoadRules(l)

(* The callers are goroutines: each is run as long as it can run, a fetch  *)
(* ends by its timeout at the latest, and sync.Mutex hands the lock to a   *)
(* waiter that has starved for a millisecond (strong fairness).            *)
Fairness == \A l \in Callers : /\ WF_vars(Fetching(l)) /\ WF_vars(Publish(l))
                               /\ SF_vars(Lock(l) \/ LoadDisabled(l))

Spec == Init /\ [][Next]_vars /\ Fairness

-----------------------------------------------------------------------------
(* The type of the control state; the mutex is held by exactly the caller  *)
(* that is building a snapshot.                                            *)
TypeOK ==
    /\ \A l \in Callers : reloadMu = l <=> loader[l].pc = "load"
    /\ version \in [URLs -> Nat]
    /\ snapshot \in 1..Len(heap)
    /\ reloadMu \in Callers \cup {"free"}
    /\ loader \in [Callers -> [pc : {"idle", "wait", "load"}, snap : 0..Len(heap),
                               url : [URLs -> {"get", "have", "done"}], body : [URLs -> Nat]]]

(* A snapshot that readers may hold is immutable: once published, no       *)
(* goroutine of the load that built it, nor any later load, changes it.    *)
PublishedFrozen ==
    [][\A i \in 1..Len(heap) : i <= snapshot => heap'[i] = heap[i]]_vars

(* Reloads by SIGHUP and by the ticker may overlap, and their fetches may  *)
(* return in any order, but a published list is never replaced by an older *)
(* version of itself.                                                      *)
ListsNeverGoBack ==
    [][snapshot' # snapshot =>
         \A u \in URLs, i \in 1..Len(heap) :
             i <= snapshot /\ heap'[snapshot'].vers[u] # 0
                => heap[i].vers[u] <= heap'[snapshot'].vers[u]]_vars

(* The reference for a verdict: some rule covers the domain. *)
CoveredBy(rules, d) ==
    \E r \in rules :
        IF r.mark = "" THEN r.labels = d
        ELSE PathOf(r.labels) # << >> /\ IsPrefix(PathOf(r.labels), PathOf(d))

ListedIn(s) ==
    Blacklist \cup (UNION {FileRules[f] : f \in s.files})
              \cup (UNION {URLRules[u][s.vers[u]] : u \in {x \in URLs : s.vers[x] > 0}})

(* Every verdict of the published rules is the one the configuration and   *)
(* the lists that went into it call for: a whitelisted domain is never     *)
(* blocked, whichever list names it and in whichever order the lists were  *)
(* merged; any other domain is blocked exactly if some list names it.      *)
VerdictAsConfigured ==
    snapshot > 1 => \A d \in Domains :
        IsBlocked(heap[snapshot], d) <=>
            /\ ~CoveredBy(Whitelist, d)
            /\ CoveredBy(ListedIn(heap[snapshot]), d) \/ d \in RegexHits

(* Every call of LoadRules returns, however the other caller competes for *)
(* the mutex and whichever fetches fail.                                   *)
EveryLoadReturns == \A l \in Callers : loader[l].pc = "wait" ~> loader[l].pc = "idle"
=============================================================================
