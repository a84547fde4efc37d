------------------------------- MODULE ListLoad ------------------------------
(***************************************************************************)
(* Blocklists on their way into a snapshot: ParseHosts, normalizeDomain    *)
(* and isValidDomain of internal/filter/loader.go, and the loops of        *)
(* LoadRules that put what they return into the exact map or the tree.     *)
(* A token is the sequence of its pieces: labels, the decorations "||",    *)
(* "^", "*", ".", and "#".  A line is the sequence of its tokens.          *)
(***************************************************************************)
EXTENDS DomainTrie

CONSTANTS
    Lines,       \* the lines lists are made of
    Queries,     \* the names asked for, as tokens
    LowerCase,   \* the lower case of those pieces that are not in lower case
    Bad,         \* labels with a character that no domain has
    IgnoredHosts,\* the names of ignoredHosts
    MaxLen,      \* the length of the longest valid token (253 characters in the code)
    MaxLines     \* bound on the number of lines read

Pieces == STRING \ {""}
Punctuation == {"||", "^", "*", ".", "#"}

(* A name on the wire: labels, each with a dot behind it; the root is the  *)
(* dot alone.                                                              *)
IsName(q) ==
    /\ q \in Seq(Pieces)
    /\ \/ q = <<".">>
       \/ /\ Len(q) % 2 = 0
          /\ \A i \in DOMAIN q : IF i % 2 = 0 THEN q[i] = "." ELSE q[i] \notin Punctuation

(* Tokens are not empty, only labels have a lower case, and the hosts that *)
(* are ignored are not marked as wildcards.                                *)
WellFormed ==
    /\ Lines \subseteq Seq(Seq(Pieces)) /\ \A l \in Lines : \A i \in DOMAIN l : l[i] # << >>
    /\ \A q \in Queries : IsName(q)
    /\ LowerCase \in [DOMAIN LowerCase -> Pieces \ (Punctuation \cup DOMAIN LowerCase)]
    /\ DOMAIN LowerCase \cap Punctuation = {}
    /\ Bad \cap Punctuation = {}
    /\ IgnoredHosts \subseteq Seq(Pieces) /\ \A h \in IgnoredHosts : h # << >> /\ h[1] \notin {"*", "."}
    /\ MaxLen \in Nat /\ MaxLines \in Nat

ASSUME ListLoadAssumption == WellFormed

VARIABLES
    domains,         \* the list being parsed: its domains so far, which is also `seen'
    blacklistExact,  \* the snapshot being built
    blacklistTrie,
    reading,         \* history: the lines of the list being parsed
    loaded,          \* history: the lines of the lists that are in the snapshot
    lines            \* the number of lines read

listVars == <<domains, blacklistExact, blacklistTrie, reading, loaded, lines>>

-----------------------------------------------------------------------------
ToLower(d) == [i \in DOMAIN d |-> IF d[i] \in DOMAIN LowerCase THEN LowerCase[d[i]] ELSE d[i]]

TrimPrefix(d, p) == IF IsPrefix(p, d) THEN SubSeq(d, Len(p) + 1, Len(d)) ELSE d
TrimSuffix(d, p) == IF IsSuffix(p, d) THEN SubSeq(d, 1, Len(d) - Len(p)) ELSE d

(* Mutant: the dot goes before the caret that follows it. *)
MutantDotFirst(d) ==
    TrimSuffix(TrimSuffix(TrimPrefix(TrimPrefix(ToLower(d), <<"||">>), <<"^">>), <<".">>), <<"^">>)

normalizeDomain(d) ==
    TrimSuffix(TrimSuffix(TrimPrefix(TrimPrefix(ToLower(d), <<"||">>), <<"^">>), <<"^">>), <<".">>)

isValidDomain(d) ==
    LET clean == TrimPrefix(TrimPrefix(d, <<"*", ".">>), <<".">>)
    IN  /\ d # << >> /\ Len(d) <= MaxLen
        /\ d \notin IgnoredHosts
        /\ clean # << >>
        /\ ToSet(clean) \cap (Bad \cup {"||", "^", "*"}) = {}

(* The line up to the first "#", which may stand inside a token. *)
StripComment(line) ==
    LET commented == {i \in DOMAIN line : "#" \in ToSet(line[i])}
        first     == Min(commented)
        cut       == Min({i \in DOMAIN line[first] : line[first][i] = "#"}) - 1
    IN  IF commented = {} THEN line
        ELSE SubSeq(line, 1, first - 1)
             \o (IF cut = 0 THEN << >> ELSE <<SubSeq(line[first], 1, cut)>>)

HostsAddresses == {<<"0.0.0.0">>, <<"127.0.0.1">>, <<"::1">>, <<"::">>}

(* The fields of a line that may be domains: all, or all but the address   *)
(* in front of a line in hosts format.                                     *)
Candidates(line) ==
    LET fields == StripComment(line)
    IN  IF fields # << >> /\ Head(fields) \in HostsAddresses THEN Tail(fields) ELSE fields

Parsed(line) == {d \in {normalizeDomain(t) : t \in ToSet(Candidates(line))} : isValidDomain(d)}

(* The test of LoadRules for the tree, made on the text of the parser. *)
IsMarked(d) == IsPrefix(<<"*", ".">>, d) \/ IsPrefix(<<".">>, d)

(* The text that Insert and Matches see: they normalise once more. *)
Labels(d) == Without(d, {"."})
Rule(d) ==
    LET n == normalizeDomain(d)
    IN  [mark   |-> IF IsPrefix(<<"*", ".">>, n) THEN "*." ELSE IF IsMarked(n) THEN "." ELSE "",
         labels |-> Labels(TrimPrefix(n, <<"*", ".">>))]

InsertTexts(t, texts) ==
    LET order == SetToSeq(texts)
    IN  InsertRules(t, [i \in DOMAIN order |-> Rule(order[i])])

(* IsBlocked against the snapshot, without whitelist and expressions. *)
Blocks(q) ==
    LET d == normalizeDomain(q)
    IN  /\ d # << >>
        /\ \/ d \in blacklistExact
           \/ HasRules(blacklistTrie) /\ Matches(blacklistTrie, Labels(normalizeDomain(d)))

-----------------------------------------------------------------------------
ListInit ==
    /\ domains = {} /\ reading = {} /\ loaded = {} /\ lines = 0
    /\ blacklistExact = {} /\ blacklistTrie = EmptyTrie

(* One round of the scanner. *)
ScanLine(line) ==
    /\ lines < MaxLines /\ lines' = lines + 1
    /\ domains' = domains \cup Parsed(line)
    /\ reading' = reading \cup {line}
    /\ UNCHANGED <<blacklistExact, blacklistTrie, loaded>>

(* Mutant: the domains read before an error are used. *)
MutantKeepPart ==
    /\ reading # {}
    /\ domains' = {} /\ reading' = {}
    /\ blacklistExact' = blacklistExact \cup {d \in domains : ~IsMarked(d)}
    /\ blacklistTrie' = InsertTexts(blacklistTrie, {d \in domains : IsMarked(d)})
    /\ UNCHANGED <<loaded, lines>>

(* The scanner stops at an error: the connection breaks, the line is too   *)
(* long, the context is cancelled.  LoadRules logs it and takes nothing.   *)
ReadFails ==
    /\ reading # {}
    /\ domains' = {} /\ reading' = {}
    /\ UNCHANGED <<blacklistExact, blacklistTrie, loaded, lines>>

(* The end of the list: what it named goes into the snapshot. *)
EndOfList ==
    /\ reading # {}
    /\ domains' = {} /\ reading' = {}
    /\ blacklistExact' = blacklistExact \cup {d \in domains : ~IsMarked(d)}
    /\ blacklistTrie' = InsertTexts(blacklistTrie, {d \in domains : IsMarked(d)})
    /\ loaded' = loaded \cup reading
    /\ UNCHANGED lines

ListNext == (\E line \in Lines : ScanLine(line)) \/ ReadFails \/ EndOfList

ListSpec == ListInit /\ [][ListNext]_listVars

-----------------------------------------------------------------------------
Paths == Seq(STRING)

(* The shape of the tree while lists go in, one after another: every       *)
(* marked node has all its ancestors, the root is never marked, not even   *)
(* by a rule whose second normalisation leaves it without labels; and      *)
(* nothing that is not valid has come through the parser.                  *)
TreeOK ==
    /\ blacklistTrie \in [nodes : SUBSET Paths, wildcard : SUBSET Paths, exact : SUBSET Paths, count : Nat]
    /\ blacklistTrie.exact = {}
    /\ \A p \in blacklistTrie.wildcard :
          p # << >> /\ \A i \in 1..Len(p) : UpTo(p, i) \in blacklistTrie.nodes
    /\ \A d \in blacklistExact \cup domains : isValidDomain(d)

(* The reference: the spellings of a rule for a name, built up instead of  *)
(* stripped down.                                                          *)
Dotted(labels) == [i \in 1..(2 * Len(labels) - 1) |-> IF i % 2 = 1 THEN labels[(i + 1) \div 2] ELSE "."]
Opening == {<< >>, <<"||">>, <<"^">>, <<"||", "^">>}
Closing == {<< >>, <<"^">>, <<".">>, <<".", "^">>}
Marks == {<<"*", ".">>, <<".">>}

Spells(t, text) == \E o \in Opening, c \in Closing : ToLower(t) = o \o text \o c

(* A token names the domain itself, or a domain at or above it, marked. *)
Names(t, name) ==
    \/ /\ name # << >> /\ Spells(t, Dotted(name))
       /\ Dotted(name) \notin IgnoredHosts /\ t \notin HostsAddresses
    \/ \E i \in DOMAIN name, m \in Marks : Spells(t, m \o Dotted(SubSeq(name, i, Len(name))))

NameOf(q) == Labels(ToLower(q))
Tokens(ls) == UNION {ToSet(StripComment(l)) : l \in ls}

(* Every name that a token of a completely read list spells out, in plain, *)
(* hosts or AdGuard syntax, in any case, alone or among others, before the *)
(* comment, is blocked, whatever else stands in the lists: unless it is    *)
(* too long or has a character that no domain has.                         *)
ListedIsBlocked ==
    \A q \in Queries :
        (\E t \in Tokens(loaded) :
            Len(t) <= MaxLen /\ ToSet(ToLower(t)) \cap Bad = {} /\ Names(t, NameOf(q))) => Blocks(q)

(* Nothing else is: whichever malformed token is in the lists, dots only,  *)
(* decorations in the wrong order or too many of them, a name is blocked   *)
(* only if the words of some token are that name's, or, for a token that   *)
(* begins with a wildcard mark, the end of that name; and a list that      *)
(* could not be read to its end blocks nothing.                            *)
Words(t) == Without(ToLower(t), {"||", "^", "*", "."})
Opens(t) == \E o \in Opening, m \in Marks : IsPrefix(o \o m, t)

NothingElseBlocked ==
    \A q \in Queries : Blocks(q) =>
        \E t \in Tokens(loaded) :
            \/ Words(t) = NameOf(q)
            \/ Opens(t) /\ Words(t) # << >> /\ IsSuffix(Words(t), NameOf(q))
=============================================================================
