------------------------------ MODULE DomainTrie -----------------------------
(***************************************************************************)
(* The label tree of internal/filter/engine.go as operators.  A domain is  *)
(* the sequence of its labels as written, some of which may be empty       *)
(* ("a..com"); a node is identified with the path that leads to it, that   *)
(* is, with the labels from right to left.                                 *)
(***************************************************************************)
EXTENDS Filtering, SequencesExt

(* NewDomainTrie: the root only, which is the empty path. *)
EmptyTrie == [nodes |-> {<< >>}, wildcard |-> {}, exact |-> {}, count |-> 0]

HasRules(t) == t.count > 0

(* iterateDomainLabelsReverse: right to left, empty labels skipped. *)
PathOf(domain) == Reverse(Without(domain, {""}))

UpTo(path, i) == SubSeq(path, 1, i)

(* Mutant: a rule without labels marks the root. *)
MutantMarkRoot(t, path, isWildcard) ==
    [nodes    |-> t.nodes \cup {UpTo(path, i) : i \in 1..Len(path)},
     wildcard |-> IF isWildcard THEN t.wildcard \cup {path} ELSE t.wildcard,
     exact    |-> IF isWildcard THEN t.exact ELSE t.exact \cup {path},
     count    |-> t.count + 1]

(* Insert, once the path is known. *)
InsertPath(t, path, isWildcard) ==
    IF path = << >> THEN t
    ELSE [nodes    |-> t.nodes \cup {UpTo(path, i) : i \in 1..Len(path)},
          wildcard |-> IF isWildcard THEN t.wildcard \cup {path} ELSE t.wildcard,
          exact    |-> IF isWildcard THEN t.exact ELSE t.exact \cup {path},
          count    |-> t.count + 1]

(* Insert: a leading "*." or "." makes any rule a wildcard rule.  A rule   *)
(* is [mark, labels], the text after normalizeDomain, split at that mark.  *)
Insert(t, rule, isWildcard) ==
    InsertPath(t, PathOf(rule.labels), isWildcard \/ rule.mark \in {"*.", "."})

(* The loops of LoadRules that put a sequence of rules into a tree, as     *)
(* wildcard rules.                                                         *)
InsertRules(t, rules) ==
    LET built[i \in 0..Len(rules)] ==
            IF i = 0 THEN t ELSE Insert(built[i - 1], rules[i], TRUE)
    IN  built[Len(rules)]

(* The depths the walk of Matches gets to: it goes on to a child that      *)
(* exists, and not beyond the first wildcard node.                         *)
Visited(t, path) ==
    {i \in 0..Len(path) : \A j \in 1..i :
        UpTo(path, j) \in t.nodes /\ (j < i => UpTo(path, j) \notin t.wildcard)}

(* Matches, once the path is known: the node at which the walk stopped is  *)
(* a wildcard node, or all labels were consumed and it is an exact one.    *)
MatchesPath(t, path) ==
    /\ t.count # 0
    /\ LET depth == CHOOSE i \in Visited(t, path) : \A j \in Visited(t, path) : j <= i
           curr  == UpTo(path, depth)
       IN  curr \in t.wildcard \/ (depth = Len(path) /\ curr \in t.exact)

Matches(t, domain) == MatchesPath(t, PathOf(domain))
=============================================================================
