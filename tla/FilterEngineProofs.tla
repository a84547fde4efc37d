-------------------------- MODULE FilterEngineProofs -------------------------
(***************************************************************************)
(* Proofs about FilterEngine, for any lists, rules and number of loads:    *)
(* which snapshot is written and published when, which versions went in,   *)
(* and what its rule tree decides.  Then, about the same tree, the proofs  *)
(* of ListLoad, for any lines, names and number of lists.                  *)
(***************************************************************************)
EXTENDS FilterEngine, ListLoad, Lemmas, FiniteSetTheorems, SequenceTheorems, TLAPS

-----------------------------------------------------------------------------
(* The rule tree.  Its shape: no node is marked exact, the root is not     *)
(* marked, a marked node has its ancestors, and a rule is counted exactly  *)
(* if some node is marked.                                                 *)
TrieType == [nodes : SUBSET Paths, wildcard : SUBSET Paths, exact : SUBSET Paths, count : Nat]

TrieOK(t) ==
    /\ t \in TrieType /\ t.exact = {}
    /\ << >> \notin t.wildcard
    /\ \A p \in t.wildcard : \A i \in 1..Len(p) : UpTo(p, i) \in t.nodes
    /\ t.count = 0 <=> t.wildcard = {}

(* The start of a path. *)
LEMMA UpToFacts ==
    ASSUME NEW path \in Paths, NEW i \in 0..Len(path)
    PROVE  /\ UpTo(path, i) \in Paths /\ Len(UpTo(path, i)) = i
           /\ \A j \in 0..i : UpTo(UpTo(path, i), j) = UpTo(path, j)
<1>1. Len(path) \in Nat /\ path \in Seq(STRING)
  BY DEF Paths
<1>2. ASSUME NEW s \in Seq(STRING), NEW j \in 0..Len(s)
      PROVE  /\ SubSeq(s, 1, j) \in Seq(STRING) /\ Len(SubSeq(s, 1, j)) = j
             /\ \A k \in 1..j : SubSeq(s, 1, j)[k] = s[k]
  <2>1. Len(s) \in Nat
    OBVIOUS
  <2>2. CASE j = 0
    BY <2>2, SubSeqEmpty
  <2>3. CASE j # 0
    <3>1. 1 \in 1..(Len(s) + 1) /\ j \in 0..Len(s) /\ (1 <= j) /\ j - 1 + 1 = j
      BY <2>1, <2>3
    <3>2. /\ SubSeq(s, 1, j) \in Seq(STRING)
          /\ Len(SubSeq(s, 1, j)) = IF 1 <= j THEN j - 1 + 1 ELSE 0
          /\ \A k \in 1..(j - 1 + 1) : SubSeq(s, 1, j)[k] = s[1 + k - 1]
      BY <3>1, SubSeqProperties
    <3>3. \A k \in 1..j : 1 + k - 1 = k
      BY <2>1
    <3> QED
      BY <3>1, <3>2, <3>3
  <2> QED
    BY <2>2, <2>3
<1> DEFINE q == SubSeq(path, 1, i)
<1>3. q \in Seq(STRING) /\ Len(q) = i /\ \A k \in 1..i : q[k] = path[k]
  BY <1>1, <1>2
<1>4. ASSUME NEW j \in 0..i PROVE SubSeq(q, 1, j) = SubSeq(path, 1, j)
  <2> HIDE DEF q
  <2>1. j \in 0..Len(q) /\ j \in 0..Len(path)
    BY <1>1, <1>3
  <2> DEFINE a == SubSeq(q, 1, j)
             b == SubSeq(path, 1, j)
  <2>2. a \in Seq(STRING) /\ Len(a) = j /\ \A k \in 1..j : a[k] = q[k]
    BY <1>2, <1>3, <2>1
  <2>3. b \in Seq(STRING) /\ Len(b) = j /\ \A k \in 1..j : b[k] = path[k]
    BY <1>1, <1>2, <2>1
  <2> HIDE DEF a, b
  <2>4. \A k \in 1..j : a[k] = b[k]
    BY <1>1, <1>3, <2>2, <2>3
  <2>5. a = b
    BY <2>2, <2>3, <2>4, SeqEqual
  <2> QED
    BY <2>5 DEF a, b
<1> QED
  BY <1>3, <1>4 DEF UpTo, Paths

LEMMA UpToAll ==
    ASSUME NEW path \in Paths PROVE UpTo(path, Len(path)) = path
  BY SubSeqFull DEF UpTo, Paths

LEMMA PrefixIsStart ==
    ASSUME NEW p \in Paths, NEW path \in Paths
    PROVE  IsPrefix(p, path) <=> Len(p) <= Len(path) /\ UpTo(path, Len(p)) = p
<1>1. SubSeq(p, 1, Len(p)) = p
  BY SubSeqFull DEF Paths
<1> QED
  BY <1>1, Zenon DEF IsPrefix, UpTo

(* The walk of Matches, which stops at the first wildcard node, finds one  *)
(* exactly if the path of some rule is the start of the domain's path.     *)
LEMMA WalkMatches ==
    ASSUME NEW t, TrieOK(t), NEW path \in Paths
    PROVE  MatchesPath(t, path) <=> \E p \in t.wildcard : IsPrefix(p, path)
<1> DEFINE n == Len(path)
           V == Visited(t, path)
           depth == CHOOSE i \in V : \A j \in V : j <= i
           curr == UpTo(path, depth)
<1>1. n \in Nat
  BY DEF Paths
<1>2. t.wildcard \subseteq Paths /\ t.exact = {} /\ t.count \in Nat
  BY DEF TrieOK, TrieType
<1>3. MatchesPath(t, path) <=> t.count # 0 /\ (curr \in t.wildcard \/ (depth = n /\ curr \in t.exact))
  BY DEF MatchesPath
<1>4. V \subseteq 0..n /\ 0 \in V
  BY <1>1 DEF Visited
<1>5. depth \in V /\ \A j \in V : j <= depth
  <2> HIDE DEF n, V
  <2>1. \E i \in V : \A j \in V : j <= i
    BY <1>1, <1>4, GreatestNumber
  <2> QED
    BY <2>1
<1> HIDE DEF depth
<1>6. curr \in Paths /\ Len(curr) = depth
  BY <1>4, <1>5, UpToFacts
<1>7. ASSUME MatchesPath(t, path) PROVE \E p \in t.wildcard : IsPrefix(p, path)
  <2>1. curr \in t.wildcard
    BY <1>2, <1>3, <1>7
  <2>2. IsPrefix(curr, path)
    BY <1>1, <1>4, <1>5, <1>6, PrefixIsStart
  <2> QED
    BY <2>1, <2>2
<1>8. ASSUME NEW p \in t.wildcard, IsPrefix(p, path) PROVE MatchesPath(t, path)
  <2> DEFINE W == {j \in 0..n : UpTo(path, j) \in t.wildcard}
  <2>1. Len(p) \in 0..n /\ UpTo(path, Len(p)) = p
    <3>1. p \in Paths /\ Len(p) \in Nat
      BY <1>2 DEF Paths
    <3> QED
      BY <1>1, <1>8, <3>1, PrefixIsStart
  <2>2. W \subseteq Nat /\ W # {}
    BY <1>1, <2>1
  <2>3. PICK k \in W : \A j \in W : k <= j
    <3> HIDE DEF W
    <3> QED
      BY <2>2, LeastNumber
  <2>4. k \in 0..n /\ UpTo(path, k) \in t.wildcard
    BY <2>3
  <2>5. \A j \in 1..k : UpTo(path, j) \in t.nodes
    <3> DEFINE q == UpTo(path, k)
    <3>1. Len(q) = k /\ \A j \in 0..k : UpTo(q, j) = UpTo(path, j)
      BY <2>4, UpToFacts
    <3>2. \A i \in 1..Len(q) : UpTo(q, i) \in t.nodes
      BY <2>4 DEF TrieOK
    <3> HIDE DEF q
    <3>3. \A j \in 1..k : j \in 0..k
      BY <1>1, <2>4
    <3> QED
      BY <3>1, <3>2, <3>3, Zenon
  <2>6. \A j \in 1..k : j < k => UpTo(path, j) \notin t.wildcard
    BY <1>1, <2>3, <2>4
  <2>7. k \in V
    BY <2>4, <2>5, <2>6 DEF Visited
  <2>8. k # 0
    <3>1. UpTo(path, 0) \in Paths /\ Len(UpTo(path, 0)) = 0
      BY <1>1, UpToFacts
    <3>2. UpTo(path, 0) = << >>
      BY <3>1, EmptySeq DEF Paths
    <3> QED
      BY <2>4, <3>2 DEF TrieOK
  <2>9. ASSUME NEW j \in V PROVE j <= k
    <3>1. j \in 0..n
      BY <1>4
    <3>2. \A x \in 1..j : x < j => UpTo(path, x) \notin t.wildcard
      BY DEF Visited
    <3> QED
      BY <1>1, <2>4, <2>8, <3>1, <3>2
  <2>10. depth = k
    <3>1. depth \in 0..n /\ k <= depth /\ depth <= k
      BY <1>4, <1>5, <2>7, <2>9
    <3> QED
      BY <1>1, <2>4, <3>1
  <2>11. t.count # 0
    BY <1>8 DEF TrieOK
  <2> QED
    BY <1>3, <2>4, <2>10, <2>11
<1> QED
  BY <1>7, <1>8

-----------------------------------------------------------------------------
(* Rules go into the tree one after another. *)
LEMMA PathType ==
    ASSUME NEW d \in Seq(STRING) PROVE PathOf(d) \in Paths
<1> DEFINE w == Without(d, {""})
<1>1. w \in Seq(STRING)
  BY WithoutType
<1> HIDE DEF w
<1>2. Reverse(w) \in Seq(STRING)
  BY <1>1 DEF Reverse
<1> QED
  BY <1>2 DEF w, PathOf, Paths

LEMMA InsertOne ==
    ASSUME NEW t \in TrieType, NEW rule \in RuleTexts, NEW s, s = Insert(t, rule, TRUE)
    PROVE  /\ s \in TrieType
           /\ s.wildcard = t.wildcard \cup ({PathOf(rule.labels)} \ {<< >>})
           /\ TrieOK(t) => TrieOK(s)
<1> DEFINE path == PathOf(rule.labels)
<1>1. rule.labels \in Seq(STRING)
  BY DEF RuleTexts
<1>2. path \in Paths
  BY <1>1, PathType
<1>3. s = InsertPath(t, path, TRUE)
  BY DEF Insert
<1> HIDE DEF path
<1>4. CASE path = << >>
  <2>1. s = t
    BY <1>3, <1>4 DEF InsertPath
  <2> QED
    BY <1>4, <2>1 DEF path
<1>5. CASE path # << >>
  <2> DEFINE N == {UpTo(path, i) : i \in 1..Len(path)}
  <2>1. s = [nodes |-> t.nodes \cup N, wildcard |-> t.wildcard \cup {path}, exact |-> t.exact, count |-> t.count + 1]
    BY <1>3, <1>5 DEF InsertPath
  <2>2. N \subseteq Paths
    <3>1. ASSUME NEW i \in 1..Len(path) PROVE UpTo(path, i) \in Paths
      <4>1. i \in 0..Len(path)
        BY <1>2 DEF Paths
      <4> QED
        BY <1>2, <4>1, UpToFacts
    <3> QED
      BY <3>1
  <2>3. \A i \in 1..Len(path) : UpTo(path, i) \in N
    OBVIOUS
  <2> HIDE DEF N
  <2>4. /\ t.nodes \subseteq Paths /\ t.wildcard \subseteq Paths /\ t.exact \subseteq Paths /\ t.count \in Nat
    BY DEF TrieType
  <2>5. /\ s \in TrieType /\ s.nodes = t.nodes \cup N /\ s.wildcard = t.wildcard \cup {path}
        /\ s.exact = t.exact /\ s.count = t.count + 1
    <3> DEFINE ns == t.nodes \cup N
               ws == t.wildcard \cup {path}
               es == t.exact
               c == t.count + 1
    <3>1. ns \in SUBSET Paths /\ ws \in SUBSET Paths /\ es \in SUBSET Paths /\ c \in Nat
      BY <1>2, <2>2, <2>4
    <3>2. s = [nodes |-> ns, wildcard |-> ws, exact |-> es, count |-> c]
      BY <2>1
    <3> HIDE DEF ns, ws, es, c
    <3>3. s.nodes = ns /\ s.wildcard = ws /\ s.exact = es /\ s.count = c
      BY ONLY <3>2, Zenon
    <3>4. [nodes |-> ns, wildcard |-> ws, exact |-> es, count |-> c] \in TrieType
      BY ONLY <3>1 DEF TrieType
    <3> QED
      BY <3>2, <3>3, <3>4 DEF ns, ws, es, c
  <2>6. ASSUME TrieOK(t) PROVE TrieOK(s)
    <3>1. << >> \notin s.wildcard
      BY <1>5, <2>5, <2>6 DEF TrieOK
    <3>2. ASSUME NEW p \in s.wildcard, NEW i \in 1..Len(p) PROVE UpTo(p, i) \in s.nodes
      BY <2>3, <2>5, <2>6, <3>2 DEF TrieOK
    <3>3. s.count # 0 /\ s.wildcard # {}
      <4>1. \A c \in Nat : c + 1 # 0
        OBVIOUS
      <4>2. s.count # 0
        BY <2>4, <2>5, <4>1, Zenon
      <4> QED
        BY <2>5, <4>2
    <3> QED
      BY <2>5, <2>6, <3>1, <3>2, <3>3 DEF TrieOK
  <2>7. {path} \ {<< >>} = {path}
    BY <1>5
  <2> QED
    BY <2>5, <2>6, <2>7 DEF path
<1> QED
  BY <1>4, <1>5

(* The recursive function by which InsertRules is defined exists. *)
LEMMA BuiltDef ==
    ASSUME NEW t \in TrieType, NEW rules \in Seq(RuleTexts)
    PROVE  \E b : /\ \A i \in 0..Len(rules) : b[i] \in TrieType
                  /\ b[0] = t
                  /\ \A i \in 1..Len(rules) : b[i] = Insert(b[i - 1], rules[i], TRUE)
                  /\ InsertRules(t, rules) = b[Len(rules)]
<1> DEFINE n == Len(rules)
           Body(g, i) == IF i = 0 THEN t ELSE Insert(g[i - 1], rules[i], TRUE)
           Def(g) == g = [i \in 0..n |-> Body(g, i)]
           step == [x \in TrieType \X (1..n) |-> Insert(x[1], rules[x[2]], TRUE)]
<1>1. n \in Nat /\ \A i \in 1..n : rules[i] \in RuleTexts
  OBVIOUS
<1>2. \A x \in TrieType, i \in 1..n : Insert(x, rules[i], TRUE) \in TrieType
  BY <1>1, InsertOne
<1>3. step \in [TrieType \X (1..n) -> TrieType]
  BY <1>2
<1>4. \A x \in TrieType, i \in 1..n : step[<<x, i>>] = Insert(x, rules[i], TRUE)
  OBVIOUS
<1> HIDE DEF step, n
<1>5. PICK g \in [0..n -> TrieType] : ByRecursion(g, n, t, step)
  BY <1>1, <1>3, Recursion
<1>6. g[0] = t /\ \A i \in 1..n : g[i] = step[<<g[i - 1], i>>]
  BY <1>5 DEF ByRecursion
<1>7. ASSUME NEW i \in 0..n PROVE g[i] = Body(g, i)
  <2>1. CASE i = 0
    BY <1>6, <2>1
  <2>2. CASE i # 0
    <3>1. i \in 1..n /\ i - 1 \in 0..n
      BY <1>1, <2>2
    <3>2. g[i - 1] \in TrieType
      BY <3>1
    <3> QED
      BY <1>4, <1>6, <2>2, <3>1, <3>2
  <2> QED
    BY <2>1, <2>2
<1>8. Def(g)
  <2>1. g = [i \in 0..n |-> g[i]]
    OBVIOUS
  <2> HIDE DEF Body
  <2> QED
    BY <1>7, <2>1
<1> DEFINE b == CHOOSE f : Def(f)
<1>9. Def(b)
  <2> HIDE DEF Def
  <2> QED
    BY <1>8
<1>10. InsertRules(t, rules) = b[n]
  BY DEF InsertRules, n
<1> HIDE DEF b
<1>11. \A i \in 0..n : b[i] = Body(b, i)
  <2> HIDE DEF Body
  <2> QED
    BY <1>9
<1>12. b[0] = t /\ \A i \in 1..n : b[i] = Insert(b[i - 1], rules[i], TRUE)
  BY <1>1, <1>11
<1>13. \A i \in 0..n : b[i] \in TrieType
  <2> DEFINE Good == {i \in 0..n : b[i] \in TrieType}
  <2>1. 0 \in Good
    BY <1>1, <1>12
  <2>2. ASSUME NEW i \in 0..(n - 1), i \in Good PROVE i + 1 \in Good
    <3>1. i + 1 \in 1..n /\ (i + 1) - 1 = i
      BY <1>1
    <3>2. b[i + 1] = Insert(b[i], rules[i + 1], TRUE)
      BY <1>12, <3>1
    <3>3. b[i] \in TrieType /\ i + 1 \in 0..n
      BY <1>1, <2>2
    <3>4. b[i + 1] \in TrieType
      BY <1>2, <3>1, <3>2, <3>3, Zenon
    <3> QED
      BY <3>3, <3>4
  <2> HIDE DEF Good
  <2>3. \A i \in 0..n : i \in Good
    BY <1>1, <2>1, <2>2, Induction
  <2> QED
    BY <2>3 DEF Good
<1> QED
  BY <1>10, <1>12, <1>13 DEF n

(* Whatever the order, the marked nodes are those of the rules. *)
LEMMA InsertMany ==
    ASSUME NEW t, TrieOK(t), NEW rules \in Seq(RuleTexts)
    PROVE  /\ TrieOK(InsertRules(t, rules))
           /\ InsertRules(t, rules).wildcard =
                 t.wildcard \cup ({PathOf(rules[i].labels) : i \in 1..Len(rules)} \ {<< >>})
<1> DEFINE n == Len(rules)
           Added(k) == {PathOf(rules[i].labels) : i \in 1..k} \ {<< >>}
<1>1. n \in Nat /\ (\A i \in 1..n : rules[i] \in RuleTexts) /\ t \in TrieType
  BY DEF TrieOK
<1>2. PICK b : /\ \A i \in 0..n : b[i] \in TrieType
               /\ b[0] = t
               /\ \A i \in 1..n : b[i] = Insert(b[i - 1], rules[i], TRUE)
               /\ InsertRules(t, rules) = b[n]
  BY <1>1, BuiltDef
<1> HIDE DEF n
<1> DEFINE Good == {i \in 0..n : TrieOK(b[i]) /\ b[i].wildcard = t.wildcard \cup Added(i)}
<1>3. 0 \in Good
  <2>1. Added(0) = {}
    OBVIOUS
  <2> HIDE DEF Added
  <2> QED
    BY <1>1, <1>2, <2>1
<1>4. ASSUME NEW i \in 0..(n - 1), i \in Good PROVE i + 1 \in Good
  <2>1. i + 1 \in 1..n /\ (i + 1) - 1 = i /\ i \in 0..n
    BY <1>1
  <2>2. b[i + 1] = Insert(b[i], rules[i + 1], TRUE) /\ b[i] \in TrieType /\ rules[i + 1] \in RuleTexts
    BY <1>1, <1>2, <2>1
  <2>3. /\ b[i + 1].wildcard = b[i].wildcard \cup ({PathOf(rules[i + 1].labels)} \ {<< >>})
        /\ TrieOK(b[i]) => TrieOK(b[i + 1])
    <3> DEFINE x == b[i]
               y == b[i + 1]
               rule == rules[i + 1]
    <3>1. x \in TrieType /\ rule \in RuleTexts /\ y = Insert(x, rule, TRUE)
      BY <2>2
    <3> HIDE DEF x, y, rule
    <3>2. y.wildcard = x.wildcard \cup ({PathOf(rule.labels)} \ {<< >>}) /\ (TrieOK(x) => TrieOK(y))
      BY <3>1, InsertOne
    <3> QED
      BY <3>2 DEF x, y, rule
  <2>4. Added(i + 1) = Added(i) \cup ({PathOf(rules[i + 1].labels)} \ {<< >>})
    <3>1. 1..(i + 1) = (1..i) \cup {i + 1}
      BY <1>1
    <3> QED
      BY <3>1
  <2> HIDE DEF Added
  <2> QED
    BY <1>1, <1>4, <2>1, <2>3, <2>4
<1> HIDE DEF Good
<1>5. n \in Good
  <2>1. \A i \in 0..n : i \in Good
    BY <1>1, <1>3, <1>4, Induction
  <2>2. n \in 0..n
    BY <1>1
  <2> QED
    BY <2>1, <2>2
<1> QED
  BY <1>2, <1>5 DEF Good, n

(* The order that SetToSeq chooses leaves nothing out. *)
LEMMA SetInOrder ==
    ASSUME NEW S, IsFiniteSet(S)
    PROVE  /\ SetToSeq(S) \in Seq(S)
           /\ {SetToSeq(S)[i] : i \in 1..Len(SetToSeq(S))} = S
<1> DEFINE n == Cardinality(S)
<1>1. n \in Nat /\ ExistsBijection(1..n, S)
  BY FS_CardinalityType
<1>2. \E f \in [1..n -> S] : IsInjective(f)
  BY <1>1 DEF ExistsBijection, Bijection, Injection
<1> DEFINE f == SetToSeq(S)
<1>3. f \in [1..n -> S] /\ IsInjective(f)
  BY <1>2 DEF SetToSeq
<1> HIDE DEF f
<1>4. f \in Injection(1..n, S)
  BY <1>3 DEF Injection
<1>5. IsFiniteSet(1..n) /\ Cardinality(1..n) = n
  BY <1>1, FS_Interval
<1>6. f \in Surjection(1..n, S)
  BY <1>4, <1>5, FS_Injection
<1>7. \A x \in S : \E i \in 1..n : f[i] = x
  BY <1>6 DEF Surjection
<1>8. f \in Seq(S) /\ Len(f) = n
  <2> HIDE DEF n
  <2> QED
    BY <1>1, <1>3
<1> QED
  BY <1>3, <1>7, <1>8 DEF f

-----------------------------------------------------------------------------
(* What is in the heap: snapshots with the versions of their lists, none   *)
(* of them newer than what the servers offer, and each list that went into *)
(* a snapshot at least as new as in every earlier one.                     *)
VersOK(s) == "vers" \in DOMAIN s /\ s.vers \in [URLs -> Nat]

HeapOK ==
    /\ Len(heap) \in Nat \ {0}
    /\ heap = [i \in 1..Len(heap) |-> heap[i]]
    /\ \A i \in 1..Len(heap) : VersOK(heap[i]) /\ \A u \in URLs : heap[i].vers[u] <= version[u]
    /\ \A i, j \in 1..Len(heap) : \A u \in URLs :
          i < j /\ heap[j].vers[u] # 0 => heap[i].vers[u] <= heap[j].vers[u]

(* A load in progress writes the newest snapshot, which is not published;  *)
(* a body waiting to be merged is at least as new as what was merged       *)
(* before, and no newer than what the server offers; its goroutines are    *)
(* gone when a load is over.                                               *)
LoaderOK(l) ==
    /\ loader[l].pc = "load" => loader[l].snap = Len(heap) /\ snapshot < Len(heap)
    /\ \A u \in URLs :
          /\ loader[l].pc # "load" => loader[l].url[u] = "done"
          /\ loader[l].url[u] = "have" =>
                /\ loader[l].body[u] <= version[u]
                /\ \A i \in 1..Len(heap) : heap[i].vers[u] <= loader[l].body[u]

Inv == TypeOK /\ HeapOK /\ \A l \in Callers : LoaderOK(l)

LEMMA CallersNotFree == "free" \notin Callers
  BY DEF Callers

(* The bookkeeping of a snapshot, whatever its rules are. *)
LEMMA LocalVers ==
    ASSUME NEW readable
    PROVE  /\ VersOK(LocalSnapshot(readable))
           /\ \A u \in URLs : LocalSnapshot(readable).vers[u] = 0
<1>1. VersOK(EmptySnapshot) /\ \A u \in URLs : EmptySnapshot.vers[u] = 0
  BY DEF EmptySnapshot, VersOK
<1> QED
  BY <1>1 DEF LocalSnapshot, AddBlack, EmptySnapshot, VersOK

Merged(s, rules, u, v) == [AddBlack(s, rules) EXCEPT !.vers[u] = v]

LEMMA MergedVers ==
    ASSUME NEW s, VersOK(s), NEW rules, NEW u \in URLs, NEW v \in Nat,
           NEW t, t = Merged(s, rules, u, v)
    PROVE  VersOK(t) /\ t.vers[u] = v /\ \A w \in URLs \ {u} : t.vers[w] = s.vers[w]
<1> DEFINE a == AddBlack(s, rules)
<1>1. VersOK(a) /\ a.vers = s.vers
  BY DEF AddBlack, VersOK
<1> HIDE DEF a
<1>2. t = [a EXCEPT !["vers"] = [a["vers"] EXCEPT ![u] = v]]
  BY DEF a, Merged
<1>3. "vers" \in DOMAIN t /\ t.vers = [s.vers EXCEPT ![u] = v]
  BY <1>1, <1>2 DEF VersOK
<1>4. [s.vers EXCEPT ![u] = v] \in [URLs -> Nat]
  BY DEF VersOK
<1> QED
  BY <1>3, <1>4 DEF VersOK

(* Appending to a sequence of which only the length is known. *)
LEMMA Appended ==
    ASSUME NEW s, Len(s) \in Nat, s = [i \in 1..Len(s) |-> s[i]], NEW e
    PROVE  /\ Len(Append(s, e)) = Len(s) + 1
           /\ Append(s, e) = [i \in 1..(Len(s) + 1) |-> Append(s, e)[i]]
           /\ \A i \in 1..Len(s) : Append(s, e)[i] = s[i]
           /\ Append(s, e)[Len(s) + 1] = e
<1> DEFINE S == {s[i] : i \in 1..Len(s)} \cup {e}
<1>1. s \in [1..Len(s) -> S]
  OBVIOUS
<1>2. s \in Seq(S)
  BY <1>1, SeqDef
<1> HIDE DEF S
<1>3. e \in S
  BY DEF S
<1>4. /\ Append(s, e) \in Seq(S) /\ Len(Append(s, e)) = Len(s) + 1
      /\ \A i \in 1..Len(s) : Append(s, e)[i] = s[i]
      /\ Append(s, e)[Len(s) + 1] = e
  BY <1>2, <1>3, AppendProperties
<1>5. Append(s, e) \in [1..Len(Append(s, e)) -> S]
  BY <1>4, LenProperties
<1> QED
  BY <1>4, <1>5

-----------------------------------------------------------------------------
LEMMA InvInit == Init => Inv
<1> SUFFICES ASSUME Init PROVE Inv
  OBVIOUS
<1>1. /\ Len(heap) = 1 /\ heap[1] = EmptySnapshot /\ heap = [i \in 1..1 |-> heap[i]]
  BY DEF Init
<1>2. VersOK(EmptySnapshot) /\ \A u \in URLs : EmptySnapshot.vers[u] = 0
  BY DEF EmptySnapshot, VersOK
<1>3. HeapOK
  BY <1>1, <1>2 DEF HeapOK, Init
<1>4. ASSUME NEW l \in Callers
      PROVE  /\ loader[l].pc \in {"idle", "wait"} /\ loader[l].url = [u \in URLs |-> "done"]
             /\ loader[l] \in [pc : {"idle", "wait", "load"}, snap : 0..Len(heap),
                               url : [URLs -> {"get", "have", "done"}], body : [URLs -> Nat]]
  <2>1. CASE l = "main" /\ enabled
    BY <1>1, <2>1 DEF Init, Resting
  <2>2. CASE ~(l = "main" /\ enabled)
    BY <1>1, <2>2 DEF Init, Resting
  <2> QED
    BY <2>1, <2>2
<1>5. TypeOK
  BY <1>1, <1>4, CallersNotFree DEF Init, TypeOK
<1>6. \A l \in Callers : LoaderOK(l)
  BY <1>4 DEF LoaderOK
<1> QED
  BY <1>3, <1>5, <1>6 DEF Inv

-----------------------------------------------------------------------------
(* One lemma per action. *)
LEMMA UpdateStep == ASSUME Inv, NEW u \in URLs, Update(u) PROVE Inv'
<1>1. /\ version' \in [URLs -> Nat] /\ \A w \in URLs : version[w] <= version'[w]
      /\ UNCHANGED <<heap, snapshot, reloadMu, loader>>
  BY DEF Inv, TypeOK, Update
<1>2. TypeOK'
  BY <1>1 DEF Inv, TypeOK
<1>3. ASSUME NEW x \in Nat, NEW w \in URLs, x <= version[w] PROVE x <= version'[w]
  BY <1>1, <1>3 DEF Inv, TypeOK
<1>4. HeapOK'
  <2>1. ASSUME NEW i \in 1..Len(heap), NEW w \in URLs PROVE heap[i].vers[w] <= version'[w]
    BY <1>3 DEF Inv, HeapOK, VersOK
  <2> QED
    BY <1>1, <2>1 DEF Inv, HeapOK
<1>5. ASSUME NEW l \in Callers PROVE LoaderOK(l)'
  <2>1. ASSUME NEW w \in URLs PROVE loader[l].body[w] \in Nat
    BY DEF Inv, TypeOK
  <2> QED
    BY <1>1, <1>3, <2>1 DEF Inv, LoaderOK
<1> QED
  BY <1>2, <1>4, <1>5 DEF Inv

LEMMA CallStep == ASSUME Inv, NEW l \in Callers, CallLoadRules(l) PROVE Inv'
<1>1. /\ loader[l].pc = "idle" /\ loader' = [loader EXCEPT ![l].pc = "wait"]
      /\ UNCHANGED <<version, heap, snapshot, reloadMu>>
  BY DEF CallLoadRules
<1>2. TypeOK'
  BY <1>1 DEF Inv, TypeOK
<1>3. HeapOK'
  BY <1>1 DEF Inv, HeapOK
<1>4. ASSUME NEW k \in Callers PROVE LoaderOK(k)'
  BY <1>1 DEF Inv, TypeOK, LoaderOK
<1> QED
  BY <1>2, <1>3, <1>4 DEF Inv

LEMMA LoadDisabledStep == ASSUME Inv, NEW l \in Callers, LoadDisabled(l) PROVE Inv'
<1>1. /\ loader[l].pc = "wait" /\ loader' = [loader EXCEPT ![l] = Resting]
      /\ UNCHANGED <<version, heap, snapshot, reloadMu>>
  BY DEF LoadDisabled
<1>2. TypeOK'
  BY <1>1 DEF Inv, TypeOK, Resting
<1>3. HeapOK'
  BY <1>1 DEF Inv, HeapOK
<1>4. ASSUME NEW k \in Callers PROVE LoaderOK(k)'
  BY <1>1 DEF Inv, TypeOK, LoaderOK, Resting
<1> QED
  BY <1>2, <1>3, <1>4 DEF Inv

LEMMA LockStep == ASSUME Inv, NEW l \in Callers, Lock(l) PROVE Inv'
<1> DEFINE call == [Resting EXCEPT !.pc = "load", !.snap = Len(heap) + 1,
                                   !.url = [u \in URLs |-> "get"]]
<1>1. PICK readable \in SUBSET Files : heap' = Append(heap, LocalSnapshot(readable))
  BY DEF Lock
<1>2. /\ loader[l].pc = "wait" /\ reloadMu = "free" /\ reloadMu' = l
      /\ loader' = [loader EXCEPT ![l] = call] /\ UNCHANGED <<version, snapshot>>
  BY DEF Lock
<1>3. /\ Len(heap) \in Nat \ {0} /\ Len(heap') = Len(heap) + 1
      /\ heap' = [i \in 1..Len(heap') |-> heap'[i]]
      /\ \A i \in 1..Len(heap) : heap'[i] = heap[i]
      /\ heap'[Len(heap) + 1] = LocalSnapshot(readable)
  BY <1>1, Appended DEF Inv, HeapOK
<1>4. /\ call.pc = "load" /\ call.snap = Len(heap) + 1 /\ call.url = [u \in URLs |-> "get"]
      /\ call \in [pc : {"idle", "wait", "load"}, snap : 0..Len(heap'),
                   url : [URLs -> {"get", "have", "done"}], body : [URLs -> Nat]]
  <2>1. Len(heap) + 1 \in 0..Len(heap')
    BY <1>3
  <2> QED
    BY <2>1 DEF Resting
<1> HIDE DEF call
<1>5. \A k \in Callers : loader[k].pc # "load"
  BY <1>2, CallersNotFree DEF Inv, TypeOK
<1>6. TypeOK'
  <2>1. \A k \in Callers : loader'[k] = IF k = l THEN call ELSE loader[k]
    BY <1>2 DEF Inv, TypeOK
  <2>2. \A k \in Callers : reloadMu' = k <=> loader'[k].pc = "load"
    BY <1>2, <1>4, <1>5, <2>1
  <2>3. ASSUME NEW k \in Callers
        PROVE  loader'[k] \in [pc : {"idle", "wait", "load"}, snap : 0..Len(heap'),
                   url : [URLs -> {"get", "have", "done"}], body : [URLs -> Nat]]
    <3>1. 0..Len(heap) \subseteq 0..Len(heap')
      BY <1>3
    <3>2. loader[k] \in [pc : {"idle", "wait", "load"}, snap : 0..Len(heap),
                         url : [URLs -> {"get", "have", "done"}], body : [URLs -> Nat]]
      BY DEF Inv, TypeOK
    <3> QED
      BY <1>4, <2>1, <3>1, <3>2
  <2> QED
    BY <1>2, <1>3, <2>2, <2>3 DEF Inv, TypeOK
<1>7. HeapOK'
  <2>1. ASSUME NEW i \in 1..Len(heap')
        PROVE  VersOK(heap'[i]) /\ \A u \in URLs : heap'[i].vers[u] <= version'[u]
    <3>1. CASE i \in 1..Len(heap)
      BY <1>2, <1>3, <3>1 DEF Inv, HeapOK
    <3>2. CASE i = Len(heap) + 1
      BY <1>2, <1>3, <3>2, LocalVers DEF Inv, TypeOK
    <3> QED
      BY <1>3, <3>1, <3>2
  <2>2. ASSUME NEW i \in 1..Len(heap'), NEW j \in 1..Len(heap'), NEW u \in URLs,
               i < j, heap'[j].vers[u] # 0
        PROVE  heap'[i].vers[u] <= heap'[j].vers[u]
    <3>1. j # Len(heap) + 1
      BY <1>3, <2>2, LocalVers
    <3> QED
      BY <1>3, <2>2, <3>1 DEF Inv, HeapOK
  <2> QED
    BY <1>3, <2>1, <2>2 DEF HeapOK, VersOK
<1>8. ASSUME NEW k \in Callers PROVE LoaderOK(k)'
  <2>1. CASE k = l
    <3>1. loader'[k] = call
      BY <1>2, <2>1 DEF Inv, TypeOK
    <3>2. snapshot' < Len(heap')
      BY <1>2, <1>3 DEF Inv, TypeOK
    <3> QED
      BY <1>3, <1>4, <3>1, <3>2 DEF LoaderOK
  <2>2. CASE k # l
    <3>1. loader'[k] = loader[k] /\ loader[k].pc # "load"
      BY <1>2, <1>5, <2>2 DEF Inv, TypeOK
    <3> QED
      BY <3>1 DEF Inv, LoaderOK
  <2> QED
    BY <2>1, <2>2
<1> QED
  BY <1>6, <1>7, <1>8 DEF Inv

LEMMA FetchOKStep == ASSUME Inv, NEW l \in Callers, NEW u \in URLs, FetchOK(l, u) PROVE Inv'
<1>1. /\ loader[l].url[u] = "get"
      /\ loader' = [loader EXCEPT ![l].url[u] = "have", ![l].body[u] = version[u]]
      /\ UNCHANGED <<version, heap, snapshot, reloadMu>>
  BY DEF FetchOK
<1>2. TypeOK'
  <2> DEFINE T == [Callers -> [pc : {"idle", "wait", "load"}, snap : 0..Len(heap),
                          url : [URLs -> {"get", "have", "done"}], body : [URLs -> Nat]]]
  <2>1. PICK f : f = [loader EXCEPT ![l].url[u] = "have"]
    OBVIOUS
  <2>2. loader \in T /\ version[u] \in Nat
    BY DEF Inv, TypeOK
  <2>3. f \in T /\ \A k \in Callers : f[k].pc = loader[k].pc
    BY <2>1, <2>2
  <2>4. loader' = [f EXCEPT ![l].body[u] = version[u]]
    BY <1>1, <2>1
  <2>5. loader' \in T /\ \A k \in Callers : loader'[k].pc = loader[k].pc
    <3>1. f[l] \in [pc : {"idle", "wait", "load"}, snap : 0..Len(heap),
                    url : [URLs -> {"get", "have", "done"}], body : [URLs -> Nat]]
      BY <2>3
    <3>2. [f[l].body EXCEPT ![u] = version[u]] \in [URLs -> Nat]
      BY <2>2, <3>1
    <3>3. PICK b \in [URLs -> Nat] : b = [f[l].body EXCEPT ![u] = version[u]]
      BY <3>2
    <3>4. loader' = [f EXCEPT ![l].body = b]
      BY <2>4, <3>3
    <3> QED
      BY <2>3, <3>4
  <2> QED
    BY <1>1, <2>5 DEF Inv, TypeOK
<1>3. HeapOK'
  BY <1>1 DEF Inv, HeapOK
<1>4. ASSUME NEW k \in Callers PROVE LoaderOK(k)'
  <2>1. /\ loader'[k].pc = loader[k].pc /\ loader'[k].snap = loader[k].snap
        /\ \A w \in URLs : ~(k = l /\ w = u) => /\ loader'[k].url[w] = loader[k].url[w]
                                              /\ loader'[k].body[w] = loader[k].body[w]
    BY <1>1 DEF Inv, TypeOK
  <2>2. k = l => loader'[k].url[u] = "have" /\ loader'[k].body[u] = version[u]
    BY <1>1 DEF Inv, TypeOK
  <2>3. loader[l].pc = "load"
    BY <1>1 DEF Inv, LoaderOK
  <2>4. version[u] <= version[u] /\ \A i \in 1..Len(heap) : heap[i].vers[u] <= version[u]
    BY DEF Inv, TypeOK, HeapOK
  <2> QED
    BY <1>1, <2>1, <2>2, <2>3, <2>4 DEF Inv, LoaderOK
<1> QED
  BY <1>2, <1>3, <1>4 DEF Inv

LEMMA FetchFailStep == ASSUME Inv, NEW l \in Callers, NEW u \in URLs, FetchFail(l, u) PROVE Inv'
<1>1. /\ loader' = [loader EXCEPT ![l].url[u] = "done"]
      /\ UNCHANGED <<version, heap, snapshot, reloadMu>>
  BY DEF FetchFail
<1>2. TypeOK'
  BY <1>1 DEF Inv, TypeOK
<1>3. HeapOK'
  BY <1>1 DEF Inv, HeapOK
<1>4. ASSUME NEW k \in Callers PROVE LoaderOK(k)'
  BY <1>1 DEF Inv, TypeOK, LoaderOK
<1> QED
  BY <1>2, <1>3, <1>4 DEF Inv

(* Merge writes the newest snapshot only, which is not published. *)
LEMMA MergeFacts ==
    ASSUME Inv, NEW l \in Callers, NEW u \in URLs, Merge(l, u)
    PROVE  /\ loader[l].pc = "load" /\ snapshot < Len(heap)
           /\ Len(heap') = Len(heap) /\ heap' = [i \in 1..Len(heap') |-> heap'[i]]
           /\ \A i \in 1..Len(heap) : i # Len(heap) => heap'[i] = heap[i]
           /\ VersOK(heap'[Len(heap)])
           /\ heap'[Len(heap)].vers[u] = loader[l].body[u]
           /\ \A w \in URLs \ {u} : heap'[Len(heap)].vers[w] = heap[Len(heap)].vers[w]
<1> DEFINE v == loader[l].body[u]
           n == Len(heap)
           t == [AddBlack(heap[n], URLRules[u][v]) EXCEPT !.vers[u] = v]
<1>1. loader[l].pc = "load" /\ loader[l].snap = n /\ snapshot < n
  BY DEF Merge, Inv, LoaderOK
<1>2. v \in Nat
  BY DEF Inv, TypeOK
<1>3. n \in Nat \ {0} /\ heap = [i \in 1..n |-> heap[i]] /\ VersOK(heap[n])
  BY DEF Inv, HeapOK
<1>4. VersOK(t) /\ t.vers[u] = v /\ \A w \in URLs \ {u} : t.vers[w] = heap[n].vers[w]
  <2>1. t = Merged(heap[n], URLRules[u][v], u, v)
    BY DEF Merged
  <2> HIDE DEF n, v, t
  <2> QED
    BY <1>2, <1>3, <2>1, MergedVers
<1>5. heap' = [heap EXCEPT ![n] = t]
  BY <1>1 DEF Merge
<1> HIDE DEF n, t, v
<1>6. DOMAIN heap' = 1..n /\ heap'[n] = t /\ \A i \in 1..n : i # n => heap'[i] = heap[i]
  BY <1>3, <1>5
<1>7. Len(heap') = n
  BY <1>3, <1>6
<1>8. heap' = [i \in 1..n |-> heap'[i]]
  BY <1>3, <1>5, <1>6
<1> QED
  BY <1>1, <1>4, <1>6, <1>7, <1>8 DEF n, v

LEMMA MergeStep == ASSUME Inv, NEW l \in Callers, NEW u \in URLs, Merge(l, u) PROVE Inv'
<1> DEFINE n == Len(heap)
<1>1. /\ loader[l].url[u] = "have" /\ loader' = [loader EXCEPT ![l].url[u] = "done"]
      /\ UNCHANGED <<version, snapshot, reloadMu>>
  BY DEF Merge
<1>2. /\ loader[l].pc = "load" /\ snapshot < n /\ n \in Nat \ {0}
      /\ Len(heap') = n /\ heap' = [i \in 1..n |-> heap'[i]]
      /\ \A i \in 1..n : i # n => heap'[i] = heap[i]
      /\ VersOK(heap'[n])
      /\ heap'[n].vers[u] = loader[l].body[u]
      /\ \A w \in URLs \ {u} : heap'[n].vers[w] = heap[n].vers[w]
  BY MergeFacts DEF Inv, HeapOK
<1> HIDE DEF n
<1>3. /\ loader[l].body[u] \in Nat /\ loader[l].body[u] <= version[u]
      /\ \A i \in 1..n : heap[i].vers[u] <= loader[l].body[u]
  BY <1>1 DEF Inv, TypeOK, LoaderOK, n
<1>4. \A i \in 1..n : heap[i].vers \in [URLs -> Nat]
  BY DEF Inv, HeapOK, VersOK, n
<1>6. TypeOK'
  <2>1. loader' \in [Callers -> [pc : {"idle", "wait", "load"}, snap : 0..Len(heap),
                               url : [URLs -> {"get", "have", "done"}], body : [URLs -> Nat]]]
    BY <1>1 DEF Inv, TypeOK
  <2>2. \A k \in Callers : loader'[k].pc = loader[k].pc
    BY <1>1 DEF Inv, TypeOK
  <2> QED
    BY <1>1, <1>2, <2>1, <2>2 DEF Inv, TypeOK, n
<1>7. HeapOK'
  <2>1. ASSUME NEW i \in 1..n
        PROVE  VersOK(heap'[i]) /\ \A w \in URLs : heap'[i].vers[w] <= version'[w]
    <3>1. VersOK(heap[i]) /\ \A w \in URLs : heap[i].vers[w] <= version[w]
      BY DEF Inv, HeapOK, n
    <3> QED
      BY <1>1, <1>2, <1>3, <3>1
  <2>2. ASSUME NEW i \in 1..n, NEW j \in 1..n, NEW w \in URLs, i < j, heap'[j].vers[w] # 0
        PROVE  heap'[i].vers[w] <= heap'[j].vers[w]
    <3>1. heap'[i] = heap[i]
      BY <1>2, <2>2
    <3>2. heap[j].vers[w] # 0 => heap[i].vers[w] <= heap[j].vers[w]
      BY <2>2 DEF Inv, HeapOK, n
    <3>3. CASE j = n /\ w = u
      BY <1>2, <1>3, <3>1, <3>3
    <3>4. CASE ~(j = n /\ w = u)
      BY <1>2, <2>2, <3>1, <3>2, <3>4
    <3> QED
      BY <3>3, <3>4
  <2> QED
    BY <1>2, <2>1, <2>2 DEF HeapOK, VersOK
<1>8. ASSUME NEW k \in Callers PROVE LoaderOK(k)'
  <2>1. k # l => loader'[k] = loader[k] /\ loader[k].pc # "load"
    BY <1>1, <1>2 DEF Inv, TypeOK
  <2>2. CASE k # l
    BY <2>1, <2>2 DEF Inv, LoaderOK
  <2>3. CASE k = l
    <3>1. /\ loader'[k].pc = "load" /\ loader'[k].snap = n /\ loader'[k].url[u] = "done"
          /\ \A w \in URLs \ {u} : loader'[k].url[w] = loader[k].url[w]
          /\ loader'[k].body = loader[k].body
      BY <1>1, <1>2, <2>3 DEF Inv, TypeOK, LoaderOK, n
    <3>2. ASSUME NEW w \in URLs \ {u}, NEW i \in 1..n PROVE heap'[i].vers[w] = heap[i].vers[w]
      BY <1>2
    <3>3. ASSUME NEW w \in URLs \ {u}, loader[l].url[w] = "have"
          PROVE  /\ loader[l].body[w] <= version[w]
                 /\ \A i \in 1..n : heap[i].vers[w] <= loader[l].body[w]
      BY <3>3 DEF Inv, LoaderOK, n
    <3> QED
      BY <1>1, <1>2, <2>3, <3>1, <3>2, <3>3 DEF LoaderOK
  <2> QED
    BY <2>2, <2>3
<1> QED
  BY <1>6, <1>7, <1>8 DEF Inv

LEMMA PublishStep == ASSUME Inv, NEW l \in Callers, Publish(l) PROVE Inv'
<1>1. /\ loader[l].pc = "load" /\ snapshot' = loader[l].snap /\ reloadMu' = "free"
      /\ loader' = [loader EXCEPT ![l] = Resting] /\ UNCHANGED <<version, heap>>
  BY DEF Publish
<1>2. loader[l].snap = Len(heap) /\ Len(heap) \in Nat \ {0}
  BY <1>1 DEF Inv, LoaderOK, HeapOK
<1>3. ASSUME NEW k \in Callers PROVE loader'[k].pc # "load"
  BY <1>1 DEF Inv, TypeOK, Resting
<1>4. TypeOK'
  <2>1. ASSUME NEW k \in Callers
        PROVE  loader'[k] \in [pc : {"idle", "wait", "load"}, snap : 0..Len(heap'),
                   url : [URLs -> {"get", "have", "done"}], body : [URLs -> Nat]]
    BY <1>1, <1>2 DEF Inv, TypeOK, Resting
  <2> QED
    BY <1>1, <1>2, <1>3, <2>1, CallersNotFree DEF Inv, TypeOK
<1>5. HeapOK'
  BY <1>1 DEF Inv, HeapOK
<1>6. ASSUME NEW k \in Callers PROVE LoaderOK(k)'
  <2>1. \A u \in URLs : loader'[k].url[u] = "done"
    BY <1>1 DEF Inv, TypeOK, LoaderOK, Resting
  <2> QED
    BY <1>3, <2>1 DEF LoaderOK
<1> QED
  BY <1>4, <1>5, <1>6 DEF Inv

LEMMA InvStep == Inv /\ [Next]_vars => Inv'
<1> SUFFICES ASSUME Inv, [Next]_vars PROVE Inv'
  OBVIOUS
<1>1. CASE UNCHANGED vars
  BY <1>1 DEF vars, Inv, TypeOK, HeapOK, VersOK, LoaderOK
<1>2. ASSUME NEW l \in Callers, LoadRules(l) PROVE Inv'
  BY <1>2, LoadDisabledStep, LockStep, FetchOKStep, FetchFailStep, MergeStep, PublishStep
     DEF LoadRules, Fetching
<1> QED
  BY <1>1, <1>2, UpdateStep, CallStep DEF Next

-----------------------------------------------------------------------------
(* The invariant holds in every reachable state. *)
THEOREM Invariance == Spec => []Inv
  BY InvInit, InvStep, PTL DEF Spec

(* The control state is well typed, and reloadMu is held by exactly the    *)
(* caller of LoadRules that is building a snapshot.                        *)
THEOREM TypeCorrect == Spec => []TypeOK
<1>1. Inv => TypeOK
  BY DEF Inv
<1> QED
  BY <1>1, Invariance, PTL

Frozen == \A i \in 1..Len(heap) : i <= snapshot => heap'[i] = heap[i]

LEMMA FrozenStep == Inv /\ [Next]_vars => Frozen
<1> SUFFICES ASSUME Inv, [Next]_vars PROVE Frozen
  OBVIOUS
<1>1. ASSUME UNCHANGED heap PROVE Frozen
  BY <1>1 DEF Frozen
<1>2. ASSUME NEW l \in Callers, Lock(l) PROVE Frozen
  BY <1>2, Appended DEF Inv, HeapOK, Lock, Frozen
<1>3. ASSUME NEW l \in Callers, NEW u \in URLs, Merge(l, u) PROVE Frozen
  <2>1. snapshot < Len(heap) /\ \A i \in 1..Len(heap) : i # Len(heap) => heap'[i] = heap[i]
    BY <1>3, MergeFacts
  <2>2. snapshot \in Nat /\ Len(heap) \in Nat
    BY DEF Inv, TypeOK, HeapOK
  <2> QED
    BY <2>1, <2>2 DEF Frozen
<1> QED
  BY <1>1, <1>2, <1>3 DEF Next, vars, Update, CallLoadRules, LoadRules, LoadDisabled, Fetching,
     FetchOK, FetchFail, Publish

(* A snapshot that a reader of the atomic pointer may hold is never        *)
(* written again, by no goroutine of any load.                             *)
THEOREM PublishedSnapshotsFrozen == Spec => PublishedFrozen
<1>1. Inv /\ [Next]_vars => [Frozen]_vars
  BY FrozenStep
<1> QED
  BY <1>1, Invariance, PTL DEF Spec, PublishedFrozen, Frozen

Forward ==
    snapshot' # snapshot =>
        \A u \in URLs, i \in 1..Len(heap) :
            i <= snapshot /\ heap'[snapshot'].vers[u] # 0
               => heap[i].vers[u] <= heap'[snapshot'].vers[u]

LEMMA ForwardStep == Inv /\ [Next]_vars => Forward
<1> SUFFICES ASSUME Inv, [Next]_vars PROVE Forward
  OBVIOUS
<1>1. ASSUME UNCHANGED snapshot PROVE Forward
  BY <1>1 DEF Forward
<1>2. ASSUME NEW l \in Callers, Publish(l) PROVE Forward
  <2>1. snapshot' = Len(heap) /\ heap' = heap /\ snapshot < Len(heap) /\ Len(heap) \in Nat \ {0}
    BY <1>2 DEF Publish, Inv, LoaderOK, HeapOK
  <2>2. snapshot \in Nat
    BY DEF Inv, TypeOK, HeapOK
  <2>3. ASSUME NEW u \in URLs, NEW i \in 1..Len(heap), i <= snapshot, heap[Len(heap)].vers[u] # 0
        PROVE  heap[i].vers[u] <= heap[Len(heap)].vers[u]
    <3>1. i < Len(heap) /\ Len(heap) \in 1..Len(heap)
      BY <2>1, <2>2, <2>3
    <3> QED
      BY <2>3, <3>1 DEF Inv, HeapOK
  <2> QED
    BY <2>1, <2>3 DEF Forward
<1> QED
  BY <1>1, <1>2 DEF Next, vars, Update, CallLoadRules, LoadRules, LoadDisabled, Fetching,
     Lock, FetchOK, FetchFail, Merge

(* However loads by SIGHUP and by the ticker overlap and their fetches are *)
(* ordered, a published list is never replaced by an older version.        *)
THEOREM PublishedListsNeverGoBack == Spec => ListsNeverGoBack
<1>1. Inv /\ [Next]_vars => [Forward]_vars
  BY ForwardStep
<1> QED
  BY <1>1, Invariance, PTL DEF Spec, ListsNeverGoBack, Forward

-----------------------------------------------------------------------------
(* The rules in a snapshot.  The tree holds the marked ones of a set of    *)
(* rules; a snapshot that LoadRules built holds the whitelist and exactly  *)
(* the lists that went into it.                                            *)
Holds(t, rules) ==
    TrieOK(t) /\ t.wildcard = {PathOf(r.labels) : r \in Marked(rules)} \ {<< >>}

SnapFields == {"whitelistExact", "whitelistTrie", "blacklistExact", "blacklistTrie",
               "regexBlacklist", "vers", "files"}

HoldsLists(s, listed) ==
    /\ DOMAIN s = SnapFields
    /\ s.whitelistExact = Plain(Whitelist) /\ Holds(s.whitelistTrie, Whitelist)
    /\ s.blacklistExact = Plain(listed) /\ Holds(s.blacklistTrie, listed)
    /\ s.regexBlacklist = RegexHits

SnapOK(s) == HoldsLists(s, ListedIn(s))

Offered(u, v) == v \in 1..Len(URLRules[u])

(* A list is fetched once per load: until it is merged, the snapshot has   *)
(* nothing of it.                                                          *)
FetchRulesOK(l, u) ==
    /\ loader[l].url[u] = "have" => Offered(u, loader[l].body[u])
    /\ loader[l].url[u] # "done" => heap[Len(heap)].vers[u] = 0

RulesOK ==
    /\ \A u \in URLs : Offered(u, version[u])
    /\ Len(heap) > 1 => enabled
    /\ \A i \in 2..Len(heap) : SnapOK(heap[i])
    /\ \A l \in Callers, u \in URLs : FetchRulesOK(l, u)

LEMMA MarkedPlainUnion ==
    ASSUME NEW A, NEW B
    PROVE  /\ Marked(A \cup B) = Marked(A) \cup Marked(B)
           /\ Plain(A \cup B) = Plain(A) \cup Plain(B)
  BY DEF Marked, Plain

LEMMA EmptyHolds == Holds(EmptyTrie, {})
<1>1. EmptyTrie.wildcard = {} /\ EmptyTrie.count = 0 /\ EmptyTrie.exact = {}
  BY DEF EmptyTrie
<1>2. EmptyTrie \in TrieType
  <2>1. << >> \in Paths
    BY DEF Paths
  <2> QED
    BY <2>1 DEF EmptyTrie, TrieType
<1>3. TrieOK(EmptyTrie)
  BY <1>1, <1>2 DEF TrieOK
<1> QED
  BY <1>1, <1>3 DEF Holds, Marked

LEMMA InsertAllHolds ==
    ASSUME NEW t, NEW A, Holds(t, A), NEW rules, IsList(rules)
    PROVE  Holds(InsertAll(t, rules), A \cup rules)
<1> DEFINE S == Marked(rules)
           seq == SetToSeq(S)
           P(X) == {PathOf(r.labels) : r \in X}
<1>1. S \subseteq rules /\ S \subseteq RuleTexts /\ IsFiniteSet(rules)
  BY DEF Marked, IsList
<1>2. IsFiniteSet(S)
  BY <1>1, FS_Subset
<1>3. seq \in Seq(S) /\ {seq[i] : i \in 1..Len(seq)} = S
  <2> HIDE DEF S
  <2> QED
    BY <1>2, SetInOrder
<1> HIDE DEF S, seq
<1>4. seq \in Seq(RuleTexts)
  BY <1>1, <1>3
<1>5. TrieOK(t) /\ t.wildcard = P(Marked(A)) \ {<< >>}
  BY DEF Holds
<1>6. /\ TrieOK(InsertRules(t, seq))
      /\ InsertRules(t, seq).wildcard =
            t.wildcard \cup ({PathOf(seq[i].labels) : i \in 1..Len(seq)} \ {<< >>})
  BY <1>4, <1>5, InsertMany
<1>7. {PathOf(seq[i].labels) : i \in 1..Len(seq)} = P(S)
  BY <1>3
<1>8. Marked(A \cup rules) = Marked(A) \cup S
  BY MarkedPlainUnion DEF S
<1>9. P(Marked(A) \cup S) = P(Marked(A)) \cup P(S)
  OBVIOUS
<1> DEFINE w == InsertRules(t, seq)
<1>10. InsertAll(t, rules) = w
  BY DEF InsertAll, seq, S
<1>11. w.wildcard = P(Marked(A \cup rules)) \ {<< >>}
  <2>1. w.wildcard = (P(Marked(A)) \ {<< >>}) \cup (P(S) \ {<< >>})
    BY <1>5, <1>6, <1>7
  <2> HIDE DEF P, w
  <2> QED
    BY <1>8, <1>9, <2>1
<1> QED
  BY <1>6, <1>10, <1>11 DEF Holds

(* What the loops of LoadRules add to the blacklist. *)
LEMMA AddBlackHolds ==
    ASSUME NEW s, NEW listed, HoldsLists(s, listed), NEW rules, IsList(rules),
           NEW a, a = AddBlack(s, rules)
    PROVE  HoldsLists(a, listed \cup rules) /\ a.vers = s.vers /\ a.files = s.files
<1> DEFINE x == s.blacklistExact \cup Plain(rules)
           b == InsertAll(s.blacklistTrie, rules)
<1>1. x = Plain(listed \cup rules)
  <2>1. s.blacklistExact = Plain(listed)
    BY DEF HoldsLists
  <2>2. Plain(listed \cup rules) = Plain(listed) \cup Plain(rules)
    BY MarkedPlainUnion
  <2> QED
    BY <2>1, <2>2, Zenon
<1>2. Holds(b, listed \cup rules)
  BY InsertAllHolds DEF HoldsLists
<1>3. a = [s EXCEPT !["blacklistExact"] = x, !["blacklistTrie"] = b]
  BY DEF AddBlack
<1>4. DOMAIN s = SnapFields
  BY DEF HoldsLists
<1> HIDE DEF x, b
<1>5. /\ DOMAIN a = SnapFields /\ a["blacklistExact"] = x /\ a["blacklistTrie"] = b
      /\ \A f \in SnapFields \ {"blacklistExact", "blacklistTrie"} : a[f] = s[f]
  BY ONLY <1>3, <1>4 DEF SnapFields
<1>6. /\ a.whitelistExact = s.whitelistExact /\ a.whitelistTrie = s.whitelistTrie
      /\ a.regexBlacklist = s.regexBlacklist /\ a.vers = s.vers /\ a.files = s.files
      /\ a.blacklistExact = x /\ a.blacklistTrie = b
  BY ONLY <1>5 DEF SnapFields
<1> QED
  BY <1>1, <1>2, <1>5, <1>6 DEF HoldsLists

(* The snapshot before the goroutines start. *)
LEMMA LocalHolds ==
    ASSUME NEW readable \in SUBSET Files
    PROVE  SnapOK(LocalSnapshot(readable))
<1> DEFINE E == EmptySnapshot
           s == [E EXCEPT !.whitelistExact = Plain(Whitelist),
                          !.whitelistTrie  = InsertAll(@, Whitelist),
                          !.regexBlacklist = RegexHits,
                          !.files          = readable]
           R == Blacklist \cup UNION {FileRules[f] : f \in readable}
           a == LocalSnapshot(readable)
<1>1. IsList(R)
  <2> DEFINE F == {FileRules[f] : f \in readable}
             g == [f \in readable |-> FileRules[f]]
  <2>1. IsFiniteSet(readable)
    BY EngineAssumption, FS_Subset
  <2>2. g \in Surjection(readable, F)
    BY DEF Surjection
  <2>3. IsFiniteSet(F)
    <3> HIDE DEF F, g
    <3> QED
      BY <2>1, <2>2, FS_Surjection
  <2>4. \A T \in F : IsFiniteSet(T) /\ T \subseteq RuleTexts
    BY EngineAssumption DEF IsList
  <2> HIDE DEF F
  <2>5. IsFiniteSet(UNION F) /\ UNION F \subseteq RuleTexts
    BY <2>3, <2>4, FS_UNION
  <2>6. IsFiniteSet(Blacklist) /\ Blacklist \subseteq RuleTexts
    BY EngineAssumption DEF IsList
  <2>7. IsFiniteSet(Blacklist \cup UNION F)
    BY <2>5, <2>6, FS_Union
  <2>8. Blacklist \cup UNION F \subseteq RuleTexts
    BY <2>5, <2>6
  <2> QED
    BY <2>7, <2>8 DEF IsList, F
<1>2. HoldsLists(s, {}) /\ s.vers = [u \in URLs |-> 0] /\ s.files = readable
  <2>1. /\ DOMAIN s = SnapFields /\ s.whitelistExact = Plain(Whitelist)
        /\ s.whitelistTrie = InsertAll(EmptyTrie, Whitelist)
        /\ s.blacklistExact = {} /\ s.blacklistTrie = EmptyTrie
        /\ s.regexBlacklist = RegexHits /\ s.vers = [u \in URLs |-> 0] /\ s.files = readable
    BY DEF EmptySnapshot, SnapFields
  <2>2. Holds(InsertAll(EmptyTrie, Whitelist), Whitelist)
    <3>1. IsList(Whitelist) /\ {} \cup Whitelist = Whitelist
      BY EngineAssumption
    <3>2. Holds(InsertAll(EmptyTrie, Whitelist), {} \cup Whitelist)
      BY <3>1, EmptyHolds, InsertAllHolds
    <3> QED
      BY <3>1, <3>2
  <2>3. Plain({}) = {}
    BY DEF Plain, Marked
  <2> HIDE DEF s
  <2> QED
    BY <2>1, <2>2, <2>3, EmptyHolds DEF HoldsLists
<1>3. a = AddBlack(s, R)
  BY DEF LocalSnapshot
<1> HIDE DEF a, s, R
<1>4. HoldsLists(a, {} \cup R) /\ a.vers = [u \in URLs |-> 0] /\ a.files = readable
  BY <1>1, <1>2, <1>3, AddBlackHolds
<1>5. ListedIn(a) = {} \cup R
  <2>1. {x \in URLs : a.vers[x] > 0} = {}
    BY <1>4
  <2>2. UNION {URLRules[u][a.vers[u]] : u \in {x \in URLs : a.vers[x] > 0}} = {}
    BY <2>1
  <2> QED
    BY <1>4, <2>2 DEF ListedIn, R
<1> QED
  BY <1>4, <1>5 DEF SnapOK, a

(* A fetched list is merged, once. *)
LEMMA MergedHolds ==
    ASSUME NEW s, SnapOK(s), VersOK(s), NEW u \in URLs, s.vers[u] = 0, NEW v, Offered(u, v)
    PROVE  SnapOK(Merged(s, URLRules[u][v], u, v))
<1> DEFINE rules == URLRules[u][v]
           a == AddBlack(s, rules)
           m == Merged(s, rules, u, v)
           vs == [s.vers EXCEPT ![u] = v]
<1>1. IsList(rules) /\ v \in Nat \ {0}
  BY EngineAssumption DEF Offered
<1>2. HoldsLists(a, ListedIn(s) \cup rules) /\ a.vers = s.vers /\ a.files = s.files
  BY <1>1, AddBlackHolds DEF SnapOK
<1>3. m = [a EXCEPT !["vers"] = [a["vers"] EXCEPT ![u] = v]]
  BY DEF Merged
<1> HIDE DEF a, m
<1>4. m = [a EXCEPT !["vers"] = vs]
  BY <1>2, <1>3
<1>5. DOMAIN a = SnapFields
  BY <1>2 DEF HoldsLists
<1> HIDE DEF vs
<1>6. DOMAIN m = SnapFields /\ m["vers"] = vs /\ \A f \in SnapFields \ {"vers"} : m[f] = a[f]
  BY ONLY <1>4, <1>5 DEF SnapFields
<1>7. /\ m.whitelistExact = a.whitelistExact /\ m.whitelistTrie = a.whitelistTrie
      /\ m.blacklistExact = a.blacklistExact /\ m.blacklistTrie = a.blacklistTrie
      /\ m.regexBlacklist = a.regexBlacklist /\ m.vers = vs /\ m.files = a.files
  BY ONLY <1>6 DEF SnapFields
<1>8. HoldsLists(m, ListedIn(s) \cup rules)
  BY <1>2, <1>6, <1>7 DEF HoldsLists
<1>9. ListedIn(m) = ListedIn(s) \cup rules
  <2> DEFINE L(f) == {URLRules[w][f[w]] : w \in {x \in URLs : f[x] > 0}}
  <2>1. s.vers \in [URLs -> Nat] /\ vs \in [URLs -> Nat] /\ vs[u] = v /\ \A w \in URLs \ {u} : vs[w] = s.vers[w]
    BY <1>1 DEF VersOK, vs
  <2>2. {x \in URLs : vs[x] > 0} = {x \in URLs : s.vers[x] > 0} \cup {u}
    BY <1>1, <2>1
  <2>3. u \notin {x \in URLs : s.vers[x] > 0}
    OBVIOUS
  <2>4. L(vs) = L(s.vers) \cup {rules}
    <3> DEFINE D == {x \in URLs : s.vers[x] > 0}
    <3>1. L(vs) = {URLRules[w][vs[w]] : w \in D \cup {u}}
      BY <2>2
    <3>2. \A w \in D : vs[w] = s.vers[w]
      BY <2>1, <2>3
    <3>3. L(s.vers) = {URLRules[w][s.vers[w]] : w \in D}
      OBVIOUS
    <3> HIDE DEF D, L
    <3>4. {URLRules[w][vs[w]] : w \in D \cup {u}} = {URLRules[w][s.vers[w]] : w \in D} \cup {URLRules[u][vs[u]]}
      BY <3>2
    <3> QED
      BY <2>1, <3>1, <3>3, <3>4
  <2>5. UNION L(vs) = (UNION L(s.vers)) \cup rules
    <3> HIDE DEF L, rules
    <3> QED
      BY <2>4
  <2>6. ListedIn(m) = Blacklist \cup (UNION {FileRules[f] : f \in m.files}) \cup (UNION L(m.vers))
    BY DEF ListedIn
  <2>7. ListedIn(s) = Blacklist \cup (UNION {FileRules[f] : f \in s.files}) \cup (UNION L(s.vers))
    BY DEF ListedIn
  <2>8. m.files = s.files /\ m.vers = vs
    BY <1>2, <1>7
  <2> HIDE DEF L, rules
  <2>9. ListedIn(m) = Blacklist \cup (UNION {FileRules[f] : f \in s.files}) \cup (UNION L(vs))
    BY <2>6, <2>8
  <2> DEFINE X == Blacklist \cup UNION {FileRules[f] : f \in s.files}
             Y == UNION L(s.vers)
             Z == UNION L(vs)
  <2>10. ListedIn(m) = X \cup Z /\ ListedIn(s) = X \cup Y /\ Z = Y \cup rules
    BY <2>5, <2>7, <2>9
  <2> HIDE DEF X, Y, Z
  <2> QED
    BY ONLY <2>10
<1> QED
  BY <1>8, <1>9 DEF SnapOK, m

(* The lookup in the exact map and in the tree is the coverage by a rule. *)
LEMMA LookupIsCoverage ==
    ASSUME NEW t, NEW rules, Holds(t, rules), NEW d \in Seq(STRING)
    PROVE  CoveredBy(rules, d) <=> d \in Plain(rules) \/ (HasRules(t) /\ Matches(t, d))
<1> DEFINE path == PathOf(d)
           W == {PathOf(r.labels) : r \in Marked(rules)} \ {<< >>}
           Tree == \E r \in Marked(rules) : PathOf(r.labels) # << >> /\ IsPrefix(PathOf(r.labels), path)
<1>1. path \in Paths
  BY PathType
<1>2. TrieOK(t) /\ t.wildcard = W
  BY DEF Holds
<1>3. MatchesPath(t, path) <=> \E p \in W : IsPrefix(p, path)
  BY <1>1, <1>2, WalkMatches
<1>4. (\E p \in W : IsPrefix(p, path)) <=> Tree
  OBVIOUS
<1>5. HasRules(t) /\ Matches(t, d) <=> Tree
  <2>1. Matches(t, d) <=> MatchesPath(t, path)
    BY DEF Matches
  <2>2. MatchesPath(t, path) => t.count # 0
    BY DEF MatchesPath
  <2>3. t.count \in Nat
    BY <1>2 DEF TrieOK, TrieType
  <2>4. t.count # 0 => HasRules(t)
    BY <2>3 DEF HasRules
  <2> HIDE DEF Tree, W, path
  <2> QED
    BY <1>3, <1>4, <2>1, <2>2, <2>4
<1>6. CoveredBy(rules, d) <=> d \in Plain(rules) \/ Tree
  BY DEF CoveredBy, Plain, Marked
<1> HIDE DEF Tree
<1> QED
  BY <1>5, <1>6

LEMMA VerdictOfSnapshot ==
    ASSUME NEW s, SnapOK(s), enabled, NEW d \in Domains
    PROVE  IsBlocked(s, d) <=> /\ ~CoveredBy(Whitelist, d)
                               /\ CoveredBy(ListedIn(s), d) \/ d \in RegexHits
<1>1. d \in Seq(STRING)
  BY EngineAssumption
<1>2. /\ Holds(s.whitelistTrie, Whitelist) /\ Holds(s.blacklistTrie, ListedIn(s))
      /\ s.whitelistExact = Plain(Whitelist) /\ s.blacklistExact = Plain(ListedIn(s))
      /\ s.regexBlacklist = RegexHits
  BY DEF SnapOK, HoldsLists
<1> DEFINE white == HasRules(s.whitelistTrie) /\ Matches(s.whitelistTrie, d)
           black == HasRules(s.blacklistTrie) /\ Matches(s.blacklistTrie, d)
<1>3. CoveredBy(Whitelist, d) <=> d \in Plain(Whitelist) \/ white
  BY <1>1, <1>2, LookupIsCoverage
<1>4. CoveredBy(ListedIn(s), d) <=> d \in Plain(ListedIn(s)) \/ black
  BY <1>1, <1>2, LookupIsCoverage
<1>5. IsBlocked(s, d) <=>
          /\ d \notin Plain(Whitelist) /\ ~white
          /\ d \in Plain(ListedIn(s)) \/ black \/ d \in RegexHits
  BY <1>2 DEF IsBlocked
<1> HIDE DEF white, black
<1> QED
  BY <1>3, <1>4, <1>5

-----------------------------------------------------------------------------
(* One lemma per action that touches the rules. *)
LEMMA RulesInit == Init => RulesOK
<1> SUFFICES ASSUME Init PROVE RulesOK
  OBVIOUS
<1>1. Len(heap) = 1 /\ heap[1] = EmptySnapshot
  BY DEF Init
<1>2. ASSUME NEW u \in URLs PROVE Offered(u, version[u])
  <2>1. version[u] = 1 /\ Len(URLRules[u]) \in Nat \ {0}
    <3>1. URLRules[u] \in Seq(SUBSET RuleTexts) /\ URLRules[u] # << >>
      BY EngineAssumption
    <3>2. Len(URLRules[u]) \in Nat /\ Len(URLRules[u]) # 0
      BY <3>1, EmptySeq
    <3> QED
      BY <3>2 DEF Init
  <2> QED
    BY <2>1 DEF Offered
<1>3. ASSUME NEW l \in Callers, NEW u \in URLs PROVE FetchRulesOK(l, u)
  <2>1. loader[l].url[u] = "done"
    BY DEF Init, Resting
  <2> QED
    BY <2>1 DEF FetchRulesOK
<1> QED
  BY <1>1, <1>2, <1>3 DEF RulesOK

(* Steps that leave heap and snapshots alone. *)
LEMMA RulesUpdate == ASSUME Inv, RulesOK, NEW u \in URLs, Update(u) PROVE RulesOK'
<1>1. /\ version[u] < Len(URLRules[u]) /\ version' = [version EXCEPT ![u] = @ + 1]
      /\ UNCHANGED <<enabled, heap, loader>>
  BY DEF Update
<1>2. ASSUME NEW w \in URLs PROVE Offered(w, version'[w])
  <2>1. version \in [URLs -> Nat] /\ Offered(w, version[w])
    BY DEF Inv, TypeOK, RulesOK
  <2>2. Len(URLRules[w]) \in Nat
    BY EngineAssumption
  <2> QED
    BY <1>1, <2>1, <2>2 DEF Offered
<1> QED
  BY <1>1, <1>2 DEF RulesOK, FetchRulesOK

LEMMA RulesCall ==
    ASSUME Inv, RulesOK, NEW l \in Callers,
           CallLoadRules(l) \/ LoadDisabled(l) \/ Publish(l) PROVE RulesOK'
<1>1. UNCHANGED <<enabled, version, heap>>
  BY DEF CallLoadRules, LoadDisabled, Publish
<1>2. ASSUME NEW k \in Callers, NEW u \in URLs PROVE FetchRulesOK(k, u)'
  <2>1. \/ loader'[k].url[u] = "done"
        \/ loader'[k].url[u] = loader[k].url[u] /\ loader'[k].body[u] = loader[k].body[u]
    <3>1. CASE CallLoadRules(l)
      BY <3>1 DEF CallLoadRules, Inv, TypeOK
    <3>2. CASE LoadDisabled(l)
      BY <3>2 DEF LoadDisabled, Resting, Inv, TypeOK
    <3>3. CASE Publish(l)
      BY <3>3 DEF Publish, Resting, Inv, TypeOK
    <3> QED
      BY <3>1, <3>2, <3>3
  <2> QED
    BY <1>1, <2>1 DEF RulesOK, FetchRulesOK
<1> QED
  BY <1>1, <1>2 DEF RulesOK

LEMMA RulesFetch ==
    ASSUME Inv, RulesOK, NEW l \in Callers, NEW u \in URLs,
           FetchOK(l, u) \/ FetchFail(l, u) PROVE RulesOK'
<1>1. UNCHANGED <<enabled, version, heap>> /\ loader[l].url[u] = "get"
  BY DEF FetchOK, FetchFail
<1>2. ASSUME NEW k \in Callers, NEW w \in URLs PROVE FetchRulesOK(k, w)'
  <2>1. CASE k = l /\ w = u
    <3>1. CASE FetchOK(l, u)
      <4>1. loader'[l].url[u] = "have" /\ loader'[l].body[u] = version[u]
        BY <3>1 DEF FetchOK, Inv, TypeOK
      <4>2. heap[Len(heap)].vers[u] = 0 /\ Offered(u, version[u])
        BY <1>1 DEF RulesOK, FetchRulesOK
      <4> QED
        BY <1>1, <2>1, <4>1, <4>2 DEF FetchRulesOK
    <3>2. CASE FetchFail(l, u)
      <4>1. loader'[l].url[u] = "done"
        BY <3>2 DEF FetchFail, Inv, TypeOK
      <4> QED
        BY <2>1, <4>1 DEF FetchRulesOK
    <3> QED
      BY <3>1, <3>2
  <2>2. CASE ~(k = l /\ w = u)
    <3>1. loader'[k].url[w] = loader[k].url[w] /\ loader'[k].body[w] = loader[k].body[w]
      <4>1. CASE FetchOK(l, u)
        BY <2>2, <4>1 DEF FetchOK, Inv, TypeOK
      <4>2. CASE FetchFail(l, u)
        BY <2>2, <4>2 DEF FetchFail, Inv, TypeOK
      <4> QED
        BY <4>1, <4>2
    <3> QED
      BY <1>1, <3>1 DEF RulesOK, FetchRulesOK
  <2> QED
    BY <2>1, <2>2
<1> QED
  BY <1>1, <1>2 DEF RulesOK

LEMMA RulesLock == ASSUME Inv, RulesOK, NEW l \in Callers, Lock(l) PROVE RulesOK'
<1>1. PICK readable \in SUBSET Files : heap' = Append(heap, LocalSnapshot(readable))
  BY DEF Lock
<1>2. /\ reloadMu = "free" /\ enabled /\ UNCHANGED <<enabled, version>>
      /\ loader' = [loader EXCEPT ![l] = [Resting EXCEPT !.pc = "load", !.snap = Len(heap) + 1,
                                                         !.url = [u \in URLs |-> "get"]]]
  BY DEF Lock
<1>3. /\ Len(heap) \in Nat \ {0} /\ Len(heap') = Len(heap) + 1
      /\ \A i \in 1..Len(heap) : heap'[i] = heap[i]
      /\ heap'[Len(heap) + 1] = LocalSnapshot(readable)
  BY <1>1, Appended DEF Inv, HeapOK
<1>4. ASSUME NEW i \in 2..Len(heap') PROVE SnapOK(heap'[i])
  <2>1. CASE i = Len(heap) + 1
    BY <1>3, <2>1, LocalHolds
  <2>2. CASE i # Len(heap) + 1
    <3>1. i \in 2..Len(heap) /\ heap'[i] = heap[i]
      BY <1>3, <2>2
    <3>2. SnapOK(heap[i])
      BY <3>1 DEF RulesOK
    <3> QED
      BY <3>1, <3>2
  <2> QED
    BY <2>1, <2>2
<1>5. ASSUME NEW k \in Callers, NEW u \in URLs PROVE FetchRulesOK(k, u)'
  <2>1. heap'[Len(heap')].vers[u] = 0
    BY <1>3, LocalVers
  <2>2. loader'[k].url[u] # "have"
    <3>1. CASE k = l
      BY <1>2, <3>1 DEF Inv, TypeOK, Resting
    <3>2. CASE k # l
      <4>1. loader'[k] = loader[k] /\ loader[k].pc # "load"
        BY <1>2, <3>2, CallersNotFree DEF Inv, TypeOK
      <4> QED
        BY <4>1 DEF Inv, LoaderOK
    <3> QED
      BY <3>1, <3>2
  <2> QED
    BY <2>1, <2>2 DEF FetchRulesOK
<1>6. ASSUME NEW u \in URLs PROVE Offered(u, version[u])'
  BY <1>2 DEF RulesOK, Offered
<1> QED
  BY <1>2, <1>4, <1>5, <1>6 DEF RulesOK

LEMMA RulesMerge ==
    ASSUME Inv, RulesOK, NEW l \in Callers, NEW u \in URLs, Merge(l, u) PROVE RulesOK'
<1> DEFINE n == Len(heap)
           v == loader[l].body[u]
<1>1. /\ loader[l].url[u] = "have" /\ UNCHANGED <<enabled, version>>
      /\ loader' = [loader EXCEPT ![l].url[u] = "done"]
      /\ heap' = [heap EXCEPT ![loader[l].snap] = Merged(heap[loader[l].snap], URLRules[u][v], u, v)]
  BY DEF Merge, Merged
<1>2. /\ loader[l].pc = "load" /\ loader[l].snap = n /\ snapshot < n /\ snapshot \in 1..n /\ n \in Nat
      /\ heap = [i \in 1..n |-> heap[i]] /\ VersOK(heap[n])
  BY <1>1 DEF Inv, TypeOK, LoaderOK, HeapOK
<1>3. n \in 2..n /\ n \in 1..n
  BY <1>2
<1>4. /\ Len(heap') = n /\ \A i \in 1..n : i # n => heap'[i] = heap[i]
      /\ \A w \in URLs \ {u} : heap'[n].vers[w] = heap[n].vers[w]
  BY MergeFacts
<1>5. heap'[n] = Merged(heap[n], URLRules[u][v], u, v)
  <2> DEFINE m == Merged(heap[n], URLRules[u][v], u, v)
  <2>1. heap' = [heap EXCEPT ![n] = m]
    BY <1>1, <1>2
  <2> HIDE DEF m, n
  <2>2. heap'[n] = m
    BY <1>2, <1>3, <2>1
  <2> QED
    BY <2>2 DEF m
<1>6. heap[n].vers[u] = 0 /\ Offered(u, v)
  BY <1>1 DEF RulesOK, FetchRulesOK
<1> HIDE DEF n, v
<1>7. ASSUME NEW i \in 2..n PROVE SnapOK(heap'[i])
  <2>1. SnapOK(heap[i])
    BY DEF RulesOK, n
  <2>2. CASE i = n
    BY <1>2, <1>5, <1>6, <2>1, <2>2, MergedHolds
  <2>3. CASE i # n
    BY <1>2, <1>4, <2>1, <2>3
  <2> QED
    BY <2>2, <2>3
<1>8. ASSUME NEW k \in Callers, NEW w \in URLs PROVE FetchRulesOK(k, w)'
  <2>1. CASE k # l
    <3>1. loader'[k] = loader[k] /\ loader[k].pc # "load"
      BY <1>1, <1>2, <2>1 DEF Inv, TypeOK
    <3>2. loader[k].url[w] = "done"
      BY <3>1 DEF Inv, LoaderOK
    <3> QED
      BY <3>1, <3>2 DEF FetchRulesOK
  <2>2. CASE k = l /\ w = u
    <3>1. loader'[k].url[w] = "done"
      BY <1>1, <2>2 DEF Inv, TypeOK
    <3> QED
      BY <3>1 DEF FetchRulesOK
  <2>3. CASE k = l /\ w # u
    <3>1. loader'[k].url[w] = loader[k].url[w] /\ loader'[k].body = loader[k].body
      BY <1>1, <2>3 DEF Inv, TypeOK
    <3> QED
      BY <1>4, <2>3, <3>1 DEF RulesOK, FetchRulesOK, n
  <2> QED
    BY <2>1, <2>2, <2>3
<1>9. n > 1 => enabled
  BY DEF RulesOK, n
<1>10. ASSUME NEW w \in URLs PROVE Offered(w, version[w])'
  BY <1>1 DEF RulesOK, Offered
<1> QED
  BY <1>1, <1>4, <1>7, <1>8, <1>9, <1>10 DEF RulesOK

LEMMA RulesStep == Inv /\ RulesOK /\ [Next]_vars => RulesOK'
<1> SUFFICES ASSUME Inv, RulesOK, [Next]_vars PROVE RulesOK'
  OBVIOUS
<1>1. CASE UNCHANGED vars
  BY <1>1 DEF vars, RulesOK, FetchRulesOK
<1>2. ASSUME NEW l \in Callers, LoadRules(l) PROVE RulesOK'
  BY <1>2, RulesCall, RulesLock, RulesFetch, RulesMerge DEF LoadRules, Fetching
<1> QED
  BY <1>1, <1>2, RulesUpdate, RulesCall DEF Next

(* Whichever lists were read, fetched in which version, and merged in      *)
(* which order, the published snapshot decides about every domain as the   *)
(* configuration and these lists say: the whitelist first, then the lists  *)
(* and the expressions.                                                    *)
THEOREM VerdictCorrect == Spec => []VerdictAsConfigured
<1>1. Inv /\ RulesOK => VerdictAsConfigured
  <2> SUFFICES ASSUME Inv, RulesOK, snapshot > 1, NEW d \in Domains
               PROVE  IsBlocked(heap[snapshot], d) <=>
                         /\ ~CoveredBy(Whitelist, d)
                         /\ CoveredBy(ListedIn(heap[snapshot]), d) \/ d \in RegexHits
    BY DEF VerdictAsConfigured
  <2>1. snapshot \in 2..Len(heap) /\ Len(heap) > 1
    BY DEF Inv, TypeOK, HeapOK
  <2>2. SnapOK(heap[snapshot]) /\ enabled
    BY <2>1 DEF RulesOK
  <2> QED
    BY <2>2, VerdictOfSnapshot
<1> QED
  BY <1>1, InvInit, InvStep, RulesInit, RulesStep, PTL DEF Spec

-----------------------------------------------------------------------------
(* Lists on their way into a snapshot, ListLoad: what LoadRules does with  *)
(* what it reads, with a state and a specification of its own, ListSpec.   *)

(* A suffix is a prefix of the reversed sequence, and is checked as one.   *)
LEMMA SuffixIsPrefix ==
    \A s, t : IsSuffix(s, t) <=> IsPrefix(Reverse(s), Reverse(t))
  BY DEF IsSuffix

-----------------------------------------------------------------------------
(* What a sequence begins and ends with. *)
LEMMA StartsWith ==
    ASSUME NEW T, NEW s \in Seq(T), NEW p \in Seq(T)
    PROVE  IsPrefix(p, s) <=> Len(p) <= Len(s) /\ \A i \in 1..Len(p) : s[i] = p[i]
<1> DEFINE m == Len(p)
           n == Len(s)
           b == SubSeq(s, 1, m)
<1>1. m \in Nat /\ n \in Nat /\ SubSeq(p, 1, m) = p /\ \A i \in 1..n : s[i] \in T
  BY SubSeqFull
<1>2. IsPrefix(p, s) <=> m <= n /\ p = b
  BY <1>1 DEF IsPrefix
<1> HIDE DEF m, n
<1>3. ASSUME m <= n PROVE b \in Seq(T) /\ Len(b) = m /\ \A i \in 1..m : b[i] = s[i]
  <2>1. 1 \in Int /\ m \in Int /\ \A i \in 1..m : s[i] \in T
    BY <1>1, <1>3
  <2>2. /\ b \in Seq(T) /\ Len(b) = (IF 1 <= m THEN m - 1 + 1 ELSE 0)
        /\ \A i \in 1..(m - 1 + 1) : b[i] = s[1 + i - 1]
    BY <2>1, SubSeqProperties
  <2> HIDE DEF b
  <2>3. Len(b) = m /\ \A i \in 1..m : b[i] = s[i]
    BY <1>1, <2>2
  <2> QED
    BY <2>2, <2>3
<1> HIDE DEF b
<1>4. ASSUME m <= n, \A i \in 1..m : s[i] = p[i] PROVE p = b
  <2>1. Len(p) = Len(b) /\ b \in Seq(T)
    BY <1>3, <1>4 DEF m
  <2>2. \A i \in 1..Len(p) : p[i] = b[i]
    BY <1>3, <1>4 DEF m
  <2> QED
    BY <2>1, <2>2, SeqEqual
<1>5. ASSUME m <= n, p = b PROVE \A i \in 1..m : s[i] = p[i]
  BY <1>3, <1>5
<1> QED
  BY <1>2, <1>4, <1>5 DEF m, n

LEMMA StartsWithOne ==
    ASSUME NEW T, NEW s \in Seq(T), NEW x \in T
    PROVE  IsPrefix(<<x>>, s) <=> s # << >> /\ s[1] = x
<1> DEFINE p == <<x>>
<1>1. p \in Seq(T) /\ Len(p) = 1 /\ p[1] = x
  OBVIOUS
<1> HIDE DEF p
<1>2. IsPrefix(p, s) <=> 1 <= Len(s) /\ \A i \in 1..1 : s[i] = p[i]
  BY <1>1, StartsWith
<1>3. s # << >> <=> 1 <= Len(s)
  OBVIOUS
<1>4. (\A i \in 1..1 : s[i] = p[i]) <=> s[1] = x
  BY <1>1
<1> QED
  BY <1>2, <1>3, <1>4 DEF p

LEMMA StartsWithTwo ==
    ASSUME NEW T, NEW s \in Seq(T), NEW x \in T, NEW y \in T
    PROVE  IsPrefix(<<x, y>>, s) <=> 2 <= Len(s) /\ s[1] = x /\ s[2] = y
<1> DEFINE p == <<x, y>>
<1>1. p \in Seq(T) /\ Len(p) = 2 /\ p[1] = x /\ p[2] = y
  OBVIOUS
<1> HIDE DEF p
<1>2. IsPrefix(p, s) <=> 2 <= Len(s) /\ \A i \in 1..2 : s[i] = p[i]
  <2>1. IsPrefix(p, s) <=> Len(p) <= Len(s) /\ \A i \in 1..Len(p) : s[i] = p[i]
    BY <1>1, StartsWith
  <2> QED
    BY <1>1, <2>1
<1>3. (\A i \in 1..2 : s[i] = p[i]) <=> s[1] = x /\ s[2] = y
  BY <1>1
<1> QED
  BY <1>2, <1>3 DEF p

LEMMA ReverseFacts ==
    ASSUME NEW T, NEW s \in Seq(T)
    PROVE  /\ Reverse(s) \in Seq(T) /\ Len(Reverse(s)) = Len(s)
           /\ \A i \in 1..Len(s) : Reverse(s)[i] = s[Len(s) - i + 1]
  BY DEF Reverse

LEMMA EndsWith ==
    ASSUME NEW T, NEW s \in Seq(T), NEW x \in T
    PROVE  IsSuffix(<<x>>, s) <=> s # << >> /\ s[Len(s)] = x
<1> DEFINE p == <<x>>
           r == Reverse(s)
<1>1. Reverse(p) = p
  BY DEF Reverse
<1>2. r \in Seq(T) /\ Len(r) = Len(s) /\ \A i \in 1..Len(s) : r[i] = s[Len(s) - i + 1]
  BY ReverseFacts
<1>3. IsSuffix(p, s) <=> IsPrefix(p, r)
  BY <1>1, SuffixIsPrefix
<1> HIDE DEF r
<1>4. IsPrefix(<<x>>, r) <=> r # << >> /\ r[1] = x
  BY <1>2, StartsWithOne
<1>5. s # << >> <=> r # << >>
  BY <1>2
<1>6. s # << >> => r[1] = s[Len(s)]
  BY <1>2
<1> QED
  BY <1>3, <1>4, <1>5, <1>6
(* What the trimming of strings leaves. *)
LEMMA PrefixTrimmed ==
    ASSUME NEW T, NEW s \in Seq(T), NEW p \in Seq(T), NEW w, w = TrimPrefix(s, p)
    PROVE  /\ w \in Seq(T) /\ Len(w) <= Len(s)
           /\ IsPrefix(p, s) => s = p \o w /\ Len(w) = Len(s) - Len(p)
           /\ ~IsPrefix(p, s) => w = s
<1> DEFINE m == Len(p)
           n == Len(s)
<1>1. m \in Nat /\ n \in Nat /\ (\A i \in 1..n : s[i] \in T) /\ SubSeq(p, 1, m) = p /\ SubSeq(s, 1, n) = s
  BY SubSeqFull
<1>2. w = IF IsPrefix(p, s) THEN SubSeq(s, m + 1, n) ELSE s
  BY DEF TrimPrefix
<1>3. CASE IsPrefix(p, s)
  <2>1. m <= n /\ SubSeq(s, 1, m) = p /\ w = SubSeq(s, m + 1, n)
    BY <1>1, <1>2, <1>3 DEF IsPrefix
  <2>0. SubSeq(s, 1, m) \o SubSeq(s, m + 1, n) = SubSeq(s, 1, n)
    <3>1. 1 \in 1..(Len(s) + 1) /\ m \in (1 - 1)..Len(s) /\ n \in m..Len(s)
      BY <1>1, <2>1
    <3> QED
      BY <3>1, ConcatAdjacentSubSeq
  <2> HIDE DEF m, n
  <2>2. m + 1 \in Int /\ n \in Int /\ \A i \in (m + 1)..n : s[i] \in T
    BY <1>1
  <2>3. /\ SubSeq(s, m + 1, n) \in Seq(T)
        /\ Len(SubSeq(s, m + 1, n)) = (IF m + 1 <= n THEN n - (m + 1) + 1 ELSE 0)
    BY <2>2, SubSeqProperties
  <2>4. w \in Seq(T) /\ Len(w) = (IF m + 1 <= n THEN n - (m + 1) + 1 ELSE 0)
    BY <2>1, <2>3
  <2>5. Len(w) = n - m /\ Len(w) <= n
    BY <1>1, <2>1, <2>4
  <2>6. p \o w = s
    BY <1>1, <2>0, <2>1
  <2> QED
    BY <1>3, <2>4, <2>5, <2>6 DEF m, n
<1>4. CASE ~IsPrefix(p, s)
  <2>1. w = s /\ n <= n
    BY <1>1, <1>2, <1>4
  <2> QED
    BY <1>4, <2>1, Zenon DEF n
<1> QED
  BY <1>3, <1>4

LEMMA PrefixRemoved ==
    ASSUME NEW T, NEW s \in Seq(T), NEW p \in Seq(T)
    PROVE  TrimPrefix(p \o s, p) = s
<1> DEFINE t == p \o s
           w == TrimPrefix(t, p)
<1>1. /\ t \in Seq(T) /\ Len(t) = Len(p) + Len(s)
      /\ \A i \in 1..(Len(p) + Len(s)) : t[i] = IF i <= Len(p) THEN p[i] ELSE s[i - Len(p)]
  BY ConcatProperties
<1> HIDE DEF t
<1>2. IsPrefix(p, t)
  <2>1. Len(p) <= Len(t) /\ \A i \in 1..Len(p) : t[i] = p[i]
    BY <1>1
  <2> QED
    BY <1>1, <2>1, StartsWith
<1>3. w \in Seq(T) /\ t = p \o w
  BY <1>1, <1>2, PrefixTrimmed
<1> HIDE DEF w
<1>4. p \o s = p \o w
  BY <1>3 DEF t
<1>5. s = w
  <2> DEFINE m == Len(p)
  <2>1. m \in Nat /\ Len(s) \in Nat /\ Len(w) \in Nat
    BY <1>3
  <2>2. /\ Len(p \o s) = m + Len(s)
        /\ \A i \in 1..(m + Len(s)) : (p \o s)[i] = IF i <= m THEN p[i] ELSE s[i - m]
    BY ConcatProperties
  <2>3. /\ Len(p \o w) = m + Len(w)
        /\ \A i \in 1..(m + Len(w)) : (p \o w)[i] = IF i <= m THEN p[i] ELSE w[i - m]
    BY <1>3, ConcatProperties
  <2> HIDE DEF m
  <2>4. Len(s) = Len(w)
    BY <1>4, <2>1, <2>2, <2>3
  <2>5. ASSUME NEW i \in 1..Len(s) PROVE s[i] = w[i]
    <3>1. m + i \in 1..(m + Len(s)) /\ ~(m + i <= m) /\ (m + i) - m = i
      BY <2>1
    <3>2. (p \o s)[m + i] = s[i] /\ (p \o w)[m + i] = w[i]
      BY <2>2, <2>3, <2>4, <3>1
    <3> QED
      BY <1>4, <3>2
  <2> QED
    BY <1>3, <2>4, <2>5, SeqEqual
<1> QED
  BY <1>5 DEF w, t

LEMMA SuffixKept ==
    ASSUME NEW T, NEW s \in Seq(T), NEW x \in T, s = << >> \/ s[Len(s)] # x
    PROVE  TrimSuffix(s, <<x>>) = s
  BY EndsWith DEF TrimSuffix

LEMMA SuffixTrimmed ==
    ASSUME NEW T, NEW s \in Seq(T), NEW x \in T, s # << >>, s[Len(s)] = x,
           NEW w, w = TrimSuffix(s, <<x>>)
    PROVE  s = Append(w, x) /\ w \in Seq(T) /\ Len(w) = Len(s) - 1
<1> DEFINE n == Len(s)
           p == <<x>>
<1>1. n \in Nat /\ (\A i \in 1..n : s[i] \in T) /\ SubSeq(s, 1, n) = s /\ Len(p) = 1 /\ p \in Seq(T)
  BY SubSeqFull
<1>2. w = SubSeq(s, 1, n - 1)
  BY <1>1, EndsWith DEF TrimSuffix
<1>3. 1 \in 1..Len(s) /\ n \in 1..Len(s)
  OBVIOUS
<1>4. SubSeq(s, 1, n) = SubSeq(s, 1, n - 1) \o <<s[n]>>
  BY <1>3, SubSeqRecursiveSecond
<1>5. s = w \o p
  BY <1>1, <1>2, <1>4
<1>6. n - 1 \in Int /\ 1 \in Int /\ \A i \in 1..(n - 1) : s[i] \in T
  BY <1>1
<1>7. n \in Nat /\ 1 <= n
  BY <1>3
<1> HIDE DEF n
<1>8. /\ SubSeq(s, 1, n - 1) \in Seq(T)
      /\ Len(SubSeq(s, 1, n - 1)) = (IF 1 <= n - 1 THEN (n - 1) - 1 + 1 ELSE 0)
  BY <1>6, SubSeqProperties
<1>9. w \in Seq(T) /\ Len(w) = (IF 1 <= n - 1 THEN (n - 1) - 1 + 1 ELSE 0)
  BY <1>2, <1>8
<1>10. Len(w) = n - 1
  BY <1>7, <1>9
<1>11. Append(w, x) = w \o p
  BY <1>9, AppendIsConcat
<1> QED
  BY <1>5, <1>9, <1>10, <1>11 DEF n

LEMMA SuffixRemoved ==
    ASSUME NEW T, NEW s \in Seq(T), NEW x \in T
    PROVE  TrimSuffix(Append(s, x), <<x>>) = s
<1> DEFINE t == Append(s, x)
           w == TrimSuffix(t, <<x>>)
<1>1. t \in Seq(T) /\ t # << >> /\ t[Len(t)] = x
  BY AppendProperties
<1> HIDE DEF t
<1>2. w \in Seq(T) /\ t = Append(w, x)
  BY <1>1, SuffixTrimmed
<1> HIDE DEF w
<1>3. s = w
  BY <1>2, AppendInjective DEF t
<1> QED
  BY <1>3 DEF w, t
(* The pieces of a text in lower case, and with the punctuation. *)
Lower == Pieces \ DOMAIN LowerCase
Text == Lower \cup Punctuation
Affix(x) == {<< >>, <<x>>}
Decorations == {"||", "^", "*", "."}

LEMMA LowerIsText == Seq(Lower) \subseteq Seq(Text)
<1>1. ASSUME NEW s \in Seq(Lower) PROVE s \in Seq(Text)
  <2>1. Lower \subseteq Text
    BY DEF Text
  <2> QED
    BY <2>1, SeqMonotonic
<1> QED
  BY <1>1

LEMMA PunctuationIsText ==
    /\ "||" \in Text /\ "^" \in Text /\ "*" \in Text /\ "." \in Text /\ "#" \in Text
    /\ << >> \in Seq(Text) /\ <<"||">> \in Seq(Text) /\ <<"^">> \in Seq(Text) /\ <<".">> \in Seq(Text)
    /\ <<"*", ".">> \in Seq(Text)
<1>1. "||" \in Text /\ "^" \in Text /\ "*" \in Text /\ "." \in Text /\ "#" \in Text
  BY DEF Text, Punctuation
<1> QED
  BY <1>1

LEMMA ToLowerFacts ==
    ASSUME NEW t \in Seq(Pieces), NEW u, u = ToLower(t)
    PROVE  /\ u \in Seq(Lower) /\ Len(u) = Len(t) /\ DOMAIN u = 1..Len(t)
           /\ \A i \in 1..Len(t), x \in Punctuation : u[i] = x <=> t[i] = x
<1> DEFINE Low == Pieces \ (Punctuation \cup DOMAIN LowerCase)
<1>1. /\ LowerCase \in [DOMAIN LowerCase -> Low]
      /\ DOMAIN LowerCase \cap Punctuation = {}
  BY ListLoadAssumption DEF WellFormed
<1>2. \A p \in DOMAIN LowerCase : LowerCase[p] \in Low
  BY <1>1
<1>3. u = [i \in 1..Len(t) |-> IF t[i] \in DOMAIN LowerCase THEN LowerCase[t[i]] ELSE t[i]]
  BY DEF ToLower
<1>4. \A i \in 1..Len(t) : t[i] \in Pieces
  OBVIOUS
<1>5. ASSUME NEW i \in 1..Len(t)
      PROVE  u[i] \in Lower /\ \A x \in Punctuation : u[i] = x <=> t[i] = x
  <2>1. u[i] = IF t[i] \in DOMAIN LowerCase THEN LowerCase[t[i]] ELSE t[i]
    BY <1>3
  <2>2. CASE t[i] \in DOMAIN LowerCase
    <3>1. u[i] = LowerCase[t[i]] /\ LowerCase[t[i]] \in Low
      BY <1>2, <2>1, <2>2
    <3> QED
      BY <1>1, <2>2, <3>1 DEF Lower
  <2>3. CASE t[i] \notin DOMAIN LowerCase
    BY <1>4, <2>1, <2>3 DEF Lower
  <2> QED
    BY <2>2, <2>3
<1>6. Len(t) \in Nat
  OBVIOUS
<1>7. u \in Seq(Lower) /\ Len(u) = Len(t) /\ DOMAIN u = 1..Len(t)
  <2> DEFINE n == Len(t)
  <2>1. u \in [1..n -> Lower] /\ n \in Nat
    BY <1>3, <1>5, <1>6
  <2> HIDE DEF n
  <2>2. u \in Seq(Lower) /\ Len(u) = n /\ DOMAIN u = 1..n
    BY <2>1
  <2> QED
    BY <2>2 DEF n
<1> QED
  BY <1>5, <1>7

LEMMA LowerStays ==
    ASSUME NEW t \in Seq(Lower) PROVE ToLower(t) = t
<1>1. \A i \in 1..Len(t) : t[i] \notin DOMAIN LowerCase
  BY DEF Lower
<1>2. ToLower(t) = [i \in 1..Len(t) |-> t[i]]
  BY <1>1 DEF ToLower
<1> QED
  BY <1>2

(* Trimming makes no new pieces. *)
LEMMA TrimType ==
    ASSUME NEW T, NEW s \in Seq(T), NEW p, Len(p) \in Nat
    PROVE  /\ TrimPrefix(s, p) \in Seq(T) /\ Len(TrimPrefix(s, p)) <= Len(s)
           /\ TrimSuffix(s, p) \in Seq(T) /\ Len(TrimSuffix(s, p)) <= Len(s)
<1> DEFINE m == Len(p)
           n == Len(s)
<1>1. m \in Nat /\ n \in Nat /\ \A i \in 1..n : s[i] \in T
  OBVIOUS
<1> HIDE DEF m, n
<1>2. SubSeq(s, m + 1, n) \in Seq(T) /\ Len(SubSeq(s, m + 1, n)) <= n
  <2>1. m + 1 \in Int /\ n \in Int /\ \A i \in (m + 1)..n : s[i] \in T
    BY <1>1
  <2>2. /\ SubSeq(s, m + 1, n) \in Seq(T)
        /\ Len(SubSeq(s, m + 1, n)) = IF m + 1 <= n THEN n - (m + 1) + 1 ELSE 0
    BY <2>1, SubSeqProperties
  <2> QED
    BY <1>1, <2>2
<1>3. SubSeq(s, 1, n - m) \in Seq(T) /\ Len(SubSeq(s, 1, n - m)) <= n
  <2>1. 1 \in Int /\ n - m \in Int /\ \A i \in 1..(n - m) : s[i] \in T
    BY <1>1
  <2>2. /\ SubSeq(s, 1, n - m) \in Seq(T)
        /\ Len(SubSeq(s, 1, n - m)) = IF 1 <= n - m THEN (n - m) - 1 + 1 ELSE 0
    BY <2>1, SubSeqProperties
  <2> QED
    BY <1>1, <2>2
<1> QED
  BY <1>1, <1>2, <1>3 DEF TrimPrefix, TrimSuffix, m, n

LEMMA NormalizedType ==
    ASSUME NEW T, NEW t, ToLower(t) \in Seq(T), Len(ToLower(t)) = Len(t)
    PROVE  normalizeDomain(t) \in Seq(T) /\ Len(normalizeDomain(t)) <= Len(t)
<1> DEFINE u == ToLower(t)
           a == TrimPrefix(u, <<"||">>)
           b == TrimPrefix(a, <<"^">>)
           c == TrimSuffix(b, <<"^">>)
           d == TrimSuffix(c, <<".">>)
<1>0. Len(<<"||">>) \in Nat /\ Len(<<"^">>) \in Nat /\ Len(<<".">>) \in Nat
  OBVIOUS
<1>1. u \in Seq(T) /\ Len(u) = Len(t)
  OBVIOUS
<1> HIDE DEF u
<1>2. a \in Seq(T) /\ Len(a) <= Len(u)
  BY <1>0, <1>1, TrimType
<1> HIDE DEF a
<1>3. b \in Seq(T) /\ Len(b) <= Len(a)
  BY <1>0, <1>2, TrimType
<1> HIDE DEF b
<1>4. c \in Seq(T) /\ Len(c) <= Len(b)
  BY <1>0, <1>3, TrimType
<1> HIDE DEF c
<1>5. d \in Seq(T) /\ Len(d) <= Len(c)
  BY <1>0, <1>4, TrimType
<1> HIDE DEF d
<1>6. normalizeDomain(t) = d
  BY DEF normalizeDomain, a, b, c, d, u
<1>7. Len(d) <= Len(t)
  <2>1. Len(u) \in Nat /\ Len(a) \in Nat /\ Len(b) \in Nat /\ Len(c) \in Nat /\ Len(d) \in Nat
    BY <1>1, <1>2, <1>3, <1>4, <1>5
  <2> QED
    BY <1>1, <1>2, <1>3, <1>4, <1>5, <2>1
<1> QED
  BY <1>5, <1>6, <1>7
(* A text between the decorations that normalizeDomain takes away. *)
Around(u, n) ==
    \E p \in Affix("||"), q \in Affix("^"), c \in Affix("."), e \in Affix("^") :
        u = p \o (q \o ((n \o c) \o e))

LEMMA AffixType ==
    ASSUME NEW x \in Text, NEW p \in Affix(x)
    PROVE  p \in Seq(Text) /\ (p = << >> \/ p = <<x>>)
<1>1. <<x>> \in Seq(Text) /\ << >> \in Seq(Text)
  OBVIOUS
<1>2. p = << >> \/ p = <<x>>
  BY DEF Affix
<1> QED
  BY <1>1, <1>2, Zenon

LEMMA OptionalPrefix ==
    ASSUME NEW x \in Text, NEW p \in Affix(x), NEW s \in Seq(Text), s # << >>, s[1] # x
    PROVE  TrimPrefix(p \o s, <<x>>) = s
<1>1. CASE p = << >>
  <2>1. p \o s = s
    BY <1>1, ConcatEmptySeq
  <2>2. ~IsPrefix(<<x>>, s)
    BY StartsWithOne
  <2> QED
    BY <2>1, <2>2 DEF TrimPrefix
<1>2. CASE p = <<x>>
  <2>1. p \in Seq(Text)
    BY AffixType
  <2> QED
    BY <1>2, <2>1, PrefixRemoved
<1> QED
  BY <1>1, <1>2, AffixType

LEMMA OptionalSuffix ==
    ASSUME NEW x \in Text, NEW p \in Affix(x), NEW s \in Seq(Text), s # << >>, s[Len(s)] # x
    PROVE  TrimSuffix(s \o p, <<x>>) = s
<1>1. CASE p = << >>
  <2>1. s \o p = s
    BY <1>1, ConcatEmptySeq
  <2> QED
    BY <2>1, SuffixKept
<1>2. CASE p = <<x>>
  <2>1. s \o p = Append(s, x)
    BY <1>2, AppendIsConcat
  <2> QED
    BY <2>1, SuffixRemoved
<1> QED
  BY <1>1, <1>2, AffixType

(* The ends of a concatenation. *)
LEMMA ConcatEnds ==
    ASSUME NEW T, NEW s \in Seq(T), NEW t \in Seq(T)
    PROVE  /\ s \o t \in Seq(T) /\ Len(s \o t) = Len(s) + Len(t)
           /\ s # << >> => s \o t # << >> /\ (s \o t)[1] = s[1]
           /\ t # << >> => s \o t # << >> /\ (s \o t)[Len(s \o t)] = t[Len(t)]
           /\ s = << >> => s \o t = t
           /\ t = << >> => s \o t = s
<1> DEFINE m == Len(s)
           n == Len(t)
           c == s \o t
<1>1. /\ c \in Seq(T) /\ Len(c) = m + n /\ m \in Nat /\ n \in Nat
      /\ \A i \in 1..(m + n) : c[i] = IF i <= m THEN s[i] ELSE t[i - m]
  BY ConcatProperties
<1>2. (s # << >> => m # 0) /\ (t # << >> => n # 0) /\ (c = << >> => Len(c) = 0)
  BY EmptySeq
<1>3. (s = << >> => c = t) /\ (t = << >> => c = s)
  BY ConcatEmptySeq
<1> HIDE DEF m, n, c
<1>4. ASSUME m # 0 PROVE c # << >> /\ c[1] = s[1]
  <2>1. 1 \in 1..(m + n) /\ 1 <= m /\ m + n # 0
    BY <1>1, <1>4
  <2> QED
    BY <1>1, <1>2, <2>1
<1>5. ASSUME n # 0 PROVE c # << >> /\ c[m + n] = t[n]
  <2>1. m + n \in 1..(m + n) /\ ~(m + n <= m) /\ m + n # 0 /\ (m + n) - m = n
    BY <1>1, <1>5
  <2> QED
    BY <1>1, <1>2, <2>1
<1> QED
  BY <1>1, <1>2, <1>3, <1>4, <1>5 DEF m, n, c

LEMMA AroundNormalized ==
    ASSUME NEW t, NEW x \in Seq(Text), Around(ToLower(t), x),
           x # << >>, x[1] \notin {"||", "^"}, x[Len(x)] \notin {"^", "."}
    PROVE  normalizeDomain(t) = x
<1>0. PICK p \in Affix("||"), q \in Affix("^"), c \in Affix("."), e \in Affix("^") :
        ToLower(t) = p \o (q \o ((x \o c) \o e))
  BY DEF Around
<1>1. /\ p \in Seq(Text) /\ q \in Seq(Text) /\ c \in Seq(Text) /\ e \in Seq(Text)
      /\ q = << >> \/ q = <<"^">>
      /\ c = << >> \/ c = <<".">>
  BY AffixType, PunctuationIsText
<1> DEFINE v == x \o c
           w == v \o e
           z == q \o w
<1>2. v \in Seq(Text) /\ v # << >> /\ v[1] = x[1] /\ v[Len(v)] # "^"
  <2>1. v \in Seq(Text) /\ v # << >> /\ v[1] = x[1]
    BY <1>1, ConcatEnds
  <2>2. CASE c = << >>
    <3>1. v = x
      BY <1>1, <2>2, ConcatEnds
    <3> QED
      BY <2>1, <3>1
  <2>3. CASE c = <<".">>
    <3>1. c # << >> /\ c[Len(c)] = "."
      BY <2>3
    <3>2. v[Len(v)] = "."
      BY <1>1, <3>1, ConcatEnds
    <3> QED
      BY <2>1, <3>2
  <2> QED
    BY <1>1, <2>2, <2>3
<1> HIDE DEF v
<1>3. w \in Seq(Text) /\ w # << >> /\ w[1] = x[1]
  BY <1>1, <1>2, ConcatEnds
<1> HIDE DEF w
<1>4. z \in Seq(Text) /\ z # << >> /\ z[1] # "||"
  <2>1. z \in Seq(Text) /\ z # << >>
    BY <1>1, <1>3, ConcatEnds
  <2>2. CASE q = << >>
    <3>1. z = w
      BY <1>1, <1>3, <2>2, ConcatEnds
    <3> QED
      BY <1>3, <2>1, <3>1
  <2>3. CASE q = <<"^">>
    <3>1. q # << >> /\ q[1] = "^"
      BY <2>3
    <3>2. z[1] = "^"
      BY <1>1, <1>3, <3>1, ConcatEnds
    <3> QED
      BY <2>1, <3>2
  <2> QED
    BY <1>1, <2>2, <2>3
<1> HIDE DEF z
<1>5. TrimPrefix(p \o z, <<"||">>) = z
  BY <1>4, OptionalPrefix, PunctuationIsText
<1>6. TrimPrefix(z, <<"^">>) = w
  BY <1>3, OptionalPrefix, PunctuationIsText DEF z
<1>7. TrimSuffix(w, <<"^">>) = v
  BY <1>2, OptionalSuffix, PunctuationIsText DEF w
<1>8. TrimSuffix(v, <<".">>) = x
  BY OptionalSuffix, PunctuationIsText DEF v
<1>9. ToLower(t) = p \o z
  BY <1>0 DEF v, w, z
<1> QED
  BY <1>5, <1>6, <1>7, <1>8, <1>9 DEF normalizeDomain

LEMMA PrefixOptional ==
    ASSUME NEW x \in Text, NEW s \in Seq(Text)
    PROVE  /\ TrimPrefix(s, <<x>>) \in Seq(Text)
           /\ \E p \in Affix(x) : s = p \o TrimPrefix(s, <<x>>)
<1> DEFINE w == TrimPrefix(s, <<x>>)
           f == <<x>>
<1>0. f \in Seq(Text)
  OBVIOUS
<1>1. CASE IsPrefix(f, s)
  <2>1. w = TrimPrefix(s, f)
    OBVIOUS
  <2>2. f \in Affix(x)
    BY DEF Affix
  <2> HIDE DEF f, w
  <2>3. w \in Seq(Text) /\ s = f \o w
    BY <1>0, <1>1, <2>1, PrefixTrimmed
  <2>4. \E p \in Affix(x) : s = p \o w
    BY <2>2, <2>3
  <2> QED
    BY <2>3, <2>4 DEF w
<1>2. CASE ~IsPrefix(f, s)
  <2>1. w = s
    BY <1>2 DEF TrimPrefix
  <2>2. << >> \in Affix(x) /\ s = << >> \o s
    BY ConcatEmptySeq DEF Affix
  <2> QED
    BY <2>1, <2>2
<1> QED
  BY <1>1, <1>2

LEMMA SuffixOptional ==
    ASSUME NEW x \in Text, NEW s \in Seq(Text)
    PROVE  /\ TrimSuffix(s, <<x>>) \in Seq(Text)
           /\ \E p \in Affix(x) : s = TrimSuffix(s, <<x>>) \o p
<1> DEFINE w == TrimSuffix(s, <<x>>)
<1>1. CASE s # << >> /\ s[Len(s)] = x
  <2>1. w \in Seq(Text) /\ s = Append(w, x)
    BY <1>1, SuffixTrimmed
  <2> HIDE DEF w
  <2>2. <<x>> \in Affix(x) /\ Append(w, x) = w \o <<x>>
    BY <2>1, AppendIsConcat DEF Affix
  <2>3. \E p \in Affix(x) : s = w \o p
    BY <2>1, <2>2
  <2> QED
    BY <2>1, <2>3 DEF w
<1>2. CASE s = << >> \/ s[Len(s)] # x
  <2>1. w = s
    BY <1>2, SuffixKept
  <2>2. << >> \in Affix(x) /\ s = s \o << >>
    BY ConcatEmptySeq DEF Affix
  <2> QED
    BY <2>1, <2>2
<1> QED
  BY <1>1, <1>2

LEMMA NormalizedAround ==
    ASSUME NEW t, ToLower(t) \in Seq(Text)
    PROVE  /\ normalizeDomain(t) \in Seq(Text)
           /\ Around(ToLower(t), normalizeDomain(t))
<1> DEFINE u == ToLower(t)
           a == TrimPrefix(u, <<"||">>)
           b == TrimPrefix(a, <<"^">>)
           v == TrimSuffix(b, <<"^">>)
           d == TrimSuffix(v, <<".">>)
<1>0. normalizeDomain(t) = d /\ u \in Seq(Text)
  BY DEF normalizeDomain
<1> HIDE DEF u
<1>1. a \in Seq(Text) /\ \E p \in Affix("||") : u = p \o a
  BY <1>0, PrefixOptional, PunctuationIsText
<1> HIDE DEF a
<1>2. b \in Seq(Text) /\ \E q \in Affix("^") : a = q \o b
  BY <1>1, PrefixOptional, PunctuationIsText
<1> HIDE DEF b
<1>3. v \in Seq(Text) /\ \E e \in Affix("^") : b = v \o e
  BY <1>2, SuffixOptional, PunctuationIsText
<1> HIDE DEF v
<1>4. d \in Seq(Text) /\ \E c \in Affix(".") : v = d \o c
  BY <1>3, SuffixOptional, PunctuationIsText
<1> HIDE DEF d
<1>5. Around(u, d)
  BY <1>1, <1>2, <1>3, <1>4 DEF Around
<1> QED
  BY <1>0, <1>4, <1>5 DEF u
(* Concatenation, without the axioms the provers have for it. *)
Join(a, b) == a \o b

LEMMA JoinFacts ==
    ASSUME NEW a \in Seq(Text), NEW b \in Seq(Text), NEW c \in Seq(Text)
    PROVE  Join(a, b) \in Seq(Text) /\ Join(Join(a, b), c) = Join(a, Join(b, c))
  BY ConcatAssociative, ConcatProperties DEF Join

LEMMA TwoPieces ==
    ASSUME NEW x, NEW y PROVE <<x>> \o <<y>> = <<x, y>>
<1> DEFINE T == {x, y}
           a == <<x>>
           b == <<y>>
           s == a \o b
           r == <<x, y>>
<1>1. a \in Seq(T) /\ Len(a) = 1 /\ a[1] = x /\ b \in Seq(T) /\ Len(b) = 1 /\ b[1] = y
  OBVIOUS
<1>2. r \in Seq(T) /\ Len(r) = 2 /\ r[1] = x /\ r[2] = y
  OBVIOUS
<1> HIDE DEF a, b, r, T
<1>3. /\ s \in Seq(T) /\ Len(s) = Len(a) + Len(b)
      /\ \A i \in 1..(Len(a) + Len(b)) : s[i] = IF i <= Len(a) THEN a[i] ELSE b[i - Len(a)]
  BY <1>1, ConcatProperties
<1> HIDE DEF s
<1>4. Len(s) = 2 /\ s[1] = x /\ s[2] = y
  BY <1>1, <1>3
<1>5. \A i \in 1..Len(s) : s[i] = r[i]
  BY <1>2, <1>4
<1>6. s = r
  BY <1>2, <1>3, <1>4, <1>5, SeqEqual
<1> QED
  BY <1>6 DEF s, a, b, r

(* The decorations of a token, opening and closing, one by one. *)
LEMMA OpeningParts ==
    ASSUME NEW o
    PROVE  o \in Opening <=> \E p \in Affix("||"), q \in Affix("^") : o = p \o q
<1> DEFINE a == <<"||">>
           b == <<"^">>
           ab == <<"||", "^">>
<1>1. a \o << >> = a /\ << >> \o b = b /\ << >> \o << >> = << >>
  BY PunctuationIsText, ConcatEmptySeq
<1>2. a \o b = ab
  BY TwoPieces
<1>3. Opening = {<< >>, a, b, ab} /\ Affix("||") = {<< >>, a} /\ Affix("^") = {<< >>, b}
  BY DEF Opening, Affix
<1> HIDE DEF a, b, ab
<1> QED
  BY <1>1, <1>2, <1>3

LEMMA ClosingParts ==
    ASSUME NEW k \in Closing
    PROVE  \E c \in Affix("."), e \in Affix("^") : k = c \o e
<1> DEFINE a == <<".">>
           b == <<"^">>
           ab == <<".", "^">>
<1>1. a \o << >> = a /\ << >> \o b = b /\ << >> \o << >> = << >>
  BY PunctuationIsText, ConcatEmptySeq
<1>2. a \o b = ab
  BY TwoPieces
<1>3. Closing = {<< >>, b, a, ab} /\ Affix(".") = {<< >>, a} /\ Affix("^") = {<< >>, b}
  BY DEF Closing, Affix
<1> HIDE DEF a, b, ab
<1> QED
  BY <1>1, <1>2, <1>3

LEMMA SpellsAround ==
    ASSUME NEW t, NEW x \in Seq(Text), Spells(t, x)
    PROVE  Around(ToLower(t), x)
<1>1. PICK o \in Opening, k \in Closing : ToLower(t) = (o \o x) \o k
  BY DEF Spells
<1>2. PICK p \in Affix("||"), q \in Affix("^") : o = p \o q
  BY OpeningParts
<1>3. PICK c \in Affix("."), e \in Affix("^") : k = c \o e
  BY ClosingParts
<1>4. p \in Seq(Text) /\ q \in Seq(Text) /\ c \in Seq(Text) /\ e \in Seq(Text)
  BY AffixType, PunctuationIsText
<1>5. ToLower(t) = Join(Join(Join(p, q), x), Join(c, e))
  BY <1>1, <1>2, <1>3, Zenon DEF Join
<1> DEFINE v == Join(q, x)
           f == Join(c, e)
<1>6. v \in Seq(Text) /\ f \in Seq(Text) /\ Join(Join(p, q), x) = Join(p, v)
  BY <1>4, JoinFacts
<1>7. Join(x, f) = Join(Join(x, c), e)
  BY <1>4, JoinFacts
<1> HIDE DEF f
<1>8. Join(v, f) = Join(q, Join(x, f))
  BY <1>4, <1>6, JoinFacts
<1> HIDE DEF v
<1>9. Join(Join(p, v), f) = Join(p, Join(v, f))
  BY <1>4, <1>6, JoinFacts
<1>10. ToLower(t) = Join(p, Join(q, Join(Join(x, c), e)))
  BY <1>5, <1>6, <1>7, <1>8, <1>9, Zenon DEF f
<1>11. ToLower(t) = p \o (q \o ((x \o c) \o e))
  BY <1>10, Zenon DEF Join
<1> QED
  BY <1>11 DEF Around

(* The words of a text are those between its decorations. *)
LEMMA AffixWithout ==
    ASSUME NEW x \in Text, NEW p \in Affix(x), NEW s \in Seq(Text), NEW S, x \in S
    PROVE  Without(p \o s, S) = Without(s, S) /\ Without(s \o p, S) = Without(s, S)
<1>1. CASE p = << >>
  BY <1>1, ConcatEmptySeq
<1>2. CASE p = <<x>>
  <2>1. Without(<<x>> \o s, S) = Without(s, S)
    BY WithoutFirst
  <2>2. s \o <<x>> = Append(s, x)
    BY AppendIsConcat
  <2>3. Without(Append(s, x), S) = Without(s, S)
    BY WithoutAppend
  <2> QED
    BY <1>2, <2>1, <2>2, <2>3, Zenon
<1> QED
  BY <1>1, <1>2, AffixType

LEMMA AroundWords ==
    ASSUME NEW u, NEW x \in Seq(Text), Around(u, x)
    PROVE  Without(u, Decorations) = Without(x, Decorations)
<1>1. PICK p \in Affix("||"), q \in Affix("^"), c \in Affix("."), e \in Affix("^") :
        u = p \o (q \o ((x \o c) \o e))
  BY DEF Around
<1>2. p \in Seq(Text) /\ q \in Seq(Text) /\ c \in Seq(Text) /\ e \in Seq(Text)
  BY AffixType, PunctuationIsText
<1>3. "||" \in Decorations /\ "^" \in Decorations /\ "." \in Decorations
  BY DEF Decorations
<1> DEFINE v == x \o c
           w == v \o e
           z == q \o w
<1>4. v \in Seq(Text) /\ Without(v, Decorations) = Without(x, Decorations)
  BY <1>2, <1>3, AffixWithout, PunctuationIsText, ConcatProperties
<1> HIDE DEF v
<1>5. w \in Seq(Text) /\ Without(w, Decorations) = Without(v, Decorations)
  BY <1>2, <1>3, <1>4, AffixWithout, PunctuationIsText, ConcatProperties
<1> HIDE DEF w
<1>6. z \in Seq(Text) /\ Without(z, Decorations) = Without(w, Decorations)
  BY <1>2, <1>3, <1>5, AffixWithout, PunctuationIsText, ConcatProperties
<1> HIDE DEF z
<1>7. Without(p \o z, Decorations) = Without(z, Decorations)
  BY <1>3, <1>6, AffixWithout, PunctuationIsText
<1>8. u = p \o z
  BY <1>1 DEF v, w, z
<1> QED
  BY <1>4, <1>5, <1>6, <1>7, <1>8

(* A text that begins with a mark between its decorations begins with an   *)
(* opening decoration and that mark.                                       *)
LEMMA AroundMark ==
    ASSUME NEW u, NEW x \in Seq(Text), NEW m \in Seq(Text), Around(u, x), IsPrefix(m, x)
    PROVE  \E o \in Opening : /\ o \in Seq({"||", "^"}) /\ Len(o \o m) <= Len(u)
                                      /\ \A i \in 1..Len(o \o m) : u[i] = (o \o m)[i]
<1>1. PICK p \in Affix("||"), q \in Affix("^"), c \in Affix("."), e \in Affix("^") :
        u = p \o (q \o ((x \o c) \o e))
  BY DEF Around
<1>2. p \in Seq(Text) /\ q \in Seq(Text) /\ c \in Seq(Text) /\ e \in Seq(Text)
  BY AffixType, PunctuationIsText
<1> DEFINE r == TrimPrefix(x, m)
           o == Join(p, q)
           k == Join(c, e)
           s == Join(r, k)
           om == Join(o, m)
<1>3. r \in Seq(Text) /\ x = Join(m, r)
  BY PrefixTrimmed DEF Join
<1> HIDE DEF r
<1>4. o \in Opening
  BY OpeningParts DEF Join
<1>5. o \in Seq(Text) /\ k \in Seq(Text)
  BY <1>2, JoinFacts
<1>6. u = Join(p, Join(q, Join(x, k)))
  <2>1. u = Join(p, Join(q, Join(Join(x, c), e)))
    BY <1>1, Zenon DEF Join
  <2>2. Join(Join(x, c), e) = Join(x, k)
    BY <1>2, JoinFacts
  <2> QED
    BY <2>1, <2>2, Zenon
<1> HIDE DEF k
<1>7. s \in Seq(Text) /\ Join(x, k) = Join(m, s)
  BY <1>3, <1>5, JoinFacts
<1> HIDE DEF s
<1> DEFINE ms == Join(m, s)
<1>8. ms \in Seq(Text) /\ om \in Seq(Text)
  BY <1>5, <1>7, JoinFacts
<1>9. u = Join(p, Join(q, ms))
  BY <1>6, <1>7, Zenon
<1>10. Join(om, s) = Join(o, ms)
  <2> HIDE DEF o
  <2> QED
    BY <1>5, <1>7, JoinFacts
<1> HIDE DEF ms
<1>14. Join(o, ms) = Join(p, Join(q, ms))
  BY <1>2, <1>8, JoinFacts
<1>15. u = om \o s /\ om = o \o m
  BY <1>9, <1>10, <1>14, Zenon DEF Join
<1> HIDE DEF o, om
<1>11. Len(om) <= Len(u) /\ \A i \in 1..Len(om) : u[i] = om[i]
  <2>1. /\ Len(om \o s) = Len(om) + Len(s)
        /\ \A i \in 1..(Len(om) + Len(s)) : (om \o s)[i] = IF i <= Len(om) THEN om[i] ELSE s[i - Len(om)]
    BY <1>7, <1>8, ConcatProperties
  <2>2. Len(om) \in Nat /\ Len(s) \in Nat
    BY <1>7, <1>8
  <2> QED
    BY <1>15, <2>1, <2>2
<1>12. o \in Seq({"||", "^"})
  <2> DEFINE S == {"||", "^"}
  <2>1. << >> \in Seq(S) /\ <<"||">> \in Seq(S) /\ <<"^">> \in Seq(S) /\ <<"||", "^">> \in Seq(S)
    OBVIOUS
  <2> HIDE DEF S
  <2>2. o \in Seq(S)
    BY <1>4, <2>1, Zenon DEF Opening
  <2> QED
    BY <2>2 DEF S
<1> QED
  BY <1>4, <1>11, <1>12, <1>15
(* Labels with dots between them. *)
LEMMA DottedFacts ==
    ASSUME NEW T, "." \in T, NEW x \in Seq(T), x # << >>, NEW d, d = Dotted(x)
    PROVE  /\ d \in Seq(T) /\ Len(d) = 2 * Len(x) - 1 /\ d # << >>
           /\ \A i \in 1..Len(x) : d[2 * i - 1] = x[i]
           /\ \A i \in 1..(Len(x) - 1) : d[2 * i] = "."
           /\ \A i \in 1..Len(d) : d[i] = "." \/ \E j \in 1..Len(x) : d[i] = x[j]
<1> DEFINE n == Len(x)
           m == 2 * n - 1
<1>1. n \in Nat /\ n # 0 /\ \A i \in 1..n : x[i] \in T
  BY EmptySeq
<1>2. d = [i \in 1..m |-> IF i % 2 = 1 THEN x[(i + 1) \div 2] ELSE "."]
  BY DEF Dotted
<1> HIDE DEF n
<1>3. m \in Nat /\ m # 0
  BY <1>1
<1> HIDE DEF m
<1>4. ASSUME NEW i \in 1..m, i % 2 = 1 PROVE (i + 1) \div 2 \in 1..n
  BY <1>1, <1>4 DEF m
<1>5. ASSUME NEW i \in 1..m
      PROVE  d[i] \in T /\ (d[i] = "." \/ \E j \in 1..n : d[i] = x[j])
  <2>1. d[i] = IF i % 2 = 1 THEN x[(i + 1) \div 2] ELSE "."
    BY <1>2
  <2>2. CASE i % 2 = 1
    BY <1>1, <1>4, <2>1, <2>2
  <2>3. CASE i % 2 # 1
    BY <2>1, <2>3
  <2> QED
    BY <2>2, <2>3
<1>6. d \in Seq(T) /\ Len(d) = m
  BY <1>2, <1>3, <1>5
<1>7. ASSUME NEW i \in 1..n PROVE d[2 * i - 1] = x[i]
  <2>1. 2 * i - 1 \in 1..m /\ (2 * i - 1) % 2 = 1 /\ ((2 * i - 1) + 1) \div 2 = i
    BY <1>1 DEF m
  <2> QED
    BY <1>2, <2>1
<1>8. ASSUME NEW i \in 1..(n - 1) PROVE d[2 * i] = "."
  <2>1. 2 * i \in 1..m /\ (2 * i) % 2 # 1
    BY <1>1 DEF m
  <2> QED
    BY <1>2, <2>1
<1>9. d # << >>
  BY <1>3, <1>6
<1> QED
  BY <1>5, <1>6, <1>7, <1>8, <1>9 DEF m, n

LEMMA DottedWithout ==
    ASSUME NEW T, "." \in T, NEW x \in Seq(T), x # << >>, NEW A, "." \in A,
           \A i \in 1..Len(x) : x[i] \notin A
    PROVE  Without(Dotted(x), A) = x
<1> DEFINE n == Len(x)
           d == Dotted(x)
           k == Kept(d, A)
<1>1. n \in Nat /\ n # 0 /\ (\A i \in 1..n : x[i] \notin A) /\ SubSeq(x, 1, n) = x /\ SubSeq(x, 1, 0) = << >>
  BY EmptySeq, SubSeqFull, SubSeqEmpty
<1>2. /\ d \in Seq(T) /\ Len(d) = 2 * n - 1
      /\ \A i \in 1..n : d[2 * i - 1] = x[i]
      /\ \A i \in 1..(n - 1) : d[2 * i] = "."
  BY DottedFacts
<1> HIDE DEF d
<1>3. /\ k[0] = << >>
      /\ \A i \in 1..(2 * n - 1) : k[i] = IF d[i] \in A THEN k[i - 1] ELSE Append(k[i - 1], d[i])
  BY <1>2, KeptDef
<1>4. \A i \in 0..(n - 1) : SubSeq(x, 1, i + 1) = Append(SubSeq(x, 1, i), x[i + 1])
  BY LongerStart
<1> HIDE DEF n, k
<1> DEFINE Good == {i \in 0..(n - 1) : k[2 * i + 1] = SubSeq(x, 1, i + 1)}
<1>5. 0 \in Good
  <2>1. /\ 0 \in 0..(n - 1) /\ 1 \in 1..n /\ 1 \in 1..(2 * n - 1) /\ 1 - 1 = 0
        /\ 2 * 1 - 1 = 1 /\ 2 * 0 + 1 = 1 /\ 0 + 1 = 1
    BY <1>1
  <2>2. d[1] = x[1] /\ x[1] \notin A
    BY <1>1, <1>2, <2>1
  <2>3. k[1] = Append(<< >>, x[1])
    BY <1>3, <2>1, <2>2
  <2>4. SubSeq(x, 1, 1) = Append(<< >>, x[1])
    BY <1>1, <1>4, <2>1
  <2> QED
    BY <2>1, <2>3, <2>4
<1>6. ASSUME NEW i \in 0..((n - 1) - 1), i \in Good PROVE i + 1 \in Good
  <2>1. /\ i + 1 \in 0..(n - 1) /\ i + 1 \in 1..(n - 1) /\ i + 2 \in 1..n /\ (i + 1) + 1 = i + 2
        /\ 2 * (i + 1) \in 1..(2 * n - 1) /\ 2 * (i + 1) - 1 = 2 * i + 1
        /\ 2 * i + 3 \in 1..(2 * n - 1) /\ (2 * i + 3) - 1 = 2 * (i + 1)
        /\ 2 * (i + 2) - 1 = 2 * i + 3 /\ 2 * (i + 1) + 1 = 2 * i + 3
    BY <1>1, <1>6
  <2>2. k[2 * i + 1] = SubSeq(x, 1, i + 1)
    BY <1>6
  <2>3. d[2 * (i + 1)] = "."
    BY <1>2, <2>1
  <2>4. d[2 * i + 3] = x[i + 2] /\ x[i + 2] \notin A
    BY <1>1, <1>2, <2>1
  <2>5. k[2 * (i + 1)] = k[2 * i + 1]
    BY <1>3, <2>1, <2>3
  <2>6. k[2 * i + 3] = Append(k[2 * (i + 1)], x[i + 2])
    BY <1>3, <2>1, <2>4
  <2>7. SubSeq(x, 1, i + 2) = Append(SubSeq(x, 1, i + 1), x[i + 2])
    BY <1>4, <2>1
  <2>8. k[2 * (i + 1) + 1] = SubSeq(x, 1, (i + 1) + 1)
    BY <2>1, <2>2, <2>5, <2>6, <2>7
  <2> QED
    BY <2>1, <2>8
<1> HIDE DEF Good
<1>7. \A i \in 0..(n - 1) : i \in Good
  <2>1. n - 1 \in Nat
    BY <1>1
  <2> QED
    BY <1>5, <1>6, <2>1, Induction
<1>8. k[2 * n - 1] = x
  <2>1. n - 1 \in 0..(n - 1) /\ 2 * (n - 1) + 1 = 2 * n - 1 /\ (n - 1) + 1 = n
    BY <1>1
  <2>2. k[2 * (n - 1) + 1] = SubSeq(x, 1, (n - 1) + 1)
    BY <1>7, <2>1 DEF Good
  <2> QED
    BY <1>1, <2>1, <2>2
<1>9. Without(d, A) = k[2 * n - 1]
  BY <1>2 DEF Without, k
<1> QED
  BY <1>8, <1>9 DEF d
(* A text without decorations but dots, and the path it has in the tree. *)
Undecorated(s) == \A i \in 1..Len(s) : s[i] \notin {"||", "^", "*"}

LEMMA PlainPath ==
    ASSUME NEW k \in Seq(Lower), Undecorated(k)
    PROVE  PathOf(Labels(k)) = Reverse(Without(k, Decorations))
<1> DEFINE w == Without(k, {"."})
<1>1. PathOf(Labels(k)) = Reverse(Without(w, {""}))
  BY DEF Labels, PathOf
<1>2. Without(w, {""}) = Without(k, {"."} \cup {""})
  <2> DEFINE A == {"."}
             B == {""}
  <2>1. Without(Without(k, A), B) = Without(k, A \cup B)
    <3> HIDE DEF A, B
    <3> QED
      BY WithoutTwice
  <2> QED
    BY <2>1
<1>3. Without(k, {"."} \cup {""}) = Without(k, Decorations)
  <2>1. ASSUME NEW i \in 1..Len(k) PROVE k[i] \in {"."} \cup {""} <=> k[i] \in Decorations
    <3>1. k[i] \in Lower
      BY ElementOfSeq
    <3>2. k[i] # ""
      BY <3>1 DEF Lower, Pieces
    <3>3. k[i] \notin {"||", "^", "*"}
      BY DEF Undecorated
    <3> QED
      BY <3>2, <3>3 DEF Decorations
  <2> QED
    BY <2>1, WithoutSame
<1> QED
  BY <1>1, <1>2, <1>3, Zenon

LEMMA PrefixEither ==
    ASSUME NEW s \in Seq(Text), NEW p \in Seq(Text), NEW w, w = TrimPrefix(s, p)
    PROVE  w \in Seq(Text) /\ (s = p \o w \/ s = w)
<1>1. CASE IsPrefix(p, s)
  BY <1>1, PrefixTrimmed
<1>2. CASE ~IsPrefix(p, s)
  BY <1>2 DEF TrimPrefix
<1> QED
  BY <1>1, <1>2

LEMMA PrefixOff ==
    ASSUME NEW T, NEW s \in Seq(T), NEW p \in Seq(T), IsPrefix(p, s), NEW w, w = TrimPrefix(s, p)
    PROVE  w \in Seq(T) /\ s = p \o w /\ Len(w) = Len(s) - Len(p)
<1>1. /\ IsPrefix(p, s) => s = p \o w /\ Len(w) = Len(s) - Len(p)
      /\ w \in Seq(T)
  BY PrefixTrimmed
<1> QED
  BY <1>1

(* What the parser accepts: a wildcard mark or none, and no decoration     *)
(* behind it but dots.                                                     *)
LEMMA ValidShape ==
    ASSUME NEW d \in Seq(Lower), isValidDomain(d)
    PROVE  \/ Undecorated(d)
           \/ \E e \in Seq(Text) : d = <<"*", ".">> \o e /\ e # << >> /\ Undecorated(e)
<1> DEFINE star == <<"*", ".">>
           dot == <<".">>
           e == TrimPrefix(d, star)
           clean == TrimPrefix(e, dot)
<1>0. star \in Seq(Text) /\ dot \in Seq(Text) /\ d \in Seq(Text)
  BY PunctuationIsText, LowerIsText
<1>1. clean # << >> /\ \A i \in 1..Len(clean) : clean[i] \notin {"||", "^", "*"}
  <2>1. /\ clean # << >>
        /\ ToSet(clean) \cap (Bad \cup {"||", "^", "*"}) = {}
    BY DEF isValidDomain
  <2>2. DOMAIN clean = 1..Len(clean)
    <3>1. e \in Seq(Text)
      BY <1>0, TrimType
    <3> HIDE DEF e
    <3>2. clean \in Seq(Text)
      BY <1>0, <3>1, TrimType
    <3> HIDE DEF clean
    <3> QED
      BY <3>2
  <2> HIDE DEF clean
  <2> QED
    BY <2>1, <2>2 DEF ToSet
<1>2. e \in Seq(Text) /\ (d = star \o e \/ d = e)
  <2>1. e = TrimPrefix(d, star)
    OBVIOUS
  <2> HIDE DEF star, e
  <2>2. star \in Seq(Text) /\ d \in Seq(Text)
    BY <1>0
  <2> QED
    BY <2>1, <2>2, PrefixEither, Zenon
<1> HIDE DEF star, e
<1>3. clean \in Seq(Text) /\ (e = dot \o clean \/ e = clean)
  <2>1. clean = TrimPrefix(e, dot)
    OBVIOUS
  <2> HIDE DEF dot, clean
  <2>2. dot \in Seq(Text) /\ e \in Seq(Text)
    BY <1>0, <1>2
  <2> QED
    BY <2>1, <2>2, PrefixEither, Zenon
<1> HIDE DEF clean
<1>4. Undecorated(e) /\ e # << >>
  <2>1. CASE e = clean
    BY <1>1, <2>1 DEF Undecorated
  <2>2. CASE e = dot \o clean
    <3>1. Len(dot) = 1 /\ dot[1] = "."
      OBVIOUS
    <3> HIDE DEF dot
    <3>2. /\ Len(dot \o clean) = Len(dot) + Len(clean)
          /\ \A i \in 1..(Len(dot) + Len(clean)) :
                (dot \o clean)[i] = IF i <= Len(dot) THEN dot[i] ELSE clean[i - Len(dot)]
      BY <1>0, <1>3, ConcatProperties
    <3>3. Len(clean) \in Nat
      BY <1>3
    <3>4. ASSUME NEW i \in 1..Len(e) PROVE e[i] \notin {"||", "^", "*"}
      <4>1. e[i] = IF i <= 1 THEN dot[i] ELSE clean[i - 1]
        BY <2>2, <3>1, <3>2
      <4>2. CASE i <= 1
        <5>1. i = 1
          BY <4>2
        <5> QED
          BY <3>1, <4>1, <5>1
      <4>3. CASE ~(i <= 1)
        <5>1. i - 1 \in 1..Len(clean)
          BY <2>2, <3>1, <3>2, <3>3, <4>3
        <5> QED
          BY <1>1, <4>1, <4>3, <5>1
      <4> QED
        BY <4>2, <4>3
    <3>5. Len(e) # 0
      BY <2>2, <3>1, <3>2, <3>3
    <3>6. e # << >>
      BY <3>5
    <3> QED
      BY <3>4, <3>6 DEF Undecorated
  <2> QED
    BY <1>3, <2>1, <2>2
<1> QED
  BY <1>2, <1>4 DEF star

(* What is left of a text behind a star and a dot. *)
LEMMA StarOff ==
    ASSUME NEW n \in Seq(Text), IsPrefix(<<"*", ".">>, n), NEW k, k = TrimPrefix(n, <<"*", ".">>)
    PROVE  /\ k \in Seq(Text) /\ Len(k) = Len(n) - 2 /\ \A j \in 1..Len(k) : k[j] = n[j + 2]
           /\ Without(k, Decorations) = Without(n, Decorations)
<1> DEFINE star == <<"*", ".">>
<1>1. /\ star \in Seq(Text) /\ Len(star) = 2 /\ "*" \in Text /\ "." \in Text
      /\ IsPrefix(star, n) /\ k = TrimPrefix(n, star)
  BY PunctuationIsText
<1>2. <<"*">> \in Affix("*") /\ <<".">> \in Affix(".") /\ <<"*">> \o <<".">> = star
      /\ <<"*">> \in Seq(Text) /\ <<".">> \in Seq(Text)
  BY TwoPieces, PunctuationIsText DEF Affix
<1> HIDE DEF star
<1>3. k \in Seq(Text) /\ n = star \o k /\ Len(k) = Len(n) - Len(star)
  BY <1>1, PrefixOff
<1>4. \A j \in 1..Len(k) : k[j] = n[j + 2]
  <2>1. /\ Len(k) \in Nat
        /\ \A i \in 1..(Len(star) + Len(k)) : (star \o k)[i] = IF i <= Len(star) THEN star[i] ELSE k[i - Len(star)]
    BY <1>1, <1>3, ConcatProperties
  <2>2. ASSUME NEW j \in 1..Len(k) PROVE k[j] = n[j + 2]
    <3>1. j + 2 \in 1..(2 + Len(k)) /\ ~(j + 2 <= 2) /\ (j + 2) - 2 = j
      BY <2>1
    <3> QED
      BY <1>1, <1>3, <2>1, <3>1
  <2> QED
    BY <2>2
<1>5. Without(n, Decorations) = Without(k, Decorations)
  <2> DEFINE a == <<"*">>
             b == <<".">>
             bk == b \o k
  <2>1. /\ a \in Affix("*") /\ b \in Affix(".") /\ a \o b = star /\ a \in Seq(Text) /\ b \in Seq(Text)
        /\ "*" \in Decorations /\ "." \in Decorations
    BY <1>2 DEF Decorations
  <2> HIDE DEF a, b
  <2>2. Without(bk, Decorations) = Without(k, Decorations) /\ bk \in Seq(Text)
    BY <1>1, <1>3, <2>1, AffixWithout, ConcatProperties
  <2>3. n = a \o bk
    <3>1. Join(Join(a, b), k) = Join(a, Join(b, k))
      BY <1>3, <2>1, JoinFacts
    <3> QED
      BY <1>3, <2>1, <3>1, Zenon DEF Join
  <2> HIDE DEF bk
  <2>4. Without(a \o bk, Decorations) = Without(bk, Decorations)
    BY <1>1, <2>1, <2>2, AffixWithout
  <2> QED
    BY <2>2, <2>3, <2>4, Zenon
<1> QED
  BY <1>3, <1>4, <1>5, <1>1

(* The path of a rule: the words of the text it was read from, however     *)
(* malformed, right to left.                                               *)
LEMMA RuleWords ==
    ASSUME NEW d \in Seq(Lower), isValidDomain(d)
    PROVE  /\ PathOf(Rule(d).labels) = Reverse(Without(d, Decorations))
           /\ Rule(d) \in RuleTexts
<1> DEFINE n == normalizeDomain(d)
           star == <<"*", ".">>
           k == TrimPrefix(n, star)
<1>0. star \in Seq(Text) /\ Len(star) = 2 /\ star[1] = "*" /\ star[2] = "." /\ d \in Seq(Text)
      /\ "*" \in Text /\ "." \in Text
  BY PunctuationIsText, LowerIsText
<1>1. ToLower(d) = d
  BY LowerStays
<1>2. n \in Seq(Lower) /\ Len(n) <= Len(d)
  BY <1>1, NormalizedType
<1>3. Around(d, n) /\ n \in Seq(Text)
  BY <1>0, <1>1, NormalizedAround
<1>4. Without(d, Decorations) = Without(n, Decorations)
  BY <1>3, AroundWords
<1>5. /\ Rule(d).labels = Labels(k)
      /\ Rule(d).mark \in {"", ".", "*."}
      /\ Rule(d) = [mark |-> Rule(d).mark, labels |-> Rule(d).labels]
  BY DEF Rule
<1> HIDE DEF n
<1>6. k \in Seq(Lower)
  BY <1>0, <1>2, TrimType
<1>7. Undecorated(k) /\ Without(k, Decorations) = Without(n, Decorations)
  <2>1. CASE Undecorated(d)
    <3> DEFINE P == Lower \ {"||", "^", "*"}
    <3>1. d \in Seq(P)
      <4>1. \A i \in 1..Len(d) : d[i] \in P
        BY <2>1 DEF Undecorated
      <4> HIDE DEF P
      <4> QED
        BY <4>1
    <3>2. n \in Seq(P)
      <4> HIDE DEF P
      <4> QED
        BY <1>1, <3>1, NormalizedType DEF n
    <3>3. \A i \in 1..Len(n) : n[i] \in P
      <4> HIDE DEF P
      <4> QED
        BY <3>2
    <3>4. k = n
      <4>1. n[1] # "*" \/ ~(2 <= Len(n))
        BY <3>3
      <4>2. ~IsPrefix(star, n)
        BY <1>0, <1>3, <4>1, StartsWithTwo
      <4> HIDE DEF star
      <4> QED
        BY <4>2 DEF TrimPrefix, k
    <3> QED
      BY <3>3, <3>4 DEF Undecorated
  <2>2. ASSUME NEW e \in Seq(Text), d = star \o e, e # << >>, Undecorated(e)
        PROVE  Undecorated(k) /\ Without(k, Decorations) = Without(n, Decorations)
    <3>1. /\ Len(d) = 2 + Len(e) /\ Len(e) \in Nat \ {0} /\ Len(n) \in Nat
          /\ \A i \in 1..(2 + Len(e)) : d[i] = IF i <= 2 THEN star[i] ELSE e[i - 2]
      <4>1. /\ Len(star \o e) = Len(star) + Len(e)
            /\ \A i \in 1..(Len(star) + Len(e)) : (star \o e)[i] = IF i <= Len(star) THEN star[i] ELSE e[i - Len(star)]
        <5> HIDE DEF star
        <5> QED
          BY <1>0, ConcatProperties
      <4>2. Len(e) \in Nat \ {0} /\ Len(n) \in Nat
        BY <1>3, <2>2, EmptySeq
      <4> HIDE DEF star
      <4> QED
        BY <1>0, <2>2, <4>1, <4>2
    <3>2. d # << >> /\ d[1] = "*" /\ d[2] = "." /\ d[Len(d)] # "^"
      <4>1. d[1] = "*" /\ d[2] = "." /\ d # << >>
        BY <1>0, <3>1
      <4>2. d[Len(d)] = e[Len(e)]
        BY <3>1
      <4>3. e[Len(e)] # "^"
        BY <2>2, <3>1 DEF Undecorated
      <4> QED
        BY <4>1, <4>2, <4>3
    <3>3. Len(n) >= Len(d) - 1 /\ \A i \in 1..Len(n) : n[i] = d[i]
      <4>1. TrimPrefix(d, <<"||">>) = d /\ TrimPrefix(d, <<"^">>) = d
        BY <1>0, <3>2, StartsWithOne, PunctuationIsText DEF TrimPrefix
      <4>2. TrimSuffix(d, <<"^">>) = d
        BY <1>0, <3>2, SuffixKept, PunctuationIsText
      <4>3. n = TrimSuffix(d, <<".">>)
        BY <1>1, <4>1, <4>2 DEF normalizeDomain, n
      <4>4. CASE d[Len(d)] = "."
        <5>1. d = Append(n, ".") /\ Len(n) = Len(d) - 1
          BY <1>0, <3>2, <4>3, <4>4, SuffixTrimmed
        <5>2. \A i \in 1..Len(n) : Append(n, ".")[i] = n[i]
          BY <1>0, <1>3, AppendProperties
        <5> QED
          BY <3>1, <5>1, <5>2
      <4>5. CASE d[Len(d)] # "."
        <5>1. n = d
          BY <1>0, <4>3, <4>5, SuffixKept
        <5> QED
          BY <3>1, <5>1
      <4> QED
        BY <4>4, <4>5
    <3>4. IsPrefix(star, n)
      <4>1. 2 <= Len(n) /\ n[1] = "*" /\ n[2] = "."
        BY <3>1, <3>2, <3>3
      <4> QED
        BY <1>0, <1>3, <4>1, StartsWithTwo
    <3>5. /\ k \in Seq(Text) /\ Len(k) = Len(n) - 2 /\ \A j \in 1..Len(k) : k[j] = n[j + 2]
          /\ Without(k, Decorations) = Without(n, Decorations)
      <4>1. k = TrimPrefix(n, <<"*", ".">>) /\ IsPrefix(<<"*", ".">>, n)
        BY <3>4
      <4>2. n \in Seq(Text)
        BY <1>3
      <4> HIDE DEF k
      <4> QED
        BY <4>1, <4>2, StarOff
    <3>6. Undecorated(k)
      <4> HIDE DEF k, star
      <4>1. Len(k) \in Nat
        BY <3>5
      <4>2. ASSUME NEW j \in 1..Len(k) PROVE k[j] \notin {"||", "^", "*"}
        <5>1. /\ ~(j + 2 <= 2) /\ (j + 2) - 2 = j
              /\ j + 2 \in 1..Len(n) /\ j + 2 \in 1..(2 + Len(e)) /\ j \in 1..Len(e)
          BY <1>2, <3>1, <3>5, <4>1
        <5>2. n[j + 2] = k[j]
          BY <3>5
        <5>3. d[j + 2] = e[j]
          BY <3>1, <5>1
        <5>4. k[j] = e[j]
          BY <3>3, <5>1, <5>2, <5>3
        <5> QED
          BY <2>2, <5>1, <5>4 DEF Undecorated
      <4> QED
        BY <4>2 DEF Undecorated
    <3> QED
      BY <3>5, <3>6
  <2> QED
    BY <2>1, <2>2, ValidShape
<1>8. Labels(k) \in Seq(STRING)
  <2>1. Labels(k) \in Seq(Lower)
    BY <1>6, WithoutType DEF Labels
  <2>2. Lower \subseteq STRING
    BY DEF Lower, Pieces
  <2> HIDE DEF k
  <2> QED
    BY <2>1, <2>2, SeqMonotonic
<1>9. PathOf(Labels(k)) = Reverse(Without(k, Decorations))
  BY <1>6, <1>7, PlainPath
<1>10. Rule(d) \in RuleTexts
  BY <1>5, <1>8 DEF RuleTexts
<1> QED
  BY <1>4, <1>5, <1>7, <1>9, <1>10
-----------------------------------------------------------------------------
(* The names asked for.  In lower case they have no decoration but dots.   *)
LEMMA NameIsText ==
    ASSUME NEW q \in Queries, NEW u, u = ToLower(q)
    PROVE  /\ q \in Seq(Pieces) /\ u \in Seq(Lower) /\ Len(u) = Len(q)
           /\ Undecorated(u) /\ NameOf(q) = Without(u, Decorations)
<1>1. IsName(q)
  BY ListLoadAssumption DEF WellFormed
<1>2. q \in Seq(Pieces)
  BY <1>1 DEF IsName
<1>3. /\ u \in Seq(Lower) /\ Len(u) = Len(q)
      /\ \A i \in 1..Len(q), x \in Punctuation : u[i] = x <=> q[i] = x
  BY <1>2, ToLowerFacts
<1>4. ASSUME NEW i \in 1..Len(q) PROVE q[i] \notin {"||", "^", "*"}
  <2>1. CASE q = <<".">>
    <3>1. i = 1 /\ q[1] = "."
      BY <2>1
    <3> QED
      BY <3>1
  <2>2. CASE q # <<".">>
    <3>1. \A k \in DOMAIN q : IF k % 2 = 0 THEN q[k] = "." ELSE q[k] \notin Punctuation
      BY <1>1, <2>2 DEF IsName
    <3>2. i \in DOMAIN q
      BY <1>2
    <3>3. q[i] = "." \/ q[i] \notin Punctuation
      BY <3>1, <3>2
    <3> QED
      BY <3>3 DEF Punctuation
  <2> QED
    BY <2>1, <2>2
<1>5. Undecorated(u)
  <2>1. "||" \in Punctuation /\ "^" \in Punctuation /\ "*" \in Punctuation
    BY DEF Punctuation
  <2>2. ASSUME NEW i \in 1..Len(u) PROVE u[i] \notin {"||", "^", "*"}
    BY <1>3, <1>4, <2>1
  <2> QED
    BY <2>2 DEF Undecorated
<1>6. Without(u, {"."}) = Without(u, Decorations)
  <2> DEFINE A == {"."}
  <2>1. \A i \in 1..Len(u) : u[i] \in A <=> u[i] \in Decorations
    BY <1>5 DEF Undecorated, Decorations
  <2> HIDE DEF A
  <2>2. Without(u, A) = Without(u, Decorations)
    BY <1>3, <2>1, WithoutSame
  <2> QED
    BY <2>2 DEF A
<1>7. NameOf(q) = Without(u, {"."})
  BY DEF NameOf, Labels
<1> QED
  BY <1>2, <1>3, <1>5, <1>6, <1>7

LEMMA OddOrEven ==
    ASSUME NEW n \in Nat, NEW i \in 1..(2 * n)
    PROVE  \E j \in 1..n : i = 2 * j - 1 \/ i = 2 * j
<1> DEFINE j == (i + 1) \div 2
<1>1. j \in Int /\ i + 1 = 2 * j + ((i + 1) % 2) /\ (i + 1) % 2 \in 0..1
  BY DivMod, ModRange
<1> HIDE DEF j
<1>2. j \in 1..n /\ (i = 2 * j - 1 \/ i = 2 * j)
  BY <1>1
<1> QED
  BY <1>2

(* A name that has labels is these labels with dots between them, and a    *)
(* dot behind.                                                             *)
LEMMA NameShape ==
    ASSUME NEW q \in Queries, NEW x, x = NameOf(q), x # << >>
    PROVE  /\ x \in Seq(Lower) /\ \A i \in 1..Len(x) : x[i] \notin Punctuation
           /\ ToLower(q) = Append(Dotted(x), ".")
<1> DEFINE u == ToLower(q)
           n == Len(q) \div 2
           w == [i \in 1..n |-> u[2 * i - 1]]
<1>1. q \in Seq(Pieces) /\ u \in Seq(Lower) /\ Len(u) = Len(q)
  BY NameIsText
<1>2. \A i \in 1..Len(q), y \in Punctuation : u[i] = y <=> q[i] = y
  BY <1>1, ToLowerFacts
<1>3. x = Without(u, {"."})
  BY DEF NameOf, Labels
<1> HIDE DEF u
<1>4. "." \in Punctuation /\ "." \in Text
  BY PunctuationIsText DEF Punctuation
<1>5. u # << >>
  <2> DEFINE A == {"."}
  <2>1. x = Without(u, A)
    BY <1>3
  <2> HIDE DEF A
  <2> QED
    BY <2>1, WithoutEmpty
<1>6. q # <<".">>
  <2> SUFFICES ASSUME q = <<".">> PROVE FALSE
    OBVIOUS
  <2>1. Len(u) = 1 /\ u[1] = "."
    BY <1>1, <1>2, <1>4
  <2>2. u = Append(<< >>, ".")
    BY <1>1, <2>1
  <2> DEFINE A == {"."}
             e == << >>
  <2>3. Without(Append(e, "."), A) = Without(e, A)
    <3>1. e \in Seq(Text) /\ "." \in Text /\ "." \in A
      BY <1>4
    <3> HIDE DEF e, A
    <3> QED
      BY <3>1, WithoutAppend
  <2>4. Without(e, A) = << >>
    <3> HIDE DEF A
    <3> QED
      BY WithoutEmpty
  <2>5. x = Without(Append(e, "."), A)
    BY <1>3, <2>2
  <2> QED
    BY <2>3, <2>4, <2>5
<1>7. /\ Len(q) % 2 = 0
      /\ \A i \in 1..Len(q) : IF i % 2 = 0 THEN q[i] = "." ELSE q[i] \notin Punctuation
  <2>1. IsName(q)
    BY ListLoadAssumption DEF WellFormed
  <2>2. DOMAIN q = 1..Len(q)
    BY <1>1
  <2> QED
    BY <1>6, <2>1, <2>2 DEF IsName
<1>8. n \in Nat \ {0} /\ Len(q) = 2 * n /\ Len(u) = 2 * n
  <2>1. n \in Int /\ Len(q) = 2 * n + (Len(q) % 2) /\ Len(q) \in Nat
    BY <1>1, DivMod
  <2>2. Len(u) # 0
    BY <1>1, <1>5, EmptySeq
  <2> HIDE DEF n
  <2> QED
    BY <1>1, <1>7, <2>1, <2>2
<1> HIDE DEF n
<1>9. ASSUME NEW j \in 1..n
      PROVE  u[2 * j] = "." /\ u[2 * j - 1] \notin Punctuation
  <2>1. 2 * j \in 1..Len(q) /\ 2 * j - 1 \in 1..Len(q)
    BY <1>8
  <2>2. (2 * j) % 2 = 0 /\ (2 * j - 1) % 2 = 1
    <3>1. 2 * j = 2 * j + 0 /\ 2 * j - 1 = 2 * (j - 1) + 1 /\ 2 * j \in Int /\ 2 * j - 1 \in Int
          /\ j \in Int /\ j - 1 \in Int /\ 2 \in Nat \ {0} /\ 0 \in 0..(2 - 1) /\ 1 \in 0..(2 - 1)
      BY <1>8
    <3>2. (2 * j) % 2 = 0
      BY <3>1, ModIs
    <3>3. (2 * j - 1) % 2 = 1
      BY <3>1, ModIs
    <3> QED
      BY <3>2, <3>3
  <2>3. q[2 * j] = "." /\ q[2 * j - 1] \notin Punctuation
    BY <1>7, <2>1, <2>2
  <2> QED
    BY <1>2, <1>4, <2>1, <2>3
<1>10. /\ w \in Seq(Lower) /\ Len(w) = n /\ w # << >>
       /\ \A i \in 1..n : w[i] = u[2 * i - 1]
  <2>1. ASSUME NEW i \in 1..n PROVE u[2 * i - 1] \in Lower
    <3>1. 2 * i - 1 \in 1..Len(u)
      BY <1>8
    <3> QED
      BY <1>1, <3>1, ElementOfSeq
  <2>2. w \in [1..n -> Lower]
    BY <2>1
  <2>3. w \in Seq(Lower) /\ Len(w) = n
    <3> HIDE DEF w
    <3> QED
      BY <1>8, <2>2
  <2> QED
    BY <1>8, <2>3, EmptySeq
<1> HIDE DEF w
<1> DEFINE d == Dotted(w)
<1>11. w \in Seq(Text) /\ \A i \in 1..n : w[i] \notin Punctuation
  BY <1>9, <1>10, LowerIsText
<1>12. /\ d \in Seq(Text) /\ Len(d) = 2 * n - 1
       /\ \A i \in 1..n : d[2 * i - 1] = w[i]
       /\ \A i \in 1..(n - 1) : d[2 * i] = "."
  BY <1>4, <1>10, <1>11, DottedFacts
<1> HIDE DEF d
<1>13. u = Append(d, ".")
  <2>1. /\ Append(d, ".") \in Seq(Text) /\ Len(Append(d, ".")) = 2 * n
        /\ \A i \in 1..(2 * n - 1) : Append(d, ".")[i] = d[i]
        /\ Append(d, ".")[2 * n] = "."
    <3>1. /\ Append(d, ".") \in Seq(Text) /\ Len(Append(d, ".")) = Len(d) + 1
          /\ \A i \in 1..Len(d) : Append(d, ".")[i] = d[i]
          /\ Append(d, ".")[Len(d) + 1] = "."
      BY <1>4, <1>12, AppendProperties
    <3> QED
      BY <1>8, <1>12, <3>1
  <2>2. ASSUME NEW i \in 1..(2 * n) PROVE u[i] = Append(d, ".")[i]
    <3>1. PICK j \in 1..n : i = 2 * j - 1 \/ i = 2 * j
      BY <1>8, OddOrEven
    <3>2. CASE i = 2 * j - 1
      <4>1. u[i] = w[j] /\ d[i] = w[j] /\ i \in 1..(2 * n - 1)
        BY <1>8, <1>10, <1>12, <3>2
      <4> QED
        BY <2>1, <4>1
    <3>3. CASE i = 2 * j
      <4>1. u[i] = "."
        BY <1>9, <3>3
      <4>2. CASE j = n
        BY <2>1, <3>3, <4>1, <4>2
      <4>3. CASE j # n
        <5>1. j \in 1..(n - 1) /\ i \in 1..(2 * n - 1)
          BY <1>8, <3>3, <4>3
        <5> QED
          BY <1>12, <2>1, <3>3, <4>1, <5>1
      <4> QED
        BY <4>2, <4>3
    <3> QED
      BY <3>1, <3>2, <3>3
  <2> DEFINE a == Append(d, ".")
  <2>3. a \in Seq(Text) /\ Len(a) = 2 * n /\ u \in Seq(Text) /\ \A i \in 1..(2 * n) : u[i] = a[i]
    BY <1>1, <2>1, <2>2, LowerIsText
  <2> HIDE DEF a
  <2>4. u = a
    BY <1>8, <2>3, SeqEqual
  <2> QED
    BY <2>4 DEF a
<1>14. x = w
  <2> DEFINE A == {"."}
  <2>1. x = Without(Append(d, "."), A) /\ "." \in A
    BY <1>3, <1>13
  <2>2. \A i \in 1..Len(w) : w[i] \notin A
    BY <1>4, <1>10, <1>11
  <2> HIDE DEF A
  <2>3. Without(Append(d, "."), A) = Without(d, A)
    BY <1>4, <1>12, <2>1, WithoutAppend
  <2>4. Without(d, A) = w
    BY <1>4, <1>10, <1>11, <2>1, <2>2, DottedWithout DEF d
  <2> QED
    BY <2>1, <2>3, <2>4
<1> QED
  BY <1>10, <1>11, <1>13, <1>14 DEF d, u
-----------------------------------------------------------------------------
(* Lines: what is left of them before the comment are tokens.              *)
Tokenised == Seq(Seq(Pieces))

LEMMA MinIs ==
    ASSUME NEW S, S \subseteq Nat, S # {}
    PROVE  Min(S) \in S
<1>1. \E m \in S : \A k \in S : m <= k
  BY LeastNumber
<1> QED
  BY <1>1 DEF Min

LEMMA StripType ==
    ASSUME NEW line \in Tokenised PROVE StripComment(line) \in Tokenised
<1> DEFINE commented == {i \in DOMAIN line : "#" \in ToSet(line[i])}
           first == Min(commented)
           marks == {i \in DOMAIN line[first] : line[first][i] = "#"}
           cut == Min(marks) - 1
           begin == SubSeq(line, 1, first - 1)
           rest == IF cut = 0 THEN << >> ELSE <<SubSeq(line[first], 1, cut)>>
           T == Seq(Pieces)
<1>1. StripComment(line) = IF commented = {} THEN line ELSE begin \o rest
  BY DEF StripComment
<1>2. line \in Seq(T) /\ DOMAIN line = 1..Len(line) /\ Len(line) \in Nat
  BY DEF Tokenised
<1>3. ASSUME commented # {} PROVE begin \o rest \in Seq(T)
  <2>1. first \in 1..Len(line) /\ "#" \in ToSet(line[first])
    <3>1. commented \subseteq Nat
      BY <1>2
    <3>2. first \in commented
      <4> HIDE DEF commented
      <4> QED
        BY <1>3, <3>1, MinIs
    <3> QED
      BY <1>2, <3>2
  <2> HIDE DEF commented, first
  <2>2. line[first] \in T
    BY <1>2, <2>1, ElementOfSeq
  <2>3. cut \in Int /\ cut + 1 \in 1..Len(line[first])
    <3>1. DOMAIN line[first] = 1..Len(line[first]) /\ Len(line[first]) \in Nat
      BY <2>2
    <3>2. marks # {} /\ marks \subseteq Nat
      BY <2>1, <3>1 DEF ToSet
    <3>3. Min(marks) \in marks
      <4> HIDE DEF marks
      <4> QED
        BY <3>2, MinIs
    <3> QED
      BY <3>1, <3>3
  <2> HIDE DEF cut, marks
  <2>4. begin \in Seq(T)
    <3>1. 1 \in Int /\ first - 1 \in Int /\ \A i \in 1..(first - 1) : line[i] \in T
      BY <1>2, <2>1, ElementOfSeq
    <3> HIDE DEF T, first
    <3> QED
      BY <1>2, <3>1, SubSeqProperties
  <2>5. rest \in Seq(T)
    <3> DEFINE s == line[first]
               c == SubSeq(s, 1, cut)
    <3>1. s \in Seq(Pieces) /\ 1 \in Int /\ cut \in Int /\ cut + 1 \in 1..Len(s)
      BY <2>2, <2>3
    <3> HIDE DEF s
    <3>2. \A i \in 1..cut : s[i] \in Pieces
      <4>1. \A i \in 1..cut : i \in 1..Len(s)
        BY <3>1
      <4> QED
        BY <3>1, <4>1, ElementOfSeq
    <3>3. c \in T
      BY <3>1, <3>2, SubSeqProperties
    <3> HIDE DEF c, T
    <3>4. << >> \in Seq(T) /\ <<c>> \in Seq(T)
      BY <3>3
    <3>5. rest = IF cut = 0 THEN << >> ELSE <<c>>
      BY DEF c, s
    <3> QED
      BY <3>4, <3>5
  <2> HIDE DEF begin, rest, T
  <2> QED
    BY <2>4, <2>5, ConcatProperties
<1> HIDE DEF commented, begin, rest
<1> QED
  BY <1>1, <1>2, <1>3 DEF Tokenised

(* The fields that may be domains: all tokens but an address in front.     *)
LEMMA CandidateFacts ==
    ASSUME NEW line \in Tokenised
    PROVE  /\ Candidates(line) \in Tokenised
           /\ \A t \in ToSet(Candidates(line)) :
                 t \in ToSet(StripComment(line)) /\ t \in Seq(Pieces)
           /\ \A t \in ToSet(StripComment(line)) :
                 t \notin HostsAddresses => t \in ToSet(Candidates(line))
<1> DEFINE T == Seq(Pieces)
           fields == StripComment(line)
           c == Candidates(line)
<1>1. fields \in Seq(T)
  BY StripType DEF Tokenised
<1>2. c = IF fields # << >> /\ Head(fields) \in HostsAddresses THEN Tail(fields) ELSE fields
  BY DEF Candidates
<1> HIDE DEF T, fields, c
<1>3. DOMAIN fields = 1..Len(fields) /\ Len(fields) \in Nat
  BY <1>1
<1>4. CASE c = fields
  <2>1. \A t \in ToSet(c) : t \in T
    BY <1>1, <1>3, <1>4, ElementOfSeq DEF ToSet
  <2> QED
    BY <1>1, <1>4, <2>1 DEF T, c, fields, Tokenised
<1>5. CASE fields # << >> /\ Head(fields) \in HostsAddresses /\ c = Tail(fields)
  <2>1. /\ c \in Seq(T) /\ Len(c) = Len(fields) - 1
        /\ \A i \in 1..Len(c) : c[i] = fields[i + 1]
    BY <1>1, <1>5, HeadTailProperties
  <2>2. Len(fields) # 0 /\ Head(fields) = fields[1]
    BY <1>1, <1>5, EmptySeq
  <2>3. DOMAIN c = 1..Len(c)
    BY <2>1
  <2>4. ASSUME NEW t \in ToSet(c) PROVE t \in ToSet(fields) /\ t \in T
    <3>1. PICK i \in 1..Len(c) : t = c[i]
      BY <2>3 DEF ToSet
    <3>2. i + 1 \in 1..Len(fields) /\ t = fields[i + 1]
      BY <1>3, <2>1, <2>2, <3>1
    <3> QED
      BY <1>1, <1>3, <3>2, ElementOfSeq DEF ToSet
  <2>5. ASSUME NEW t \in ToSet(fields), t \notin HostsAddresses PROVE t \in ToSet(c)
    <3>1. PICK i \in 1..Len(fields) : t = fields[i]
      BY <1>3 DEF ToSet
    <3>2. i # 1
      BY <1>5, <2>2, <2>5, <3>1
    <3>3. i - 1 \in 1..Len(c) /\ (i - 1) + 1 = i
      BY <1>3, <2>1, <2>2, <3>2
    <3>4. t = c[i - 1]
      BY <2>1, <3>1, <3>3
    <3> QED
      BY <2>3, <3>3, <3>4 DEF ToSet
  <2> QED
    BY <2>1, <2>4, <2>5 DEF T, c, fields, Tokenised
<1> QED
  BY <1>2, <1>4, <1>5

(* What the parser returns for a line.                                     *)
LEMMA ParsedFacts ==
    ASSUME NEW line \in Lines
    PROVE  /\ IsFiniteSet(Parsed(line))
           /\ \A d \in Parsed(line) : d \in Seq(Lower) /\ isValidDomain(d)
<1> DEFINE c == Candidates(line)
           n == Len(c)
           f == [i \in 1..n |-> normalizeDomain(c[i])]
           P == Parsed(line)
<1>1. line \in Tokenised
  BY ListLoadAssumption DEF WellFormed, Tokenised
<1>2. c \in Seq(Seq(Pieces))
  BY <1>1, CandidateFacts DEF Tokenised
<1> HIDE DEF c
<1>3. n \in Nat /\ DOMAIN c = 1..n
  BY <1>2
<1>4. \A d \in P : isValidDomain(d) /\ \E i \in 1..n : d = f[i]
  BY <1>3 DEF Parsed, ToSet, c
<1>5. ASSUME NEW i \in 1..n PROVE f[i] \in Seq(Lower)
  <2>1. c[i] \in Seq(Pieces)
    BY <1>2, ElementOfSeq
  <2> DEFINE t == c[i]
  <2>2. ToLower(t) \in Seq(Lower) /\ Len(ToLower(t)) = Len(t)
    BY <2>1, ToLowerFacts
  <2>3. normalizeDomain(t) \in Seq(Lower)
    BY <2>2, NormalizedType
  <2> QED
    BY <2>3
<1>6. IsFiniteSet(P)
  <2> DEFINE R == {f[i] : i \in 1..n}
  <2>1. P \subseteq R
    BY <1>4
  <2>2. f \in Surjection(1..n, R)
    BY DEF Surjection
  <2>3. IsFiniteSet(1..n)
    BY <1>3, FS_Interval
  <2> HIDE DEF R, f, P
  <2>4. IsFiniteSet(R)
    BY <2>2, <2>3, FS_Surjection
  <2> QED
    BY <2>1, <2>4, FS_Subset
<1> QED
  BY <1>4, <1>5, <1>6
-----------------------------------------------------------------------------
(* The inductive invariant: which domains of which lines are where.        *)
ParsedFrom(ls) == UNION {Parsed(l) : l \in ls}
PathOfRule(d) == PathOf(Rule(d).labels)

LoadInv ==
    /\ reading \subseteq Lines /\ loaded \subseteq Lines
    /\ IsFiniteSet(domains) /\ domains = ParsedFrom(reading)
    /\ blacklistExact = {d \in ParsedFrom(loaded) : ~IsMarked(d)}
    /\ TrieOK(blacklistTrie)
    /\ blacklistTrie.wildcard =
          {PathOfRule(d) : d \in {e \in ParsedFrom(loaded) : IsMarked(e)}} \ {<< >>}

LEMMA ParsedFromUnion ==
    ASSUME NEW A, NEW B
    PROVE  ParsedFrom(A \cup B) = ParsedFrom(A) \cup ParsedFrom(B)
  BY DEF ParsedFrom

LEMMA ParsedFromOne ==
    ASSUME NEW l PROVE ParsedFrom({l}) = Parsed(l)
  BY DEF ParsedFrom

(* What comes out of the parser is valid.                                  *)
LEMMA ParsedFromValid ==
    ASSUME NEW ls, ls \subseteq Lines, NEW d \in ParsedFrom(ls)
    PROVE  d \in Seq(Lower) /\ isValidDomain(d)
<1>1. PICK l \in ls : d \in Parsed(l)
  BY DEF ParsedFrom
<1> QED
  BY <1>1, ParsedFacts

(* The marked ones of a set of domains go into the tree, in any order.     *)
LEMMA InsertAllTexts ==
    ASSUME NEW t, TrieOK(t), NEW texts, IsFiniteSet(texts),
           \A d \in texts : d \in Seq(Lower) /\ isValidDomain(d),
           NEW s, s = InsertTexts(t, texts)
    PROVE  TrieOK(s) /\ s.wildcard = t.wildcard \cup ({PathOfRule(d) : d \in texts} \ {<< >>})
<1> DEFINE order == SetToSeq(texts)
           n == Len(order)
           rules == [i \in 1..n |-> Rule(order[i])]
<1>1. order \in Seq(texts) /\ {order[i] : i \in 1..n} = texts
  BY SetInOrder
<1>3. s = InsertRules(t, rules)
  <2>1. s = InsertRules(t, [i \in DOMAIN order |-> Rule(order[i])])
    BY DEF InsertTexts
  <2>2. DOMAIN order = 1..n
    BY <1>1
  <2> HIDE DEF order
  <2> QED
    BY <2>1, <2>2
<1> HIDE DEF order
<1>4. n \in Nat /\ \A i \in 1..n : order[i] \in texts
  BY <1>1, ElementOfSeq
<1>5. rules \in Seq(RuleTexts) /\ Len(rules) = n
  <2>1. ASSUME NEW i \in 1..n PROVE Rule(order[i]) \in RuleTexts
    BY <1>4, RuleWords
  <2>2. rules \in [1..n -> RuleTexts]
    BY <2>1
  <2> HIDE DEF rules, n
  <2> QED
    BY <1>4, <2>2
<1>6. \A i \in 1..n : rules[i] = Rule(order[i])
  OBVIOUS
<1> HIDE DEF rules
<1>7. TrieOK(s) /\ s.wildcard = t.wildcard \cup ({PathOf(rules[i].labels) : i \in 1..n} \ {<< >>})
  BY <1>3, <1>5, InsertMany
<1>8. {PathOf(rules[i].labels) : i \in 1..n} = {PathOfRule(d) : d \in texts}
  <2>1. \A i \in 1..n : PathOf(rules[i].labels) = PathOfRule(order[i])
    BY <1>6 DEF PathOfRule
  <2> HIDE DEF n
  <2> QED
    BY <1>1, <1>4, <2>1
<1> QED
  BY <1>7, <1>8

LEMMA LoadInit == ASSUME ListInit PROVE LoadInv
<1>1. /\ domains = {} /\ reading = {} /\ loaded = {} /\ blacklistExact = {} /\ blacklistTrie = EmptyTrie
  BY DEF ListInit
<1>2. ParsedFrom({}) = {}
  BY DEF ParsedFrom
<1>3. TrieOK(EmptyTrie) /\ EmptyTrie.wildcard = {}
  BY EmptyHolds DEF Holds, EmptyTrie
<1> QED
  BY <1>1, <1>2, <1>3, FS_EmptySet DEF LoadInv

LEMMA ScanLineStep ==
    ASSUME LoadInv, NEW l \in Lines, ScanLine(l) PROVE LoadInv'
<1>1. /\ domains' = domains \cup Parsed(l) /\ reading' = reading \cup {l}
      /\ UNCHANGED <<blacklistExact, blacklistTrie, loaded>>
  BY DEF ScanLine
<1>2. ParsedFrom(reading \cup {l}) = ParsedFrom(reading) \cup Parsed(l)
  <2>1. ParsedFrom(reading \cup {l}) = ParsedFrom(reading) \cup ParsedFrom({l})
    BY ParsedFromUnion
  <2> QED
    BY <2>1, ParsedFromOne
<1>3. IsFiniteSet(domains')
  <2>1. IsFiniteSet(domains) /\ IsFiniteSet(Parsed(l))
    BY ParsedFacts DEF LoadInv
  <2> QED
    BY <1>1, <2>1, FS_Union
<1>4. reading' \subseteq Lines /\ domains' = ParsedFrom(reading')
  BY <1>1, <1>2 DEF LoadInv
<1> QED
  BY <1>1, <1>3, <1>4 DEF LoadInv, ParsedFrom

LEMMA ReadFailsStep ==
    ASSUME LoadInv, ReadFails PROVE LoadInv'
<1>1. domains' = {} /\ reading' = {} /\ UNCHANGED <<blacklistExact, blacklistTrie, loaded>>
  BY DEF ReadFails
<1>2. ParsedFrom({}) = {}
  BY DEF ParsedFrom
<1> QED
  BY <1>1, <1>2, FS_EmptySet DEF LoadInv

LEMMA EndOfListStep ==
    ASSUME LoadInv, EndOfList PROVE LoadInv'
<1> DEFINE marked == {d \in domains : IsMarked(d)}
           M(ls) == {d \in ParsedFrom(ls) : IsMarked(d)}
           W(ls) == {PathOfRule(d) : d \in M(ls)}
<1>1. /\ domains' = {} /\ reading' = {} /\ loaded' = loaded \cup reading
      /\ blacklistExact' = blacklistExact \cup {d \in domains : ~IsMarked(d)}
      /\ blacklistTrie' = InsertTexts(blacklistTrie, marked)
  BY DEF EndOfList
<1>2. ParsedFrom({}) = {} /\ ParsedFrom(loaded \cup reading) = ParsedFrom(loaded) \cup domains
  BY ParsedFromUnion DEF ParsedFrom, LoadInv
<1>3. IsFiniteSet(marked) /\ \A d \in marked : d \in Seq(Lower) /\ isValidDomain(d)
  BY FS_Subset, ParsedFromValid DEF LoadInv
<1>4. M(loaded \cup reading) = M(loaded) \cup marked
  BY <1>2
<1>5. W(loaded \cup reading) = W(loaded) \cup {PathOfRule(d) : d \in marked}
  <2> HIDE DEF M, marked
  <2> QED
    BY <1>4
<1> HIDE DEF marked
<1>6. /\ TrieOK(blacklistTrie')
      /\ blacklistTrie'.wildcard = blacklistTrie.wildcard \cup ({PathOfRule(d) : d \in marked} \ {<< >>})
  BY <1>1, <1>3, InsertAllTexts DEF LoadInv
<1>7. blacklistTrie.wildcard = W(loaded) \ {<< >>}
  BY DEF LoadInv
<1> HIDE DEF W
<1>8. blacklistTrie'.wildcard = W(loaded') \ {<< >>}
  BY <1>1, <1>5, <1>6, <1>7
<1>9. blacklistExact' = {d \in ParsedFrom(loaded') : ~IsMarked(d)}
  BY <1>1, <1>2 DEF LoadInv
<1>10. W(loaded') = {PathOfRule(d) : d \in {e \in ParsedFrom(loaded') : IsMarked(e)}}
  BY DEF W
<1>11. domains' = ParsedFrom(reading') /\ IsFiniteSet(domains')
  BY <1>1, <1>2, FS_EmptySet
<1>12. reading' \subseteq Lines /\ loaded' \subseteq Lines
  BY <1>1 DEF LoadInv
<1> QED
  BY <1>6, <1>8, <1>9, <1>10, <1>11, <1>12 DEF LoadInv, ParsedFrom, PathOfRule

LEMMA LoadStep ==
    ASSUME LoadInv, [ListNext]_listVars PROVE LoadInv'
<1>1. CASE UNCHANGED listVars
  BY <1>1 DEF listVars, LoadInv, ParsedFrom, PathOfRule
<1>2. CASE ListNext
  BY <1>2, ScanLineStep, ReadFailsStep, EndOfListStep DEF ListNext
<1> QED
  BY <1>1, <1>2

(* The invariant of loading holds in every reachable state. *)
THEOREM LoadInvariance == ListSpec => []LoadInv
<1>1. ListInit => LoadInv
  BY LoadInit
<1>2. LoadInv /\ [ListNext]_listVars => LoadInv'
  BY LoadStep
<1> QED
  BY <1>1, <1>2, PTL DEF ListSpec

(* Whatever lists are read, whichever of them break off, the tree of the   *)
(* snapshot has its shape, and only valid domains got in.                  *)
THEOREM LoadedTreeOK == ListSpec => []TreeOK
<1>1. LoadInv => TreeOK
  <2> SUFFICES ASSUME LoadInv PROVE TreeOK
    OBVIOUS
  <2>1. \A d \in blacklistExact \cup domains : isValidDomain(d)
    BY ParsedFromValid DEF LoadInv
  <2>2. TrieOK(blacklistTrie)
    BY DEF LoadInv
  <2> QED
    BY <2>1, <2>2 DEF TreeOK, TrieOK, TrieType, Paths
<1> QED
  BY <1>1, LoadInvariance, PTL
-----------------------------------------------------------------------------
(* What the parser makes of a token.                                       *)
LEMMA TokenFacts ==
    ASSUME NEW t \in Seq(Pieces), NEW d, d = normalizeDomain(t)
    PROVE  /\ d \in Seq(Lower) /\ Len(d) <= Len(t) /\ Around(ToLower(t), d)
           /\ Words(t) = Without(d, Decorations)
<1> DEFINE u == ToLower(t)
<1>1. u \in Seq(Lower) /\ Len(u) = Len(t) /\ u \in Seq(Text)
  BY ToLowerFacts, LowerIsText
<1>2. d \in Seq(Lower) /\ Len(d) <= Len(t)
  BY <1>1, NormalizedType
<1>3. d \in Seq(Text) /\ Around(u, d)
  BY <1>1, NormalizedAround
<1>4. Without(u, Decorations) = Without(d, Decorations)
  <2> HIDE DEF u
  <2> QED
    BY <1>3, AroundWords
<1>5. Words(t) = Without(u, Decorations)
  BY DEF Words, Decorations
<1> QED
  BY <1>2, <1>3, <1>4, <1>5

LEMMA TokenOf ==
    ASSUME NEW ls, ls \subseteq Lines, NEW d \in ParsedFrom(ls)
    PROVE  \E t \in Tokens(ls) : t \in Seq(Pieces) /\ d = normalizeDomain(t)
<1>1. PICK l \in ls : d \in Parsed(l)
  BY DEF ParsedFrom
<1>2. l \in Tokenised
  BY <1>1, ListLoadAssumption DEF WellFormed, Tokenised
<1>3. PICK t \in ToSet(Candidates(l)) : d = normalizeDomain(t)
  BY <1>1 DEF Parsed
<1>4. t \in ToSet(StripComment(l)) /\ t \in Seq(Pieces)
  BY <1>2, CandidateFacts
<1>5. t \in Tokens(ls)
  BY <1>1, <1>4 DEF Tokens
<1> QED
  BY <1>3, <1>4, <1>5

PlainPieces == Lower \ {"||", "^", "*"}

LEMMA PlainSeq ==
    ASSUME NEW s \in Seq(Lower)
    PROVE  Undecorated(s) <=> s \in Seq(PlainPieces)
<1>1. ASSUME Undecorated(s) PROVE s \in Seq(PlainPieces)
  <2>1. \A i \in 1..Len(s) : s[i] \in PlainPieces
    BY <1>1, ElementOfSeq DEF Undecorated, PlainPieces
  <2> QED
    BY <2>1
<1>2. ASSUME s \in Seq(PlainPieces) PROVE Undecorated(s)
  <2>1. \A i \in 1..Len(s) : s[i] \in PlainPieces
    BY <1>2, ElementOfSeq
  <2> QED
    BY <2>1 DEF Undecorated, PlainPieces
<1> QED
  BY <1>1, <1>2

LEMMA PlainNormalized ==
    ASSUME NEW t, NEW d, d = normalizeDomain(t),
           ToLower(t) \in Seq(Lower), Len(ToLower(t)) = Len(t), Undecorated(ToLower(t))
    PROVE  /\ d \in Seq(Lower) /\ Undecorated(d)
           /\ Without(d, Decorations) = Without(ToLower(t), Decorations)
<1> DEFINE u == ToLower(t)
<1>1. u \in Seq(PlainPieces) /\ u \in Seq(Text)
  BY PlainSeq, LowerIsText
<1>2. d \in Seq(Lower) /\ d \in Seq(PlainPieces)
  BY <1>1, NormalizedType
<1>3. d \in Seq(Text) /\ Around(u, d)
  BY <1>1, NormalizedAround
<1>4. Without(u, Decorations) = Without(d, Decorations)
  <2> HIDE DEF u
  <2> QED
    BY <1>3, AroundWords
<1> QED
  BY <1>2, <1>4, PlainSeq

(* The lookup of a domain in the tree, which normalises it once more.      *)
LEMMA WalkOfDomain ==
    ASSUME LoadInv, NEW d \in Seq(Lower), Undecorated(d)
    PROVE  (HasRules(blacklistTrie)
               /\ Matches(blacklistTrie, Labels(normalizeDomain(d))))
           <=> \E p \in blacklistTrie.wildcard : IsPrefix(p, Reverse(Without(d, Decorations)))
<1> DEFINE n == normalizeDomain(d)
           labels == Labels(n)
           path == PathOf(labels)
           t == blacklistTrie
<1>1. ToLower(d) = d
  BY LowerStays
<1>2. n \in Seq(Lower) /\ Undecorated(n) /\ Without(n, Decorations) = Without(d, Decorations)
  BY <1>1, PlainNormalized
<1> HIDE DEF n
<1>3. path = Reverse(Without(d, Decorations))
  BY <1>2, PlainPath
<1>4. labels \in Seq(STRING)
  <2>1. labels \in Seq(Lower)
    BY <1>2, WithoutType DEF Labels
  <2>2. Lower \subseteq STRING
    BY DEF Lower, Pieces
  <2> HIDE DEF labels
  <2> QED
    BY <2>1, <2>2, SeqMonotonic
<1>5. path \in Paths
  <2> HIDE DEF labels
  <2> QED
    BY <1>4, PathType
<1>6. TrieOK(t)
  BY DEF LoadInv
<1>7. MatchesPath(t, path) <=> \E p \in t.wildcard : IsPrefix(p, path)
  <2> HIDE DEF path, t
  <2> QED
    BY <1>5, <1>6, WalkMatches
<1>8. Matches(t, labels) <=> MatchesPath(t, path)
  BY DEF Matches
<1>9. MatchesPath(t, path) => HasRules(t)
  <2>1. MatchesPath(t, path) => t.count # 0
    BY DEF MatchesPath
  <2>2. t.count \in Nat
    BY <1>6 DEF TrieOK, TrieType
  <2>3. t.count # 0 => HasRules(t)
    BY <2>2 DEF HasRules
  <2> QED
    BY <2>1, <2>3
<1> HIDE DEF path, t, labels
<1>10. HasRules(t) /\ Matches(t, labels) <=> \E p \in t.wildcard : IsPrefix(p, path)
  BY <1>7, <1>8, <1>9
<1> QED
  BY <1>3, <1>10 DEF t, labels, n

(* A verdict in terms of what was parsed.                                  *)
LEMMA BlocksIff ==
    ASSUME LoadInv, NEW q \in Queries, NEW d, d = normalizeDomain(q)
    PROVE  /\ Blocks(q) <=>
                 /\ d # << >>
                 /\ \/ d \in blacklistExact
                    \/ \E p \in blacklistTrie.wildcard : IsPrefix(p, Reverse(NameOf(q)))
           /\ Without(d, Decorations) = NameOf(q)
<1> DEFINE u == ToLower(q)
<1>1. /\ u \in Seq(Lower) /\ Len(u) = Len(q) /\ Undecorated(u)
      /\ NameOf(q) = Without(u, Decorations)
  BY NameIsText
<1>2. d \in Seq(Lower) /\ Undecorated(d) /\ Without(d, Decorations) = Without(u, Decorations)
  BY <1>1, PlainNormalized
<1>3. (HasRules(blacklistTrie)
          /\ Matches(blacklistTrie, Labels(normalizeDomain(d))))
      <=> \E p \in blacklistTrie.wildcard : IsPrefix(p, Reverse(NameOf(q)))
  BY <1>1, <1>2, WalkOfDomain
<1> QED
  BY <1>1, <1>2, <1>3 DEF Blocks
(* A marked domain was read from a token that begins with the mark.        *)
LEMMA MarkedOpens ==
    ASSUME NEW t \in Seq(Pieces), IsMarked(normalizeDomain(t))
    PROVE  Opens(t)
<1> DEFINE d == normalizeDomain(t)
           u == ToLower(t)
           All == Pieces \cup Punctuation
<1>1. d \in Seq(Lower) /\ Around(u, d) /\ d \in Seq(Text)
  BY TokenFacts, LowerIsText
<1>2. /\ u \in Seq(Lower) /\ Len(u) = Len(t)
      /\ \A i \in 1..Len(t), x \in Punctuation : u[i] = x <=> t[i] = x
  BY ToLowerFacts
<1>3. PICK m \in Marks : IsPrefix(m, d)
  BY DEF IsMarked, Marks
<1>4. m \in Seq(Punctuation) /\ m \in Seq(Text)
  <2>1. "*" \in Punctuation /\ "." \in Punctuation
    BY DEF Punctuation
  <2>2. <<"*", ".">> \in Seq(Punctuation) /\ <<".">> \in Seq(Punctuation)
    BY <2>1
  <2> QED
    BY <2>2, PunctuationIsText DEF Marks
<1> HIDE DEF d, u
<1>5. PICK o \in Opening :
         /\ o \in Seq({"||", "^"}) /\ Len(o \o m) <= Len(u)
         /\ \A i \in 1..Len(o \o m) : u[i] = (o \o m)[i]
  BY <1>1, <1>3, <1>4, AroundMark
<1> DEFINE om == o \o m
<1>6. om \in Seq(Punctuation)
  <2>1. {"||", "^"} \subseteq Punctuation
    BY DEF Punctuation
  <2>2. o \in Seq(Punctuation)
    BY <1>5, <2>1, SeqMonotonic
  <2> QED
    BY <1>4, <2>2, ConcatProperties
<1>7. Len(om) <= Len(u) /\ \A i \in 1..Len(om) : u[i] = om[i]
  BY <1>5
<1> HIDE DEF om
<1>8. Len(om) \in Nat /\ Len(t) \in Nat
  BY <1>6
<1>9. ASSUME NEW i \in 1..Len(om) PROVE t[i] = om[i]
  <2>1. om[i] \in Punctuation
    BY <1>6, ElementOfSeq
  <2>2. i \in 1..Len(t)
    BY <1>2, <1>7, <1>8
  <2> QED
    BY <1>2, <1>7, <2>1, <2>2
<1>10. om \in Seq(All) /\ t \in Seq(All)
  <2>1. Pieces \subseteq All /\ Punctuation \subseteq All
    OBVIOUS
  <2> HIDE DEF All
  <2> QED
    BY <1>6, <2>1, SeqMonotonic
<1> HIDE DEF All
<1>11. IsPrefix(om, t)
  BY <1>2, <1>7, <1>9, <1>10, StartsWith
<1> QED
  BY <1>11 DEF Opens, om

LEMMA ReverseNothing == ASSUME NEW s, Reverse(s) # << >> PROVE s # << >>
  BY DEF Reverse

(* Whatever stands in the lists, a name is blocked only by a token that    *)
(* spells it, or the end of it behind a wildcard mark.                     *)
THEOREM NothingUnlistedBlocked == ListSpec => []NothingElseBlocked
<1>1. ASSUME LoadInv, NEW q \in Queries, Blocks(q)
      PROVE  \E t \in Tokens(loaded) :
                \/ Words(t) = NameOf(q)
                \/ /\ Opens(t) /\ Words(t) # << >>
                   /\ IsSuffix(Words(t), NameOf(q))
  <2> DEFINE d == normalizeDomain(q)
             name == NameOf(q)
  <2>1. /\ \/ d \in blacklistExact
           \/ \E p \in blacklistTrie.wildcard : IsPrefix(p, Reverse(name))
        /\ Without(d, Decorations) = name
    BY <1>1, BlocksIff
  <2> HIDE DEF d, name
  <2>2. CASE d \in blacklistExact
    <3>1. d \in ParsedFrom(loaded) /\ loaded \subseteq Lines
      BY <1>1, <2>2 DEF LoadInv
    <3>2. PICK t \in Tokens(loaded) : t \in Seq(Pieces) /\ d = normalizeDomain(t)
      BY <3>1, TokenOf
    <3>3. Words(t) = Without(d, Decorations)
      BY <3>2, TokenFacts
    <3> QED
      BY <2>1, <3>2, <3>3 DEF name
  <2>3. ASSUME NEW p \in blacklistTrie.wildcard, IsPrefix(p, Reverse(name))
        PROVE  \E t \in Tokens(loaded) :
                  /\ Opens(t) /\ Words(t) # << >>
                  /\ IsSuffix(Words(t), name)
    <3>1. PICK x \in ParsedFrom(loaded) : IsMarked(x) /\ p = PathOfRule(x) /\ p # << >>
      BY <1>1 DEF LoadInv
    <3>2. x \in Seq(Lower) /\ isValidDomain(x) /\ loaded \subseteq Lines
      BY <1>1, ParsedFromValid DEF LoadInv
    <3>3. PICK t \in Tokens(loaded) : t \in Seq(Pieces) /\ x = normalizeDomain(t)
      BY <3>2, TokenOf
    <3>4. p = Reverse(Without(x, Decorations))
      BY <3>1, <3>2, RuleWords DEF PathOfRule
    <3>5. Words(t) = Without(x, Decorations)
      BY <3>3, TokenFacts
    <3>6. Opens(t)
      BY <3>1, <3>3, MarkedOpens
    <3>7. Words(t) # << >>
      BY <3>1, <3>4, <3>5, ReverseNothing
    <3>8. IsSuffix(Words(t), name)
      BY <2>3, <3>4, <3>5, SuffixIsPrefix
    <3> QED
      BY <3>3, <3>6, <3>7, <3>8
  <2> QED
    BY <2>1, <2>2, <2>3 DEF name
<1>2. LoadInv => NothingElseBlocked
  BY <1>1 DEF NothingElseBlocked
<1> QED
  BY <1>2, LoadInvariance, PTL
-----------------------------------------------------------------------------
(* The other direction: labels that are spelled out.                       *)
AreLabels(x) == x \in Seq(Lower) /\ x # << >> /\ \A i \in 1..Len(x) : x[i] \notin Punctuation

LEMMA DottedEnds ==
    ASSUME NEW x, AreLabels(x), NEW d, d = Dotted(x)
    PROVE  /\ d \in Seq(Text) /\ d # << >> /\ Len(d) \in Nat \ {0}
           /\ d[1] \notin Punctuation /\ d[Len(d)] \notin Punctuation
           /\ \A i \in 1..Len(d) : d[i] \notin {"||", "^", "*"}
           /\ Without(d, Decorations) = x
<1>1. x \in Seq(Text) /\ "." \in Text /\ x # << >>
  BY LowerIsText, PunctuationIsText DEF AreLabels
<1>2. /\ d \in Seq(Text) /\ Len(d) = 2 * Len(x) - 1 /\ d # << >>
      /\ \A i \in 1..Len(x) : d[2 * i - 1] = x[i]
      /\ \A i \in 1..Len(d) : d[i] = "." \/ \E j \in 1..Len(x) : d[i] = x[j]
  BY <1>1, DottedFacts
<1>3. Len(x) \in Nat \ {0}
  BY <1>1, EmptySeq
<1>4. d[1] = x[1] /\ d[Len(d)] = x[Len(x)] /\ Len(d) \in Nat \ {0}
  BY <1>2, <1>3
<1>5. x[1] \notin Punctuation /\ x[Len(x)] \notin Punctuation
  BY <1>3 DEF AreLabels
<1>6. \A i \in 1..Len(d) : d[i] \notin {"||", "^", "*"}
  BY <1>2 DEF AreLabels, Punctuation
<1>7. Without(d, Decorations) = x
  <2>1. "." \in Decorations /\ \A i \in 1..Len(x) : x[i] \notin Decorations
    BY DEF AreLabels, Decorations, Punctuation
  <2> QED
    BY <1>1, <2>1, DottedWithout
<1> QED
  BY <1>2, <1>4, <1>5, <1>6, <1>7

(* The parts of a token that spells a text.                                *)
LEMMA SpelledText ==
    ASSUME NEW t \in Seq(Pieces), NEW z \in Seq(Text), Spells(t, z)
    PROVE  /\ Len(z) <= Len(t)
           /\ \A i \in 1..Len(z) : z[i] \in ToSet(ToLower(t))
<1> DEFINE u == ToLower(t)
<1>1. u \in Seq(Lower) /\ Len(u) = Len(t) /\ DOMAIN u = 1..Len(t)
  BY ToLowerFacts
<1>2. PICK o \in Opening, c \in Closing : u = (o \o z) \o c
  BY DEF Spells
<1> HIDE DEF u
<1>3. o \in Seq(Text)
  <2>1. PICK p \in Affix("||"), q \in Affix("^") : o = p \o q
    BY OpeningParts
  <2>2. p \in Seq(Text) /\ q \in Seq(Text)
    BY AffixType, PunctuationIsText
  <2> QED
    BY <2>1, <2>2, ConcatProperties
<1>4. c \in Seq(Text)
  <2>1. PICK p \in Affix("."), q \in Affix("^") : c = p \o q
    BY ClosingParts
  <2>2. p \in Seq(Text) /\ q \in Seq(Text)
    BY AffixType, PunctuationIsText
  <2> QED
    BY <2>1, <2>2, ConcatProperties
<1> DEFINE a == o \o z
<1>5. /\ a \in Seq(Text) /\ Len(a) = Len(o) + Len(z)
      /\ \A i \in 1..(Len(o) + Len(z)) : a[i] = IF i <= Len(o) THEN o[i] ELSE z[i - Len(o)]
  BY <1>3, ConcatProperties
<1>6. u = a \o c
  BY <1>2
<1> HIDE DEF a
<1>7. /\ Len(u) = Len(a) + Len(c)
      /\ \A i \in 1..(Len(a) + Len(c)) : u[i] = IF i <= Len(a) THEN a[i] ELSE c[i - Len(a)]
  BY <1>4, <1>5, <1>6, ConcatProperties
<1>8. Len(o) \in Nat /\ Len(z) \in Nat /\ Len(c) \in Nat
  BY <1>3, <1>4
<1>9. ASSUME NEW i \in 1..Len(z) PROVE z[i] \in ToSet(u)
  <2>1. /\ Len(o) + i \in 1..(Len(o) + Len(z)) /\ ~(Len(o) + i <= Len(o)) /\ (Len(o) + i) - Len(o) = i
        /\ Len(o) + i \in 1..(Len(a) + Len(c)) /\ Len(o) + i <= Len(a)
    BY <1>5, <1>8
  <2>2. u[Len(o) + i] = z[i]
    BY <1>5, <1>7, <2>1
  <2>3. Len(o) + i \in DOMAIN u
    BY <1>1, <1>7, <2>1
  <2> QED
    BY <2>2, <2>3 DEF ToSet
<1>10. Len(z) <= Len(t)
  BY <1>1, <1>5, <1>7, <1>8
<1> QED
  BY <1>9, <1>10 DEF u

(* What a token that spells a text becomes.                                *)
LEMMA SpelledNormal ==
    ASSUME NEW t, NEW z \in Seq(Text), Spells(t, z), z # << >>,
           z[1] \notin {"||", "^"}, z[Len(z)] \notin {"^", "."}
    PROVE  normalizeDomain(t) = z
<1>1. Around(ToLower(t), z)
  BY SpellsAround
<1> QED
  BY <1>1, AroundNormalized

LEMMA NameNormal ==
    ASSUME NEW q \in Queries, NEW x, x = NameOf(q), x # << >>
    PROVE  AreLabels(x) /\ normalizeDomain(q) = Dotted(x)
<1> DEFINE d == Dotted(x)
<1>1. AreLabels(x) /\ ToLower(q) = Append(d, ".")
  BY NameShape DEF AreLabels
<1>2. /\ d \in Seq(Text) /\ d # << >>
      /\ d[1] \notin Punctuation /\ d[Len(d)] \notin Punctuation
  BY <1>1, DottedEnds
<1> HIDE DEF d
<1>3. ToLower(q) = (<< >> \o d) \o <<".">>
  <2>1. << >> \o d = d
    BY <1>2
  <2>2. Append(d, ".") = d \o <<".">>
    BY <1>2, PunctuationIsText, AppendIsConcat
  <2> QED
    BY <1>1, <2>1, <2>2, Zenon
<1>4. Spells(q, d)
  <2>1. << >> \in Opening /\ <<".">> \in Closing
    BY DEF Opening, Closing
  <2> QED
    BY <1>3, <2>1, Zenon DEF Spells
<1>5. d[1] \notin {"||", "^"} /\ d[Len(d)] \notin {"^", "."}
  BY <1>2 DEF Punctuation
<1> QED
  BY <1>1, <1>2, <1>4, <1>5, SpelledNormal DEF d
(* A dotted name is valid, alone or behind a mark.                         *)
LEMMA DottedValid ==
    ASSUME NEW x, AreLabels(x), NEW d, d = Dotted(x),
           NEW m \in {<< >>} \cup Marks, NEW z, z = m \o d,
           Len(z) <= MaxLen, z \notin IgnoredHosts, \A i \in 1..Len(d) : d[i] \notin Bad
    PROVE  isValidDomain(z)
<1> DEFINE star == <<"*", ".">>
           dot == <<".">>
           Clean(s) == TrimPrefix(TrimPrefix(s, star), dot)
<1>1. /\ d \in Seq(Text) /\ d # << >> /\ Len(d) \in Nat \ {0}
      /\ d[1] \notin Punctuation
      /\ \A i \in 1..Len(d) : d[i] \notin {"||", "^", "*"}
  BY DottedEnds
<1>2. /\ star \in Seq(Text) /\ dot \in Seq(Text) /\ "*" \in Text /\ "." \in Text
      /\ d[1] # "*" /\ d[1] # "."
  BY <1>1, PunctuationIsText DEF Punctuation
<1>3. ~IsPrefix(star, d) /\ ~IsPrefix(dot, d)
  BY <1>1, <1>2, StartsWithOne, StartsWithTwo
<1>4. ~IsPrefix(star, dot \o d)
  <2>1. dot # << >> /\ dot[1] = "."
    OBVIOUS
  <2> DEFINE s == dot \o d
  <2>2. s \in Seq(Text) /\ s[1] = "."
    <3> HIDE DEF dot
    <3> QED
      BY <1>1, <1>2, <2>1, ConcatEnds
  <2> HIDE DEF s
  <2>3. ~IsPrefix(star, s)
    BY <1>2, <2>2, StartsWithTwo
  <2> QED
    BY <2>3 DEF s
<1> HIDE DEF star, dot
<1>5. TrimPrefix(d, star) = d /\ TrimPrefix(d, dot) = d
      /\ TrimPrefix(dot \o d, star) = dot \o d
  BY <1>3, <1>4 DEF TrimPrefix
<1>6. TrimPrefix(star \o d, star) = d /\ TrimPrefix(dot \o d, dot) = d
  BY <1>1, <1>2, PrefixRemoved
<1>7. Clean(z) = d /\ z # << >>
  <2>1. CASE m = << >>
    <3>1. z = d
      BY <1>1, <2>1
    <3> QED
      BY <1>1, <1>5, <3>1
  <2>2. CASE m = star
    <3>1. z # << >>
      BY <1>1, <1>2, <2>2, ConcatEnds
    <3> QED
      BY <1>5, <1>6, <2>2, <3>1
  <2>3. CASE m = dot
    <3>1. z # << >>
      BY <1>1, <1>2, <2>3, ConcatEnds
    <3> QED
      BY <1>5, <1>6, <2>3, <3>1
  <2> QED
    BY <2>1, <2>2, <2>3 DEF Marks, star, dot
<1>8. ToSet(d) \cap (Bad \cup {"||", "^", "*"}) = {}
  <2>1. DOMAIN d = 1..Len(d)
    BY <1>1
  <2> QED
    BY <1>1, <2>1 DEF ToSet
<1>9. isValidDomain(z) <=>
         /\ z # << >> /\ Len(z) <= MaxLen /\ z \notin IgnoredHosts
         /\ Clean(z) # << >>
         /\ ToSet(Clean(z)) \cap (Bad \cup {"||", "^", "*"}) = {}
  BY DEF isValidDomain, star, dot
<1> HIDE DEF Clean
<1> QED
  BY <1>1, <1>7, <1>8, <1>9

LEMMA TokenType ==
    ASSUME NEW ls, ls \subseteq Lines, NEW t \in Tokens(ls)
    PROVE  /\ t \in Seq(Pieces)
           /\ t \notin HostsAddresses /\ isValidDomain(normalizeDomain(t))
                 => normalizeDomain(t) \in ParsedFrom(ls)
<1>1. PICK l \in ls : t \in ToSet(StripComment(l))
  BY DEF Tokens
<1>2. l \in Tokenised
  BY <1>1, ListLoadAssumption DEF WellFormed, Tokenised
<1>3. t \in Seq(Pieces)
  <2> DEFINE s == StripComment(l)
             T == Seq(Pieces)
  <2>1. s \in Seq(T)
    BY <1>2, StripType DEF Tokenised
  <2>2. t \in ToSet(s)
    BY <1>1
  <2> HIDE DEF s, T
  <2>3. t \in T
    BY <2>1, <2>2, ElementOfSeq DEF ToSet
  <2> QED
    BY <2>3 DEF T
<1>4. ASSUME t \notin HostsAddresses, isValidDomain(normalizeDomain(t))
      PROVE  normalizeDomain(t) \in ParsedFrom(ls)
  <2>1. t \in ToSet(Candidates(l))
    BY <1>1, <1>2, <1>4, CandidateFacts
  <2>2. normalizeDomain(t) \in Parsed(l)
    BY <1>4, <2>1 DEF Parsed
  <2> QED
    BY <1>1, <2>2 DEF ParsedFrom
<1> QED
  BY <1>3, <1>4

(* The end of a name is, right to left, the beginning of it.               *)
LEMMA EndOfName ==
    ASSUME NEW x, AreLabels(x), NEW i \in 1..Len(x), NEW y, y = SubSeq(x, i, Len(x))
    PROVE  AreLabels(y) /\ IsPrefix(Reverse(y), Reverse(x))
<1> DEFINE n == Len(x)
           k == n - i + 1
<1>1. x \in Seq(Lower) /\ n \in Nat /\ i \in 1..n /\ k \in 1..n
  BY DEF AreLabels
<1>2. \A j \in i..n : x[j] \in Lower
  BY <1>1, ElementOfSeq
<1>3. y \in Seq(Lower) /\ Len(y) = k /\ \A j \in 1..k : y[j] = x[i + j - 1]
  <2>1. i \in Int /\ n \in Int /\ i <= n
    BY <1>1
  <2> HIDE DEF n
  <2> QED
    BY <1>2, <2>1, SubSeqProperties DEF n
<1> HIDE DEF n, k
<1>4. AreLabels(y)
  <2>1. ASSUME NEW j \in 1..k PROVE y[j] \notin Punctuation
    <3>1. i + j - 1 \in 1..n
      BY <1>1 DEF k
    <3> QED
      BY <1>3, <3>1 DEF AreLabels, n
  <2>2. y # << >>
    <3>1. Len(y) # 0
      BY <1>1, <1>3
    <3> QED
      BY <3>1
  <2> QED
    BY <1>3, <2>1, <2>2 DEF AreLabels
<1>5. /\ Reverse(x) \in Seq(Lower) /\ Len(Reverse(x)) = n
      /\ \A j \in 1..n : Reverse(x)[j] = x[n - j + 1]
  BY <1>1, ReverseFacts DEF n
<1>6. /\ Reverse(y) \in Seq(Lower) /\ Len(Reverse(y)) = k
      /\ \A j \in 1..k : Reverse(y)[j] = y[k - j + 1]
  BY <1>3, ReverseFacts
<1>7. ASSUME NEW j \in 1..k PROVE Reverse(x)[j] = Reverse(y)[j]
  <2>1. j \in 1..n /\ k - j + 1 \in 1..k /\ i + (k - j + 1) - 1 = n - j + 1
    BY <1>1 DEF k
  <2> QED
    BY <1>3, <1>5, <1>6, <2>1
<1>8. k <= n
  BY <1>1
<1> QED
  BY <1>4, <1>5, <1>6, <1>7, <1>8, StartsWith

(* A token that spells the domain itself.                                  *)
LEMMA PlainListed ==
    ASSUME LoadInv, NEW q \in Queries, NEW t \in Tokens(loaded),
           Len(t) <= MaxLen, ToSet(ToLower(t)) \cap Bad = {},
           NEW x, x = NameOf(q), x # << >>, NEW d, d = Dotted(x),
           Spells(t, d), d \notin IgnoredHosts, t \notin HostsAddresses
    PROVE  Blocks(q)
<1>1. AreLabels(x) /\ normalizeDomain(q) = d
  BY NameNormal
<1>2. /\ d \in Seq(Text) /\ d # << >>
      /\ d[1] \notin Punctuation /\ d[Len(d)] \notin Punctuation
  BY <1>1, DottedEnds
<1>3. t \in Seq(Pieces) /\ loaded \subseteq Lines
  BY TokenType DEF LoadInv
<1>4. normalizeDomain(t) = d
  <2>1. d[1] \notin {"||", "^"} /\ d[Len(d)] \notin {"^", "."}
    BY <1>2 DEF Punctuation
  <2> QED
    BY <1>2, <2>1, SpelledNormal
<1>5. Len(d) <= MaxLen /\ \A i \in 1..Len(d) : d[i] \notin Bad
  <2>1. Len(d) <= Len(t) /\ \A i \in 1..Len(d) : d[i] \in ToSet(ToLower(t))
    BY <1>2, <1>3, SpelledText
  <2>2. Len(d) \in Nat /\ Len(t) \in Nat /\ MaxLen \in Nat
    BY <1>2, <1>3, ListLoadAssumption DEF WellFormed
  <2> QED
    BY <2>1, <2>2
<1>6. isValidDomain(d)
  <2>1. d = << >> \o d
    BY <1>2
  <2> QED
    BY <1>1, <1>5, <2>1, DottedValid
<1>7. d \in ParsedFrom(loaded)
  BY <1>3, <1>4, <1>6, TokenType
<1>8. ~IsMarked(d)
  <2>1. d[1] # "*" /\ d[1] # "." /\ "*" \in Text /\ "." \in Text
    BY <1>2, PunctuationIsText DEF Punctuation
  <2>2. ~IsPrefix(<<"*", ".">>, d) /\ ~IsPrefix(<<".">>, d)
    BY <1>2, <2>1, StartsWithOne, StartsWithTwo
  <2> QED
    BY <2>2 DEF IsMarked
<1>9. d \in blacklistExact
  BY <1>7, <1>8 DEF LoadInv
<1> QED
  BY <1>1, <1>2, <1>9, BlocksIff

(* A token that spells a domain at or above it, with a mark.               *)
LEMMA MarkedListed ==
    ASSUME LoadInv, NEW q \in Queries, NEW t \in Tokens(loaded),
           Len(t) <= MaxLen, ToSet(ToLower(t)) \cap Bad = {},
           NEW x, x = NameOf(q), NEW i \in 1..Len(x), NEW y, y = SubSeq(x, i, Len(x)),
           NEW m \in Marks, NEW z, z = m \o Dotted(y), Spells(t, z)
    PROVE  Blocks(q)
<1> DEFINE d == Dotted(y)
           dx == Dotted(x)
<1>1. x # << >>
  OBVIOUS
<1>2. AreLabels(x) /\ normalizeDomain(q) = dx
  BY <1>1, NameNormal
<1>3. AreLabels(y) /\ IsPrefix(Reverse(y), Reverse(x))
  BY <1>2, EndOfName
<1>4. /\ d \in Seq(Text) /\ d # << >> /\ Len(d) \in Nat \ {0}
      /\ d[Len(d)] \notin Punctuation /\ Without(d, Decorations) = y
  BY <1>3, DottedEnds
<1>5. dx # << >>
  BY <1>2, DottedEnds
<1>6. t \in Seq(Pieces) /\ loaded \subseteq Lines
  BY TokenType DEF LoadInv
<1>7. m \in Seq(Text) /\ m # << >> /\ Len(m) \in {1, 2} /\ m[1] \in {"*", "."}
  <2>1. CASE m = <<"*", ".">>
    <3>1. m # << >> /\ Len(m) = 2 /\ m[1] = "*"
      BY <2>1
    <3> QED
      BY <2>1, <3>1, PunctuationIsText
  <2>2. CASE m = <<".">>
    <3>1. m # << >> /\ Len(m) = 1 /\ m[1] = "."
      BY <2>2
    <3> QED
      BY <2>2, <3>1, PunctuationIsText
  <2> QED
    BY <2>1, <2>2 DEF Marks
<1> HIDE DEF d, dx
<1>8. /\ z \in Seq(Text) /\ z # << >> /\ z[1] = m[1] /\ z[Len(z)] = d[Len(d)] /\ Len(z) = Len(m) + Len(d)
  BY <1>4, <1>7, ConcatEnds DEF d
<1>9. normalizeDomain(t) = z
  <2>1. z[1] \notin {"||", "^"} /\ z[Len(z)] \notin {"^", "."}
    BY <1>4, <1>7, <1>8 DEF Punctuation
  <2> QED
    BY <1>8, <2>1, SpelledNormal
<1>10. Len(z) <= Len(t) /\ \A j \in 1..Len(z) : z[j] \in ToSet(ToLower(t))
  BY <1>6, <1>8, SpelledText
<1>11. Len(z) <= MaxLen /\ t \notin HostsAddresses
  <2>1. Len(z) \in Nat /\ Len(t) \in Nat /\ MaxLen \in Nat
    BY <1>6, <1>8, ListLoadAssumption DEF WellFormed
  <2>2. Len(t) >= 2
    BY <1>4, <1>7, <1>8, <1>10, <2>1
  <2>3. \A h \in HostsAddresses : Len(h) = 1
    BY DEF HostsAddresses
  <2>4. Len(z) <= MaxLen
    BY <1>10, <2>1
  <2>5. ASSUME t \in HostsAddresses PROVE FALSE
    <3>1. Len(t) = 1
      BY <2>5, <2>3, Zenon
    <3> QED
      BY <2>2, <3>1
  <2> QED
    BY <2>4, <2>5
<1>12. z \notin IgnoredHosts
  BY <1>7, <1>8, ListLoadAssumption DEF WellFormed
<1>13. \A j \in 1..Len(d) : d[j] \notin Bad
  <2>1. ASSUME NEW j \in 1..Len(d) PROVE d[j] \notin Bad
    <3>1. /\ Len(m) + j \in 1..(Len(m) + Len(d)) /\ ~(Len(m) + j <= Len(m)) /\ (Len(m) + j) - Len(m) = j
          /\ Len(m) + j \in 1..Len(z)
      BY <1>4, <1>7, <1>8
    <3>2. \A k \in 1..(Len(m) + Len(d)) : (m \o d)[k] = IF k <= Len(m) THEN m[k] ELSE d[k - Len(m)]
      BY <1>4, <1>7, ConcatProperties
    <3>3. z = m \o d
      BY DEF d
    <3>4. z[Len(m) + j] = d[j]
      BY <3>1, <3>2, <3>3
    <3> QED
      BY <1>10, <3>1, <3>4
  <2> QED
    BY <2>1
<1>14. isValidDomain(z)
  <2>1. z = m \o d /\ d = Dotted(y)
    BY DEF d
  <2> QED
    BY <1>3, <1>11, <1>12, <1>13, <2>1, DottedValid
<1>15. z \in ParsedFrom(loaded)
  BY <1>6, <1>9, <1>11, <1>14, TokenType
<1>16. IsMarked(z)
  <2>1. IsPrefix(m, m \o d)
    <3>1. m \o d \in Seq(Text) /\ Len(m \o d) = Len(m) + Len(d)
          /\ \A k \in 1..(Len(m) + Len(d)) : (m \o d)[k] = IF k <= Len(m) THEN m[k] ELSE d[k - Len(m)]
      BY <1>4, <1>7, ConcatProperties
    <3> DEFINE md == m \o d
    <3> HIDE DEF md
    <3>2. md \in Seq(Text) /\ Len(m) <= Len(md) /\ \A k \in 1..Len(m) : md[k] = m[k]
      BY <1>4, <1>7, <3>1 DEF md
    <3>3. IsPrefix(m, md)
      BY <1>7, <3>2, StartsWith
    <3> QED
      BY <3>3 DEF md
  <2>2. IsPrefix(m, z)
    BY <2>1 DEF d
  <2> QED
    BY <2>2 DEF IsMarked, Marks
<1>17. z \in Seq(Lower) /\ PathOfRule(z) = Reverse(Without(z, Decorations))
  <2>1. z \in Seq(Lower)
    BY <1>6, <1>9, TokenFacts
  <2> QED
    BY <1>14, <2>1, RuleWords DEF PathOfRule
<1>18. Without(z, Decorations) = y
  <2> DEFINE star == "*"
             dot == "."
  <2>1. star \in Text /\ dot \in Text /\ star \in Decorations /\ dot \in Decorations
    BY PunctuationIsText DEF Decorations
  <2>2. (m = <<star, dot>> \/ m = <<dot>>) /\ z = m \o d
    BY DEF Marks, d
  <2> HIDE DEF star, dot
  <2>3. Without(<<dot>> \o d, Decorations) = Without(d, Decorations) /\ <<dot>> \o d \in Seq(Text)
    BY <1>4, <2>1, WithoutFirst, ConcatProperties
  <2>4. CASE m = <<dot>>
    BY <1>4, <2>2, <2>3, <2>4
  <2>5. CASE m = <<star, dot>>
    <3> DEFINE b == <<dot>>
               s == <<star>>
               bd == b \o d
    <3>1. s \o b = m /\ s \in Seq(Text) /\ b \in Seq(Text)
      BY <2>1, <2>5, TwoPieces
    <3>2. bd \in Seq(Text) /\ Without(bd, Decorations) = Without(d, Decorations)
      BY <2>3
    <3> HIDE DEF bd
    <3>3. Without(s \o bd, Decorations) = Without(bd, Decorations)
      BY <2>1, <3>2, WithoutFirst
    <3> HIDE DEF b, s
    <3>4. z = s \o bd
      <4>1. Join(Join(s, b), d) = Join(s, Join(b, d))
        BY <1>4, <3>1, JoinFacts
      <4> QED
        BY <2>2, <3>1, <4>1, Zenon DEF Join, bd
    <3> QED
      BY <1>4, <3>2, <3>3, <3>4, Zenon
  <2> QED
    BY <2>2, <2>4, <2>5
<1>19. PathOfRule(z) = Reverse(y) /\ Reverse(y) # << >>
  <2>1. Reverse(y) # << >>
    <3>1. y \in Seq(Lower) /\ y # << >>
      BY <1>3 DEF AreLabels
    <3>2. Reverse(y) \in Seq(Lower) /\ Len(Reverse(y)) = Len(y) /\ Len(y) # 0
      BY <3>1, ReverseFacts, EmptySeq
    <3> QED
      BY <3>2
  <2> QED
    BY <1>17, <1>18, <2>1
<1>20. Reverse(y) \in blacklistTrie.wildcard
  BY <1>15, <1>16, <1>19 DEF LoadInv
<1> QED
  BY <1>2, <1>3, <1>5, <1>20, BlocksIff

(* Every name that a token of a completely read list spells out is blocked,*)
(* whatever else stands in the lists.                                      *)
THEOREM ListedNamesBlocked == ListSpec => []ListedIsBlocked
<1>1. ASSUME LoadInv, NEW q \in Queries, NEW t \in Tokens(loaded),
             Len(t) <= MaxLen, ToSet(ToLower(t)) \cap Bad = {},
             Names(t, NameOf(q))
      PROVE  Blocks(q)
  <2> DEFINE x == NameOf(q)
  <2>1. CASE /\ x # << >> /\ Spells(t, Dotted(x))
             /\ Dotted(x) \notin IgnoredHosts /\ t \notin HostsAddresses
    BY <1>1, <2>1, PlainListed
  <2>2. ASSUME NEW i \in DOMAIN x, NEW m \in Marks,
               Spells(t, m \o Dotted(SubSeq(x, i, Len(x))))
        PROVE  Blocks(q)
    <3>1. x \in Seq(Lower)
      <4>1. ToLower(q) \in Seq(Lower) /\ x = Without(ToLower(q), Decorations)
        BY NameIsText
      <4> QED
        BY <4>1, WithoutType
    <3>2. i \in 1..Len(x)
      BY <3>1
    <3> QED
      BY <1>1, <2>2, <3>2, MarkedListed
  <2> QED
    BY <1>1, <2>1, <2>2 DEF Names
<1>2. LoadInv => ListedIsBlocked
  BY <1>1 DEF ListedIsBlocked
<1> QED
  BY <1>2, LoadInvariance, PTL
=============================================================================
