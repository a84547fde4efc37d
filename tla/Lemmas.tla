-------------------------------- MODULE Lemmas -------------------------------
(***************************************************************************)
(* Facts that several proofs use: remainders, by which the query log finds *)
(* the slot of a ticket and the upstream pool the resolver of a query;     *)
(* induction, stated for a set of numbers instead of a property, so that a *)
(* proof can name the set; recursion, by which functions are defined that  *)
(* go through a sequence; and one of these functions, the filter.          *)
(***************************************************************************)
EXTENDS Filtering, SequenceTheorems, WellFoundedInduction, TLAPS

-----------------------------------------------------------------------------

LEMMA ModRange ==
    ASSUME NEW x \in Int, NEW n \in Nat \ {0}
    PROVE  x % n \in 0..(n - 1)
    OBVIOUS

LEMMA DivMod ==
    ASSUME NEW x \in Int, NEW n \in Nat \ {0}
    PROVE  x \div n \in Int /\ x = n * (x \div n) + (x % n)
    OBVIOUS

(* Multiples of n are at least n apart. *)
LEMMA MulGap ==
    ASSUME NEW a \in Int, NEW b \in Int, NEW n \in Nat \ {0}, a < b
    PROVE  n * a + n <= n * b
<1>1. n * (a + 1) <= n * b
  OBVIOUS
<1>2. n * (a + 1) = n * a + n
  OBVIOUS
<1> QED
  BY <1>1, <1>2

(* Two numbers less than n apart have the same remainder only if they are equal. *)
LEMMA ModApart ==
    ASSUME NEW x \in Int, NEW y \in Int, NEW n \in Nat \ {0}, x % n = y % n, x < y
    PROVE  x + n <= y
<1> DEFINE a == x \div n
           b == y \div n
           r == x % n
<1>1. /\ x = n * a + r /\ y = n * b + r
      /\ a \in Int /\ b \in Int /\ r \in Int
  BY DivMod, ModRange
<1> HIDE DEF a, b, r
<1>2. n * a \in Int /\ n * b \in Int
  BY <1>1
<1>3. a < b
  <2>1. CASE a = b
    BY <1>1, <1>2, <2>1
  <2>2. CASE b < a
    BY <1>1, <1>2, <2>2, MulGap
  <2> QED
    BY <1>1, <2>1, <2>2
<1> QED
  BY <1>1, <1>2, <1>3, MulGap

(* A remainder is unique. *)
LEMMA ModUnique ==
    ASSUME NEW n \in Nat \ {0}, NEW a \in Int, NEW b \in Int,
           NEW r \in 0..(n - 1), NEW s \in 0..(n - 1), n * a + r = n * b + s
    PROVE  r = s
<1>1. n * a \in Int /\ n * b \in Int
  OBVIOUS
<1>2. CASE a < b
  BY <1>1, <1>2, MulGap
<1>3. CASE b < a
  BY <1>1, <1>3, MulGap
<1>4. CASE a = b
  BY <1>1, <1>4
<1> QED
  BY <1>2, <1>3, <1>4

LEMMA ModIs ==
    ASSUME NEW n \in Nat \ {0}, NEW a \in Int, NEW r \in 0..(n - 1), NEW x \in Int, x = n * a + r
    PROVE  x % n = r
<1> DEFINE b == x \div n
           s == x % n
<1>1. x = n * b + s /\ b \in Int /\ s \in 0..(n - 1)
  BY DivMod, ModRange
<1> HIDE DEF b, s
<1>2. s = r
  BY <1>1, ModUnique
<1> QED
  BY <1>2 DEF s

LEMMA ModShift ==
    ASSUME NEW x \in Int, NEW n \in Nat \ {0}
    PROVE  (x + n) % n = x % n
<1> DEFINE a == x \div n
           r == x % n
<1>1. x = n * a + r /\ a \in Int /\ r \in 0..(n - 1)
  BY DivMod, ModRange
<1> HIDE DEF a, r
<1>2. n * (a + 1) = n * a + n /\ n * a \in Int
  BY <1>1
<1>3. x + n = n * (a + 1) + r /\ a + 1 \in Int /\ x + n \in Int
  BY <1>1, <1>2
<1>4. (x + n) % n = r
  BY <1>1, <1>3, ModIs
<1> QED
  BY <1>4 DEF r

(* Counting up goes round. *)
LEMMA ModNext ==
    ASSUME NEW x \in Int, NEW n \in Nat \ {0}
    PROVE  (x + 1) % n = IF (x % n) + 1 = n THEN 0 ELSE (x % n) + 1
<1> DEFINE a == x \div n
           r == x % n
<1>1. x = n * a + r /\ a \in Int /\ r \in 0..(n - 1)
  BY DivMod, ModRange
<1> HIDE DEF a, r
<1>2. n * (a + 1) = n * a + n /\ n * a \in Int
  BY <1>1
<1>3. CASE r + 1 = n
  <2>1. x + 1 = n * (a + 1) + 0 /\ a + 1 \in Int /\ x + 1 \in Int /\ 0 \in 0..(n - 1)
    BY <1>1, <1>2, <1>3
  <2>2. (x + 1) % n = 0
    BY <2>1, ModIs
  <2> QED
    BY <1>3, <2>2 DEF r
<1>4. CASE r + 1 # n
  <2>1. x + 1 = n * a + (r + 1) /\ x + 1 \in Int /\ r + 1 \in 0..(n - 1)
    BY <1>1, <1>2, <1>4
  <2>2. (x + 1) % n = r + 1
    BY <1>1, <2>1, ModIs
  <2> QED
    BY <1>4, <2>2 DEF r
<1> QED
  BY <1>3, <1>4

(* At most once round. *)
LEMMA ModWrap ==
    ASSUME NEW n \in Nat \ {0}, NEW x \in 0..(2 * n - 1)
    PROVE  x % n = IF x < n THEN x ELSE x - n
<1>1. CASE x < n
  <2>1. x = n * 0 + x /\ x \in 0..(n - 1)
    BY <1>1
  <2> QED
    BY <1>1, <2>1, ModIs
<1>2. CASE n <= x
  <2>1. x = n * 1 + (x - n) /\ x - n \in 0..(n - 1)
    BY <1>2
  <2> QED
    BY <1>2, <2>1, ModIs
<1> QED
  BY <1>1, <1>2

-----------------------------------------------------------------------------
(* Every nonempty set of numbers has a least one. *)
LEMMA LeastNumber ==
    ASSUME NEW S, S \subseteq Nat, S # {}
    PROVE  \E m \in S : \A k \in S : m <= k
<1> DEFINE R == OpToRel(<, Nat)
<1>1. IsWellFoundedOn(R, Nat)
  BY NatLessThanWellFounded
<1> HIDE DEF R
<1>2. PICK x \in S : \A y \in S : ~(<<y, x>> \in R)
  BY <1>1, WFMin
<1>3. \A y \in Nat : y < x => <<y, x>> \in R
  BY DEF R, OpToRel
<1>4. ASSUME NEW y \in S PROVE x <= y
  <2>1. x \in Nat /\ y \in Nat
    OBVIOUS
  <2>2. ~(y < x)
    BY <1>2, <1>3, <2>1
  <2> QED
    BY <2>1, <2>2
<1> QED
  BY <1>4

(* Induction up to n, with the set of numbers that have the property in    *)
(* the place of the property.                                              *)
LEMMA Induction ==
    ASSUME NEW n \in Nat, NEW S, 0 \in S, \A i \in 0..(n - 1) : i \in S => i + 1 \in S
    PROVE  \A i \in 0..n : i \in S
<1> SUFFICES ASSUME NEW j \in 0..n, j \notin S PROVE FALSE
  OBVIOUS
<1> DEFINE Bad == {i \in 0..n : i \notin S}
<1>0. Bad \subseteq Nat /\ Bad # {}
  OBVIOUS
<1>1. PICK m \in Bad : \A k \in Bad : m <= k
  BY <1>0, LeastNumber
<1>2. m \in 1..n /\ m \notin S
  BY <1>1
<1>3. m - 1 \in 0..(n - 1) /\ m - 1 \notin Bad
  BY <1>1, <1>2
<1>4. m - 1 \in S
  BY <1>3
<1> QED
  BY <1>2, <1>3, <1>4

(* The greatest of the numbers up to n. *)
LEMMA GreatestNumber ==
    ASSUME NEW n \in Nat, NEW S, S \subseteq 0..n, S # {}
    PROVE  \E m \in S : \A k \in S : k <= m
<1> DEFINE D == {d \in 0..n : n - d \in S}
<1>1. PICK s \in S : s \in 0..n
  OBVIOUS
<1>2. n - s \in 0..n /\ n - (n - s) = s
  BY <1>1
<1>3. D \subseteq Nat /\ D # {}
  BY <1>2
<1>4. PICK d \in D : \A k \in D : d <= k
  BY <1>3, LeastNumber
<1>5. n - d \in S /\ d \in 0..n
  OBVIOUS
<1>6. ASSUME NEW k \in S PROVE k <= n - d
  <2>1. k \in 0..n
    OBVIOUS
  <2>2. n - k \in 0..n /\ n - (n - k) = k
    BY <2>1
  <2>3. n - k \in D
    BY <2>2
  <2>4. d <= n - k
    BY <1>4, <2>3
  <2> QED
    BY <1>5, <2>1, <2>4
<1> QED
  BY <1>5, <1>6

(* g is defined by recursion up to n. *)
ByRecursion(g, n, base, step) ==
    g[0] = base /\ \A i \in 1..n : g[i] = step[<<g[i - 1], i>>]

(* A function may be defined by recursion up to n; its step is a function  *)
(* of the value before and the argument.                                   *)
LEMMA Recursion ==
    ASSUME NEW n \in Nat, NEW T, NEW base \in T, NEW step \in [T \X (1..n) -> T]
    PROVE  \E g \in [0..n -> T] : ByRecursion(g, n, base, step)
<1> USE DEF ByRecursion
<1> DEFINE Def(g, k) == ByRecursion(g, k, base, step)
           S == {k \in 0..n : \E g \in [0..k -> T] : Def(g, k)}
<1>1. 0 \in S
  <2> DEFINE g == [i \in 0..0 |-> base]
  <2>1. g \in [0..0 -> T]
    OBVIOUS
  <2>2. Def(g, 0)
    OBVIOUS
  <2> HIDE DEF g, Def
  <2> QED
    BY <2>1, <2>2
<1>2. ASSUME NEW k \in 0..(n - 1), k \in S PROVE k + 1 \in S
  <2>1. PICK g \in [0..k -> T] : Def(g, k)
    BY <1>2
  <2> DEFINE v == step[<<g[k], k + 1>>]
             h == [i \in 0..(k + 1) |-> IF i <= k THEN g[i] ELSE v]
  <2>2. v \in T
    <3>1. g[k] \in T /\ k + 1 \in 1..n
      OBVIOUS
    <3> QED
      BY <3>1
  <2> HIDE DEF v
  <2>3. h \in [0..(k + 1) -> T]
    BY <2>2
  <2>4. h[0] = base
    BY <2>1
  <2>5. ASSUME NEW i \in 1..(k + 1) PROVE h[i] = step[<<h[i - 1], i>>]
    <3>1. CASE i <= k
      BY <2>1, <3>1
    <3>2. CASE i = k + 1
      BY <3>2 DEF v
    <3> QED
      BY <3>1, <3>2
  <2> HIDE DEF h
  <2>6. Def(h, k + 1)
    BY <2>4, <2>5
  <2>7. k + 1 \in 0..n
    OBVIOUS
  <2> QED
    BY <2>3, <2>6, <2>7
<1> HIDE DEF S
<1>3. n \in S
  BY <1>1, <1>2, Induction
<1> QED
  BY <1>3 DEF S

-----------------------------------------------------------------------------
(* Filters.  The function by which Kept is defined exists. *)
LEMMA KeptDef ==
    ASSUME NEW T, NEW s \in Seq(T), NEW S
    PROVE  /\ Kept(s, S) \in [0..Len(s) -> Seq(T)]
           /\ Kept(s, S)[0] = << >>
           /\ \A i \in 1..Len(s) :
                 Kept(s, S)[i] = IF s[i] \in S THEN Kept(s, S)[i - 1]
                                 ELSE Append(Kept(s, S)[i - 1], s[i])
<1> DEFINE n == Len(s)
           Body(g, i) == IF i = 0 THEN << >>
                         ELSE IF s[i] \in S THEN g[i - 1] ELSE Append(g[i - 1], s[i])
           Def(g) == g = [i \in 0..n |-> Body(g, i)]
           step == [x \in Seq(T) \X (1..n) |->
              IF s[x[2]] \in S THEN x[1] ELSE Append(x[1], s[x[2]])]
<1>1. n \in Nat /\ << >> \in Seq(T) /\ \A i \in 1..n : s[i] \in T
  OBVIOUS
<1>2. step \in [Seq(T) \X (1..n) -> Seq(T)]
  <2>1. ASSUME NEW x \in Seq(T) \X (1..n)
        PROVE  (IF s[x[2]] \in S THEN x[1] ELSE Append(x[1], s[x[2]])) \in Seq(T)
    <3>1. x[1] \in Seq(T) /\ x[2] \in 1..n
      OBVIOUS
    <3>2. s[x[2]] \in T
      BY <1>1, <3>1
    <3> QED
      BY <3>1, <3>2
  <2> QED
    BY <2>1
<1>3. \A x \in Seq(T), i \in 1..n : step[<<x, i>>] = IF s[i] \in S THEN x ELSE Append(x, s[i])
  OBVIOUS
<1> HIDE DEF step
<1>4. PICK g \in [0..n -> Seq(T)] : g[0] = << >> /\ \A i \in 1..n : g[i] = step[<<g[i - 1], i>>]
  <2> DEFINE Q == Seq(T)
             b == << >>
  <2>1. n \in Nat /\ b \in Q /\ step \in [Q \X (1..n) -> Q]
    BY <1>1, <1>2
  <2> HIDE DEF Q, b, n
  <2>2. \E g \in [0..n -> Q] : ByRecursion(g, n, b, step)
    BY <2>1, Recursion
  <2> QED
    BY <2>2 DEF Q, b, ByRecursion
<1>5. ASSUME NEW i \in 0..n PROVE g[i] = Body(g, i)
  <2>1. CASE i = 0
    BY <1>4, <2>1
  <2>2. CASE i # 0
    <3>1. i \in 1..n /\ i - 1 \in 0..n
      BY <2>2
    <3>2. g[i - 1] \in Seq(T)
      BY <3>1
    <3> QED
      BY <1>3, <1>4, <2>2, <3>1, <3>2
  <2> QED
    BY <2>1, <2>2
<1>6. Def(g)
  <2>1. g = [i \in 0..n |-> g[i]]
    OBVIOUS
  <2> HIDE DEF Body
  <2> QED
    BY <1>5, <2>1
<1>7. Kept(s, S) = CHOOSE f : Def(f)
  BY DEF Kept
<1> HIDE DEF Def
<1>8. Def(Kept(s, S))
  BY <1>6, <1>7
<1> DEFINE k == Kept(s, S)
<1>9. \A i \in 0..n : k[i] = Body(k, i)
  <2> HIDE DEF k, Body
  <2>1. Def(k)
    BY <1>8 DEF k
  <2> QED
    BY <2>1 DEF Def
<1> HIDE DEF k
<1>10. k[0] = << >> /\ \A i \in 1..n : k[i] = IF s[i] \in S THEN k[i - 1] ELSE Append(k[i - 1], s[i])
  BY <1>1, <1>9
<1>11. \A i \in 0..n : k[i] \in Seq(T)
  <2> DEFINE Good == {i \in 0..n : k[i] \in Seq(T)}
  <2> HIDE DEF n, Body
  <2>1. 0 \in Good
    <3>1. k[0] \in Seq(T)
      BY <1>1, <1>10, Zenon
    <3> QED
      BY <1>1, <3>1
  <2>2. ASSUME NEW i \in 0..(n - 1), i \in Good PROVE i + 1 \in Good
    <3>1. i + 1 \in 1..n /\ (i + 1) - 1 = i
      BY <1>1
    <3>2. s[i + 1] \in T /\ k[i] \in Seq(T)
      BY <1>1, <2>2, <3>1
    <3>3. k[i + 1] = IF s[i + 1] \in S THEN k[i] ELSE Append(k[i], s[i + 1])
      BY <1>10, <3>1
    <3>4. k[i + 1] \in Seq(T)
      <4> DEFINE q == k[i]
                 e == s[i + 1]
      <4>1. q \in Seq(T) /\ e \in T
        BY <3>2
      <4> HIDE DEF q, e
      <4>2. Append(q, e) \in Seq(T)
        BY <4>1
      <4> QED
        BY <3>3, <4>1, <4>2, Zenon DEF q, e
    <3> QED
      BY <3>1, <3>4
  <2> HIDE DEF Good
  <2>3. \A i \in 0..n : i \in Good
    BY <1>1, <2>1, <2>2, Induction
  <2> QED
    BY <2>3 DEF Good
<1>12. k \in [0..n -> Seq(T)]
  <2>1. k = [i \in 0..n |-> Body(k, i)]
    BY <1>8 DEF k, Def
  <2> HIDE DEF Body
  <2>2. k = [i \in 0..n |-> k[i]]
    BY <1>9, <2>1
  <2> QED
    BY <1>11, <2>2
<1> QED
  BY <1>10, <1>12 DEF k

LEMMA WithoutType ==
    ASSUME NEW T, NEW s \in Seq(T), NEW S PROVE Without(s, S) \in Seq(T)
<1>1. Len(s) \in 0..Len(s)
  OBVIOUS
<1> QED
  BY <1>1, KeptDef DEF Without

LEMMA WithoutEmpty ==
    ASSUME NEW S PROVE Without(<< >>, S) = << >>
<1> DEFINE e == << >>
           T == {0}
<1>1. e \in Seq(T) /\ Len(e) = 0
  OBVIOUS
<1> HIDE DEF e, T
<1>2. ASSUME NEW t \in Seq(T) PROVE Kept(t, S)[0] = << >>
  BY KeptDef
<1>3. Without(e, S) = << >>
  BY <1>1, <1>2 DEF Without
<1> QED
  BY <1>3 DEF e

LEMMA WithoutAppend ==
    ASSUME NEW T, NEW s \in Seq(T), NEW x \in T, NEW S
    PROVE  Without(Append(s, x), S) = IF x \in S THEN Without(s, S) ELSE Append(Without(s, S), x)
<1> DEFINE n == Len(s)
           t == Append(s, x)
           k == Kept(s, S)
           m == Kept(t, S)
<1>1. /\ n \in Nat /\ t \in Seq(T) /\ Len(t) = n + 1
      /\ t[n + 1] = x /\ \A i \in 1..n : t[i] = s[i]
  BY AppendProperties
<1>2. k[0] = << >> /\ \A i \in 1..n : k[i] = IF s[i] \in S THEN k[i - 1] ELSE Append(k[i - 1], s[i])
  BY KeptDef
<1> HIDE DEF t
<1>3. m[0] = << >> /\ \A i \in 1..(n + 1) : m[i] = IF t[i] \in S THEN m[i - 1] ELSE Append(m[i - 1], t[i])
  BY <1>1, KeptDef
<1> HIDE DEF n, k, m
<1> DEFINE Good == {i \in 0..n : m[i] = k[i]}
<1>4. 0 \in Good
  BY <1>1, <1>2, <1>3
<1>5. ASSUME NEW i \in 0..(n - 1), i \in Good PROVE i + 1 \in Good
  <2>1. i + 1 \in 1..n /\ i + 1 \in 1..(n + 1) /\ i + 1 \in 0..n /\ (i + 1) - 1 = i /\ m[i] = k[i]
    BY <1>1, <1>5
  <2>2. k[i + 1] = IF s[i + 1] \in S THEN k[i] ELSE Append(k[i], s[i + 1])
    BY <1>2, <2>1
  <2>3. m[i + 1] = IF s[i + 1] \in S THEN m[i] ELSE Append(m[i], s[i + 1])
    BY <1>1, <1>3, <2>1
  <2>4. m[i + 1] = k[i + 1]
    BY <2>1, <2>2, <2>3, Zenon
  <2> QED
    BY <2>1, <2>4
<1> HIDE DEF Good
<1>6. \A i \in 0..n : i \in Good
  BY <1>1, <1>4, <1>5, Induction
<1>7. m[n] = k[n]
  BY <1>1, <1>6 DEF Good
<1>8. n + 1 \in 1..(n + 1) /\ (n + 1) - 1 = n
  BY <1>1
<1>9. m[n + 1] = IF x \in S THEN m[n] ELSE Append(m[n], x)
  BY <1>1, <1>3, <1>8
<1>10. m[n + 1] = IF x \in S THEN k[n] ELSE Append(k[n], x)
  BY <1>7, <1>9, Zenon
<1>11. Without(t, S) = m[n + 1] /\ Without(s, S) = k[n]
  BY <1>1 DEF Without, m, k, n
<1> QED
  BY <1>10, <1>11, Zenon DEF t

(* To filter twice is to filter once. *)
LEMMA WithoutTwice ==
    ASSUME NEW T, NEW s \in Seq(T), NEW A, NEW B
    PROVE  Without(Without(s, A), B) = Without(s, A \cup B)
<1> DEFINE n == Len(s)
           a == Kept(s, A)
           c == Kept(s, A \cup B)
<1>1. n \in Nat /\ \A i \in 1..n : s[i] \in T
  OBVIOUS
<1>2. /\ \A i \in 0..n : a[i] \in Seq(T)
      /\ a[0] = << >>
      /\ \A i \in 1..n : a[i] = IF s[i] \in A THEN a[i - 1] ELSE Append(a[i - 1], s[i])
  BY KeptDef
<1>3. /\ c[0] = << >>
      /\ \A i \in 1..n : c[i] = IF s[i] \in A \cup B THEN c[i - 1] ELSE Append(c[i - 1], s[i])
  BY KeptDef
<1> HIDE DEF n, a, c
<1> DEFINE Good == {i \in 0..n : Without(a[i], B) = c[i]}
<1>4. 0 \in Good
  BY <1>1, <1>2, <1>3, WithoutEmpty
<1>5. ASSUME NEW i \in 0..(n - 1), i \in Good PROVE i + 1 \in Good
  <2> DEFINE x == s[i + 1]
             p == a[i]
  <2>1. i + 1 \in 1..n /\ i \in 0..n /\ i + 1 \in 0..n /\ (i + 1) - 1 = i
    BY <1>1
  <2>2. x \in T /\ p \in Seq(T) /\ Without(p, B) = c[i]
    BY <1>1, <1>2, <1>5, <2>1
  <2>3. a[i + 1] = IF x \in A THEN p ELSE Append(p, x)
    BY <1>2, <2>1
  <2>4. c[i + 1] = IF x \in A \cup B THEN c[i] ELSE Append(c[i], x)
    BY <1>3, <2>1
  <2> HIDE DEF x, p
  <2>5. Without(Append(p, x), B) = IF x \in B THEN Without(p, B) ELSE Append(Without(p, B), x)
    BY <2>2, WithoutAppend
  <2>6. Without(a[i + 1], B) = c[i + 1]
    BY <2>2, <2>3, <2>4, <2>5, Zenon
  <2> QED
    BY <2>1, <2>6
<1> HIDE DEF Good
<1>6. \A i \in 0..n : i \in Good
  BY <1>1, <1>4, <1>5, Induction
<1>7. Without(a[n], B) = c[n]
  BY <1>1, <1>6 DEF Good
<1> QED
  BY <1>7 DEF Without, a, c, n

(* Nothing of S is left. *)
LEMMA WithoutLeaves ==
    ASSUME NEW T, NEW s \in Seq(T), NEW S, NEW j \in 1..Len(Without(s, S))
    PROVE  Without(s, S)[j] \in T \ S
<1> DEFINE n == Len(s)
           k == Kept(s, S)
<1>1. n \in Nat /\ \A i \in 1..n : s[i] \in T
  OBVIOUS
<1>2. /\ \A i \in 0..n : k[i] \in Seq(T)
      /\ k[0] = << >>
      /\ \A i \in 1..n : k[i] = IF s[i] \in S THEN k[i - 1] ELSE Append(k[i - 1], s[i])
  <2>1. k \in [0..n -> Seq(T)]
    BY KeptDef
  <2>2. \A i \in 1..n : k[i] = IF s[i] \in S THEN k[i - 1] ELSE Append(k[i - 1], s[i])
    BY KeptDef
  <2>3. k[0] = << >>
    BY KeptDef
  <2> HIDE DEF k, n
  <2> QED
    BY <2>1, <2>2, <2>3
<1> HIDE DEF n, k
<1> DEFINE Good == {i \in 0..n : k[i] \in Seq(T \ S)}
<1>3. 0 \in Good
  <2>1. << >> \in Seq(T \ S)
    OBVIOUS
  <2>2. k[0] \in Seq(T \ S)
    BY <1>2, <2>1, Zenon
  <2> QED
    BY <1>1, <2>2
<1>4. ASSUME NEW i \in 0..(n - 1), i \in Good PROVE i + 1 \in Good
  <2> DEFINE x == s[i + 1]
             p == k[i]
  <2>1. i + 1 \in 1..n /\ i + 1 \in 0..n /\ (i + 1) - 1 = i
    BY <1>1
  <2>2. x \in T /\ p \in Seq(T \ S)
    BY <1>1, <1>4, <2>1
  <2>3. k[i + 1] = IF x \in S THEN p ELSE Append(p, x)
    BY <1>2, <2>1
  <2> HIDE DEF x, p
  <2>4. x \notin S => Append(p, x) \in Seq(T \ S)
    BY <2>2
  <2>5. k[i + 1] \in Seq(T \ S)
    BY <2>2, <2>3, <2>4, Zenon
  <2> QED
    BY <2>1, <2>5
<1> HIDE DEF Good
<1>5. \A i \in 0..n : i \in Good
  BY <1>1, <1>3, <1>4, Induction
<1>6. k[n] \in Seq(T \ S)
  BY <1>1, <1>5 DEF Good
<1>7. Without(s, S) = k[n]
  BY DEF Without, k, n
<1> DEFINE w == Without(s, S)
<1>8. w \in Seq(T \ S) /\ j \in 1..Len(w)
  BY <1>6, <1>7
<1> HIDE DEF w
<1>9. w[j] \in T \ S
  BY <1>8
<1> QED
  BY <1>9 DEF w

(* What is filtered matters only in the elements there are. *)
LEMMA WithoutSame ==
    ASSUME NEW T, NEW s \in Seq(T), NEW A, NEW B, \A i \in 1..Len(s) : s[i] \in A <=> s[i] \in B
    PROVE  Without(s, A) = Without(s, B)
<1> DEFINE n == Len(s)
           a == Kept(s, A)
           b == Kept(s, B)
<1>1. n \in Nat /\ \A i \in 1..n : s[i] \in A <=> s[i] \in B
  OBVIOUS
<1>2. a[0] = << >> /\ \A i \in 1..n : a[i] = IF s[i] \in A THEN a[i - 1] ELSE Append(a[i - 1], s[i])
  BY KeptDef
<1>3. b[0] = << >> /\ \A i \in 1..n : b[i] = IF s[i] \in B THEN b[i - 1] ELSE Append(b[i - 1], s[i])
  BY KeptDef
<1> HIDE DEF n, a, b
<1> DEFINE Good == {i \in 0..n : a[i] = b[i]}
<1>4. 0 \in Good
  BY <1>1, <1>2, <1>3
<1>5. ASSUME NEW i \in 0..(n - 1), i \in Good PROVE i + 1 \in Good
  <2>1. i + 1 \in 1..n /\ i + 1 \in 0..n /\ (i + 1) - 1 = i /\ a[i] = b[i]
    BY <1>1, <1>5
  <2>2. s[i + 1] \in A <=> s[i + 1] \in B
    BY <1>1, <2>1
  <2>3. a[i + 1] = IF s[i + 1] \in A THEN a[i] ELSE Append(a[i], s[i + 1])
    BY <1>2, <2>1
  <2>4. b[i + 1] = IF s[i + 1] \in B THEN b[i] ELSE Append(b[i], s[i + 1])
    BY <1>3, <2>1
  <2>5. a[i + 1] = b[i + 1]
    <3>1. CASE s[i + 1] \in A
      BY <2>1, <2>2, <2>3, <2>4, <3>1
    <3>2. CASE s[i + 1] \notin A
      BY <2>1, <2>2, <2>3, <2>4, <3>2
    <3> QED
      BY <3>1, <3>2
  <2> QED
    BY <2>1, <2>5
<1> HIDE DEF Good
<1>6. \A i \in 0..n : i \in Good
  BY <1>1, <1>4, <1>5, Induction
<1>7. a[n] = b[n]
  BY <1>1, <1>6 DEF Good
<1> QED
  BY <1>7 DEF Without, a, b, n

(* The first element, if it is filtered. *)
LEMMA WithoutFirst ==
    ASSUME NEW T, NEW s \in Seq(T), NEW x \in T, NEW S, x \in S
    PROVE  Without(<<x>> \o s, S) = Without(s, S)
<1> DEFINE n == Len(s)
           e == <<x>>
           t == e \o s
           k == Kept(s, S)
           m == Kept(t, S)
<1>1. e \in Seq(T) /\ Len(e) = 1 /\ e[1] = x /\ n \in Nat
  OBVIOUS
<1> HIDE DEF e
<1>2. /\ t \in Seq(T) /\ Len(t) = 1 + n
      /\ \A i \in 1..(1 + n) : t[i] = IF i <= 1 THEN e[i] ELSE s[i - 1]
  <2>1. /\ t \in Seq(T) /\ Len(t) = Len(e) + Len(s)
        /\ \A i \in 1..(Len(e) + Len(s)) : t[i] = IF i <= Len(e) THEN e[i] ELSE s[i - Len(e)]
    BY <1>1, ConcatProperties
  <2> HIDE DEF t
  <2> QED
    BY <1>1, <2>1
<1>3. k[0] = << >> /\ \A i \in 1..n : k[i] = IF s[i] \in S THEN k[i - 1] ELSE Append(k[i - 1], s[i])
  BY KeptDef
<1> HIDE DEF t
<1>4. /\ m[0] = << >>
      /\ \A i \in 1..(1 + n) : m[i] = IF t[i] \in S THEN m[i - 1] ELSE Append(m[i - 1], t[i])
  BY <1>2, KeptDef
<1> HIDE DEF n, k, m
<1> DEFINE Good == {i \in 0..n : m[i + 1] = k[i]}
<1>5. 0 \in Good
  <2>1. 1 \in 1..(1 + n) /\ 1 - 1 = 0 /\ 0 + 1 = 1 /\ 0 \in 0..n
    BY <1>1
  <2>2. t[1] = x
    BY <1>1, <1>2, <2>1
  <2>3. m[1] = k[0]
    BY <1>3, <1>4, <2>1, <2>2
  <2> QED
    BY <2>1, <2>3
<1>6. ASSUME NEW i \in 0..(n - 1), i \in Good PROVE i + 1 \in Good
  <2>1. /\ i + 1 \in 1..n /\ i + 1 \in 0..n /\ (i + 1) - 1 = i /\ m[i + 1] = k[i]
        /\ i + 2 \in 1..(1 + n) /\ (i + 2) - 1 = i + 1 /\ (i + 1) + 1 = i + 2 /\ ~(i + 2 <= 1)
    BY <1>1, <1>6
  <2>2. t[i + 2] = s[i + 1]
    BY <1>2, <2>1
  <2>3. k[i + 1] = IF s[i + 1] \in S THEN k[i] ELSE Append(k[i], s[i + 1])
    BY <1>3, <2>1
  <2>4. m[i + 2] = IF s[i + 1] \in S THEN m[i + 1] ELSE Append(m[i + 1], s[i + 1])
    BY <1>4, <2>1, <2>2
  <2>5. m[i + 2] = k[i + 1]
    BY <2>1, <2>3, <2>4, Zenon
  <2> QED
    BY <2>1, <2>5
<1> HIDE DEF Good
<1>7. \A i \in 0..n : i \in Good
  BY <1>1, <1>5, <1>6, Induction
<1>8. m[n + 1] = k[n] /\ n + 1 = 1 + n
  BY <1>1, <1>7 DEF Good
<1>9. Without(t, S) = m[1 + n] /\ Without(s, S) = k[n]
  BY <1>2 DEF Without, m, k, n
<1> QED
  BY <1>8, <1>9 DEF t, e

(* The start of a sequence, one longer. *)
LEMMA LongerStart ==
    ASSUME NEW T, NEW s \in Seq(T), NEW i \in 0..(Len(s) - 1)
    PROVE  SubSeq(s, 1, i + 1) = Append(SubSeq(s, 1, i), s[i + 1])
<1> DEFINE n == Len(s)
           a == SubSeq(s, 1, i)
           b == SubSeq(s, 1, i + 1)
<1>1. n \in Nat /\ \A j \in 1..n : s[j] \in T
  OBVIOUS
<1> HIDE DEF n
<1>0. i \in 0..(n - 1)
  BY DEF n
<1>2. /\ i + 1 \in 1..n /\ i \in Int /\ 1 \in Int /\ i + 1 \in Int
      /\ (\A j \in 1..i : s[j] \in T) /\ \A j \in 1..(i + 1) : s[j] \in T
  BY <1>0, <1>1
<1>3. /\ a \in Seq(T) /\ Len(a) = (IF 1 <= i THEN i - 1 + 1 ELSE 0)
      /\ \A j \in 1..(i - 1 + 1) : a[j] = s[1 + j - 1]
  BY <1>2, SubSeqProperties
<1>4. /\ b \in Seq(T) /\ Len(b) = (IF 1 <= i + 1 THEN (i + 1) - 1 + 1 ELSE 0)
      /\ \A j \in 1..((i + 1) - 1 + 1) : b[j] = s[1 + j - 1]
  BY <1>2, SubSeqProperties
<1> HIDE DEF a, b
<1>5. Len(a) = i /\ Len(b) = i + 1
  BY <1>0, <1>1, <1>3, <1>4
<1>6. \A j \in 1..(i + 1) : b[j] = s[j]
  BY <1>0, <1>1, <1>4
<1>7. \A j \in 1..i : a[j] = s[j]
  BY <1>0, <1>1, <1>3
<1> DEFINE c == Append(a, s[i + 1])
<1>8. /\ c \in Seq(T) /\ Len(c) = i + 1 /\ c[i + 1] = s[i + 1] /\ \A j \in 1..i : c[j] = a[j]
  BY <1>2, <1>3, <1>5, AppendProperties
<1> HIDE DEF c
<1>9. \A j \in 1..(i + 1) : b[j] = c[j]
  BY <1>0, <1>1, <1>6, <1>7, <1>8
<1>10. b = c
  BY <1>4, <1>5, <1>8, <1>9, SeqEqual
<1> QED
  BY <1>10 DEF a, b, c

(* Nothing is filtered that is not there. *)
LEMMA WithoutNothing ==
    ASSUME NEW T, NEW s \in Seq(T), NEW S, \A i \in 1..Len(s) : s[i] \notin S
    PROVE  Without(s, S) = s
<1> DEFINE n == Len(s)
           k == Kept(s, S)
<1>1. n \in Nat /\ (\A i \in 1..n : s[i] \notin S) /\ SubSeq(s, 1, n) = s /\ SubSeq(s, 1, 0) = << >>
  BY SubSeqFull, SubSeqEmpty
<1>2. k[0] = << >> /\ \A i \in 1..n : k[i] = IF s[i] \in S THEN k[i - 1] ELSE Append(k[i - 1], s[i])
  BY KeptDef
<1>3. \A i \in 0..(n - 1) : SubSeq(s, 1, i + 1) = Append(SubSeq(s, 1, i), s[i + 1])
  BY LongerStart
<1> HIDE DEF n, k
<1> DEFINE Good == {i \in 0..n : k[i] = SubSeq(s, 1, i)}
<1>4. 0 \in Good
  <2>1. 0 \in 0..n /\ k[0] = SubSeq(s, 1, 0)
    BY <1>1, <1>2
  <2> QED
    BY <2>1
<1>5. ASSUME NEW i \in 0..(n - 1), i \in Good PROVE i + 1 \in Good
  <2>1. i + 1 \in 1..n /\ i + 1 \in 0..n /\ (i + 1) - 1 = i /\ k[i] = SubSeq(s, 1, i)
    BY <1>1, <1>5
  <2>2. k[i + 1] = Append(k[i], s[i + 1])
    BY <1>1, <1>2, <2>1
  <2>3. k[i + 1] = SubSeq(s, 1, i + 1)
    BY <1>3, <2>1, <2>2
  <2> QED
    BY <2>1, <2>3
<1> HIDE DEF Good
<1>6. \A i \in 0..n : i \in Good
  BY <1>1, <1>4, <1>5, Induction
<1>7. k[n] = s
  BY <1>1, <1>6 DEF Good
<1> QED
  BY <1>7 DEF Without, k, n
=============================================================================
