--------------------------- MODULE QueryLogProofs ----------------------------
(***************************************************************************)
(* Proofs about QueryLog, for a ring of any size, any number of pushers    *)
(* and any interleaving of their two steps with the slots a GetRecent      *)
(* reads.  The inductive invariant is Inv below: a slot only ever holds    *)
(* tickets that belong to it, the read has visited each slot at most once, *)
(* and an undisturbed read has collected the tickets below its cursor.     *)
(***************************************************************************)
EXTENDS QueryLog, Lemmas, SequenceTheorems, TLAPS

-----------------------------------------------------------------------------
LEMMA SizeFact == Size \in Nat \ {0}
    BY LogAssumption DEF Size

LEMMA SlotFacts ==
    ASSUME NEW t \in Int
    PROVE  /\ SlotOf(t) \in Slots
           /\ SlotOf(t + Size) = SlotOf(t)
           /\ \A u \in Int : SlotOf(t) = SlotOf(u) /\ t < u => t + Size <= u
    BY SizeFact, ModRange, ModShift, ModApart DEF SlotOf, Slots

(* Two turns of one read look at different slots. *)
LEMMA TurnsApart ==
    ASSUME NEW cur \in Nat, NEW i \in Nat, NEW k \in Int, 0 <= k, k < i, i < Size
    PROVE  SlotOf(cur + Size - i) # SlotOf(cur + Size - k)
<1> DEFINE x == cur + Size - i
           y == cur + Size - k
<1>1. x \in Int /\ y \in Int /\ x < y /\ y < x + Size
  BY SizeFact
<1> HIDE DEF x, y
<1>2. SlotOf(x) # SlotOf(y)
  BY <1>1, SlotFacts, SizeFact
<1> QED
  BY <1>2 DEF x, y

-----------------------------------------------------------------------------
(* Every ticket has been handed out, and stands in the slot it belongs to. *)
TicketsInPlace ==
    /\ \A s \in Slots : buffer[s] # 0 => buffer[s] \in 1..cursor /\ SlotOf(buffer[s]) = s
    /\ \A p \in Pushers : pushing[p] \in 0..cursor

(* The read is at turn i of at most limit, and each of its entries is of   *)
(* the slot of an earlier turn.                                            *)
ReadInPlace ==
    /\ reader.i <= reader.limit
    /\ reader.cur <= cursor
    /\ \A j \in 1..Len(reader.entries) :
          \E i \in 0..(reader.i - 1) :
              SlotOf(reader.entries[j]) = SlotOf(reader.cur + Size - i)

(* While an undisturbed read goes on nothing is pushed, and it has         *)
(* collected the tickets below its cursor.                                 *)
Collected(n, cur) == IF n < cur THEN n ELSE cur

ReadUndisturbed ==
    reader.quiet =>
        /\ reader.i < reader.limit =>
              reader.cur = cursor /\ \A p \in Pushers : pushing[p] = 0
        /\ ~lapped => /\ Len(reader.entries) = Collected(reader.i, reader.cur)
                      /\ \A j \in 1..Len(reader.entries) :
                            reader.entries[j] = reader.cur + 1 - j

Inv ==
    /\ TypeOK
    /\ TicketsInPlace
    /\ ReadInPlace
    /\ NoDuplicates
    /\ RecentComplete
    /\ ReadUndisturbed

LEMMA InvInit == Init => Inv
<1> SUFFICES ASSUME Init PROVE Inv
  OBVIOUS
<1>1. TypeOK
  BY SizeFact DEF Init, TypeOK, Slots
<1>2. TicketsInPlace
  BY DEF Init, TicketsInPlace
<1>3. ReadInPlace /\ NoDuplicates /\ ReadUndisturbed
  BY DEF Init, ReadInPlace, NoDuplicates, ReadUndisturbed, Collected
<1>4. RecentComplete
  BY DEF Init, RecentComplete
<1> QED
  BY <1>1, <1>2, <1>3, <1>4 DEF Inv

LEMMA ClaimStep ==
    ASSUME Inv, NEW p \in Pushers, Claim(p)
    PROVE  Inv'
<1> USE DEF Inv
<1>1. cursor \in Nat /\ cursor' = cursor + 1 /\ buffer' = buffer /\ lapped' = lapped
  BY DEF TypeOK, Claim
<1>2. /\ pushing[p] = 0
      /\ \A q \in Pushers : pushing'[q] = IF q = p THEN cursor + 1 ELSE pushing[q]
  BY DEF TypeOK, Claim
<1>3. /\ reader'.limit = reader.limit /\ reader'.i = reader.i
      /\ reader'.cur = reader.cur /\ reader'.entries = reader.entries
      /\ reader'.quiet => reader.quiet /\ ~(reader.i < reader.limit)
  BY DEF TypeOK, Claim
<1>4. TypeOK'
  <2>1. pushing' \in [Pushers -> Nat]
    BY <1>1 DEF Claim, TypeOK
  <2>2. reader' \in [limit : 0..Size, cur : Nat, i : 0..Size, entries : Seq(Nat), quiet : BOOLEAN]
    BY DEF Claim, TypeOK
  <2> QED
    BY <1>1, <2>1, <2>2 DEF TypeOK
<1>5. TicketsInPlace'
  BY <1>1, <1>2 DEF TicketsInPlace, TypeOK
<1>6. ReadInPlace'
  BY <1>1, <1>3 DEF ReadInPlace, TypeOK
<1>7. NoDuplicates'
  BY <1>1, <1>3 DEF NoDuplicates, TypeOK
<1>8. RecentComplete'
  <2> SUFFICES ASSUME ~lapped', NEW t \in 1..cursor', t > cursor' - Size
               PROVE  buffer'[SlotOf(t)] = t \/ \E q \in Pushers : pushing'[q] = t
    BY DEF RecentComplete
  <2>1. CASE t = cursor + 1
    BY <1>1, <1>2, <2>1
  <2>2. CASE t # cursor + 1
    <3>1. t \in 1..cursor /\ t > cursor - Size /\ t # 0
      BY <1>1, <2>2, SizeFact
    <3>2. buffer[SlotOf(t)] = t \/ \E q \in Pushers : pushing[q] = t
      BY <1>1, <3>1 DEF RecentComplete
    <3> QED
      BY <1>1, <1>2, <3>1, <3>2
  <2> QED
    BY <2>1, <2>2
<1>9. ReadUndisturbed'
  BY <1>1, <1>3 DEF ReadUndisturbed, TypeOK
<1> QED
  BY <1>4, <1>5, <1>6, <1>7, <1>8, <1>9

LEMMA StoreStep ==
    ASSUME Inv, NEW p \in Pushers, Store(p)
    PROVE  Inv'
<1> DEFINE t0 == pushing[p]
<1> USE DEF Inv
<1>1. /\ t0 \in 1..cursor /\ cursor \in Nat /\ SlotOf(t0) \in Slots
      /\ cursor' = cursor /\ reader' = reader
  BY SlotFacts DEF TypeOK, TicketsInPlace, Store
<1>2. \A s \in Slots : buffer'[s] = IF s = SlotOf(t0) THEN t0 ELSE buffer[s]
  BY DEF TypeOK, Store
<1>3. \A q \in Pushers : pushing'[q] = IF q = p THEN 0 ELSE pushing[q]
  BY DEF TypeOK, Store
<1>4. lapped' = (lapped \/ cursor >= t0 + Size)
  BY DEF Store
<1>5. TypeOK'
  <2>1. buffer' \in [Slots -> Nat]
    BY <1>1 DEF Store, TypeOK
  <2>2. pushing' \in [Pushers -> Nat]
    BY DEF Store, TypeOK
  <2>3. lapped' \in BOOLEAN
    BY <1>4
  <2> QED
    BY <1>1, <2>1, <2>2, <2>3 DEF TypeOK
<1> HIDE DEF t0
<1>6. TicketsInPlace'
  <2>1. \A q \in Pushers : pushing'[q] \in 0..cursor'
    BY <1>1, <1>3 DEF TicketsInPlace
  <2>2. ASSUME NEW s \in Slots, buffer'[s] # 0
        PROVE  buffer'[s] \in 1..cursor' /\ SlotOf(buffer'[s]) = s
    BY <1>1, <1>2, <2>2 DEF TicketsInPlace
  <2> QED
    BY <2>1, <2>2 DEF TicketsInPlace
<1>7. ReadInPlace' /\ NoDuplicates'
  BY <1>1 DEF ReadInPlace, NoDuplicates
<1>8. RecentComplete'
  <2> SUFFICES ASSUME ~lapped', NEW t \in 1..cursor, t > cursor - Size
               PROVE  buffer'[SlotOf(t)] = t \/ \E q \in Pushers : pushing'[q] = t
    BY <1>1 DEF RecentComplete
  <2>1. ~lapped /\ cursor < t0 + Size /\ SlotOf(t) \in Slots
    <3>1. ~lapped /\ ~(cursor >= t0 + Size)
      BY <1>4, Zenon
    <3>2. t \in Int /\ SlotOf(t) \in Slots
      BY SlotFacts
    <3> QED
      BY <1>1, <3>1, <3>2, SizeFact
  <2>2. CASE t = t0
    BY <1>1, <1>2, <2>2
  <2>3. CASE t # t0
    <3>1. SlotOf(t) # SlotOf(t0)
      <4>1. CASE t < t0
        BY <1>1, <4>1, SlotFacts, SizeFact
      <4>2. CASE t0 < t
        BY <1>1, <2>1, <4>2, SlotFacts, SizeFact
      <4> QED
        BY <1>1, <2>3, <4>1, <4>2
    <3>2. buffer[SlotOf(t)] = t \/ \E q \in Pushers : pushing[q] = t
      BY <2>1 DEF RecentComplete
    <3> QED
      BY <1>2, <1>3, <2>1, <2>3, <3>1, <3>2 DEF t0
  <2> QED
    BY <2>2, <2>3
<1>9. ReadUndisturbed'
  <2>1. reader.quiet => ~(reader.i < reader.limit)
    BY <1>1 DEF ReadUndisturbed, t0
  <2> QED
    BY <1>1, <1>4, <2>1 DEF ReadUndisturbed
<1> QED
  BY <1>5, <1>6, <1>7, <1>8, <1>9

LEMMA GetRecentStep ==
    ASSUME Inv, NEW limit \in Limits, GetRecent(limit)
    PROVE  Inv'
<1> USE DEF Inv
<1>1. UNCHANGED <<cursor, buffer, pushing, lapped>> /\ limit \in Int
  BY LogAssumption DEF GetRecent
<1>2. /\ reader'.limit \in 0..Size /\ reader'.i = 0 /\ reader'.cur = cursor
      /\ reader'.entries = << >> /\ reader'.quiet = (\A p \in Pushers : pushing[p] = 0)
  BY <1>1, SizeFact DEF GetRecent
<1>3. TypeOK'
  BY <1>1, <1>2, SizeFact DEF TypeOK, GetRecent
<1>4. TicketsInPlace' /\ RecentComplete'
  BY <1>1 DEF TicketsInPlace, RecentComplete
<1>5. ReadInPlace' /\ NoDuplicates'
  BY <1>1, <1>2 DEF ReadInPlace, NoDuplicates, TypeOK
<1>6. ReadUndisturbed'
  <2>1. Collected(0, cursor) = 0 /\ Len(<< >>) = 0
    BY DEF Collected, TypeOK
  <2>2. reader'.quiet => reader'.cur = cursor' /\ \A p \in Pushers : pushing'[p] = 0
    BY <1>1, <1>2, Zenon
  <2> QED
    <3>1. /\ Len(reader'.entries) = Collected(reader'.i, reader'.cur)
          /\ \A j \in 1..Len(reader'.entries) : reader'.entries[j] = reader'.cur + 1 - j
      BY <1>2, <2>1
    <3> QED
      BY <2>2, <3>1, Zenon DEF ReadUndisturbed
<1> QED
  BY <1>3, <1>4, <1>5, <1>6

LEMMA ReadSlotStep ==
    ASSUME Inv, ReadSlot
    PROVE  Inv'
<1> DEFINE e == reader.entries
           slot == SlotOf(reader.cur + Size - reader.i)
           ptr == buffer[slot]
<1> USE DEF Inv
<1>1. /\ UNCHANGED <<cursor, buffer, pushing, lapped>>
      /\ cursor \in Nat /\ reader.cur \in Nat /\ reader.i \in Nat /\ reader.limit \in 0..Size
      /\ reader.i < reader.limit /\ reader.cur <= cursor /\ e \in Seq(Nat)
  BY SizeFact DEF ReadSlot, TypeOK, ReadInPlace
<1>2. /\ reader'.limit = reader.limit /\ reader'.cur = reader.cur /\ reader'.quiet = reader.quiet
      /\ reader'.i = reader.i + 1
      /\ reader'.entries = IF ptr # 0 THEN Append(e, ptr) ELSE e
  BY DEF ReadSlot, TypeOK
<1>3. /\ slot \in Slots /\ ptr \in Nat
      /\ ptr # 0 => ptr \in 1..cursor /\ SlotOf(ptr) = slot
  <2>1. reader.cur + Size - reader.i \in Int
    BY <1>1, SizeFact
  <2>2. slot \in Slots
    BY <2>1, SlotFacts
  <2> QED
    BY <2>2 DEF TypeOK, TicketsInPlace
<1> HIDE DEF ptr
<1>4. TypeOK'
  <2>1. reader'.entries \in Seq(Nat)
    BY <1>1, <1>2, <1>3
  <2>2. reader'.i \in 0..Size
    BY <1>1, <1>2, SizeFact
  <2>3. reader' \in [limit : 0..Size, cur : Nat, i : 0..Size, entries : Seq(Nat), quiet : BOOLEAN]
    BY <2>1, <2>2 DEF ReadSlot, TypeOK
  <2> QED
    BY <1>1, <2>3 DEF TypeOK
<1>5. TicketsInPlace' /\ RecentComplete'
  BY <1>1 DEF TicketsInPlace, RecentComplete
<1>6. \A j \in 1..Len(reader'.entries) :
          \/ j \in 1..Len(e) /\ reader'.entries[j] = e[j]
          \/ ptr # 0 /\ j = Len(e) + 1 /\ reader'.entries[j] = ptr
  <2>1. \A s \in Seq(Nat), x \in Nat : \A j \in 1..Len(Append(s, x)) :
            \/ j \in 1..Len(s) /\ Append(s, x)[j] = s[j]
            \/ j = Len(s) + 1 /\ Append(s, x)[j] = x
    BY AppendProperties
  <2>2. e \in Seq(Nat) /\ ptr \in Nat
    BY <1>1, <1>3
  <2>3. CASE ptr = 0
    <3>1. reader'.entries = e
      BY <1>2, <2>3
    <3> QED
      BY <3>1
  <2>4. CASE ptr # 0
    <3>1. reader'.entries = Append(e, ptr)
      BY <1>2, <2>4
    <3> HIDE DEF e, Inv
    <3> QED
      BY <3>1, <2>1, <2>2, <2>4, Zenon
  <2> QED
    BY <2>3, <2>4
<1>7. ReadInPlace'
  <2>1. ASSUME NEW j \in 1..Len(reader'.entries)
        PROVE  \E i \in 0..reader.i : SlotOf(reader'.entries[j]) = SlotOf(reader.cur + Size - i)
    <3>1. CASE j \in 1..Len(e) /\ reader'.entries[j] = e[j]
      <4>1. PICK i \in 0..(reader.i - 1) : SlotOf(e[j]) = SlotOf(reader.cur + Size - i)
        BY <3>1 DEF ReadInPlace
      <4>2. i \in 0..reader.i
        BY <1>1
      <4> QED
        BY <3>1, <4>1, <4>2
    <3>2. CASE ptr # 0 /\ j = Len(e) + 1 /\ reader'.entries[j] = ptr
      BY <1>1, <1>3, <3>2
    <3> QED
      BY <1>6, <3>1, <3>2
  <2>2. reader'.i - 1 = reader.i
    BY <1>1, <1>2
  <2>3. reader'.i <= reader'.limit /\ reader'.cur <= cursor'
    BY <1>1, <1>2
  <2> QED
    BY <1>2, <2>1, <2>2, <2>3 DEF ReadInPlace
<1>8. ASSUME ptr # 0, NEW j \in 1..Len(e)
      PROVE  e[j] # ptr
  <2>1. PICK i \in 0..(reader.i - 1) : SlotOf(e[j]) = SlotOf(reader.cur + Size - i)
    BY DEF ReadInPlace
  <2>2. i \in Int /\ 0 <= i /\ i < reader.i /\ reader.i < Size
    BY <1>1, SizeFact
  <2>3. slot # SlotOf(reader.cur + Size - i)
    BY <1>1, <2>2, TurnsApart
  <2> QED
    BY <1>3, <1>8, <2>1, <2>3
<1>9. NoDuplicates'
  <2>1. \A j \in 1..Len(reader'.entries) : reader'.entries[j] \in 1..cursor'
    BY <1>1, <1>3, <1>6 DEF NoDuplicates
  <2>2. ASSUME NEW j \in 1..Len(reader'.entries), NEW k \in 1..Len(reader'.entries),
               reader'.entries[j] = reader'.entries[k]
        PROVE  j = k
    BY <1>6, <1>8, <2>2 DEF NoDuplicates
  <2> QED
    BY <2>1, <2>2 DEF NoDuplicates
<1>10. ReadUndisturbed'
  <2> SUFFICES ASSUME reader.quiet
               PROVE  /\ reader.cur = cursor /\ \A p \in Pushers : pushing[p] = 0
                      /\ ~lapped => /\ Len(reader'.entries) = Collected(reader.i + 1, reader.cur)
                                    /\ \A j \in 1..Len(reader'.entries) :
                                          reader'.entries[j] = reader.cur + 1 - j
    BY <1>1, <1>2 DEF ReadUndisturbed
  <2>1. reader.cur = cursor /\ \A p \in Pushers : pushing[p] = 0
    BY <1>1 DEF ReadUndisturbed
  <2>2. ASSUME ~lapped
        PROVE  /\ Len(reader'.entries) = Collected(reader.i + 1, reader.cur)
               /\ \A j \in 1..Len(reader'.entries) : reader'.entries[j] = reader.cur + 1 - j
    <3>1. /\ Len(e) = Collected(reader.i, reader.cur)
          /\ \A j \in 1..Len(e) : e[j] = reader.cur + 1 - j
      BY <2>2 DEF ReadUndisturbed
    <3>2. CASE reader.i < reader.cur
      <4> DEFINE t == reader.cur - reader.i
      <4>1. /\ t \in 1..cursor /\ t > cursor - Size
            /\ t + Size = reader.cur + Size - reader.i
        BY <1>1, <2>1, <3>2, SizeFact
      <4>2. slot = SlotOf(t)
        BY <4>1, SlotFacts
      <4>3. buffer[SlotOf(t)] = t
        <5>1. t # 0
          BY <4>1
        <5> HIDE DEF t
        <5> QED
          BY <2>1, <2>2, <4>1, <5>1 DEF RecentComplete
      <4>4. ptr = t /\ t # 0
        BY <4>1, <4>2, <4>3 DEF ptr
      <4>5. Len(e) = reader.i /\ Collected(reader.i + 1, reader.cur) = reader.i + 1
        BY <1>1, <3>1, <3>2 DEF Collected
      <4>6. Len(reader'.entries) = reader.i + 1
        BY <1>1, <1>2, <1>3, <4>4, <4>5
      <4>7. t = reader.cur + 1 - (Len(e) + 1)
        BY <1>1, <4>5
      <4> QED
        BY <1>6, <3>1, <4>4, <4>5, <4>6, <4>7
    <3>3. CASE ~(reader.i < reader.cur)
      <4> DEFINE y == reader.cur + Size - reader.i
      <4>1. y \in Int /\ \A x \in 1..cursor : x < y /\ y < x + Size
        BY <1>1, <2>1, <3>3, SizeFact
      <4>2. \A x \in 1..cursor : SlotOf(x) # SlotOf(y)
        <5> HIDE DEF y
        <5> SUFFICES ASSUME NEW x \in 1..cursor PROVE SlotOf(x) # SlotOf(y)
          OBVIOUS
        <5>1. x \in Int /\ x < y /\ y < x + Size
          BY <4>1
        <5> QED
          BY <4>1, <5>1, SlotFacts, SizeFact
      <4>3. ptr = 0
        BY <1>3, <4>2
      <4>4. Collected(reader.i + 1, reader.cur) = Collected(reader.i, reader.cur)
        BY <1>1, <3>3 DEF Collected
      <4> QED
        BY <1>2, <3>1, <4>3, <4>4
    <3> QED
      BY <3>2, <3>3
  <2> QED
    BY <2>1, <2>2
<1> QED
  BY <1>4, <1>5, <1>7, <1>9, <1>10

LEMMA InvStep == Inv /\ [Next]_vars => Inv'
<1> SUFFICES ASSUME Inv, [Next]_vars PROVE Inv'
  OBVIOUS
<1>1. CASE UNCHANGED vars
  BY <1>1 DEF vars, Inv, TypeOK, TicketsInPlace, ReadInPlace, NoDuplicates, RecentComplete,
              ReadUndisturbed
<1> QED
  BY <1>1, ClaimStep, StoreStep, GetRecentStep, ReadSlotStep DEF Next

-----------------------------------------------------------------------------
(* The invariant holds in every reachable state. *)
THEOREM Invariance == Spec => []Inv
  BY InvInit, InvStep, PTL DEF Spec

(* Every variable keeps its type: the slot a push or a read computes is    *)
(* always one of the ring, whatever size was configured.                   *)
THEOREM TypeCorrect == Spec => []TypeOK
<1>1. Inv => TypeOK
  BY DEF Inv
<1> QED
  BY <1>1, Invariance, PTL

(* GetRecent never returns an entry twice, nor one that was not pushed,    *)
(* for any number of concurrent pushes and any size of the ring.           *)
THEOREM ReadsHaveNoDuplicates == Spec => []NoDuplicates
<1>1. Inv => NoDuplicates
  BY DEF Inv
<1> QED
  BY <1>1, Invariance, PTL

(* Nothing recent is lost from the ring unless some push was overtaken by  *)
(* a whole lap.                                                            *)
THEOREM NothingRecentLost == Spec => []RecentComplete
<1>1. Inv => RecentComplete
  BY DEF Inv
<1> QED
  BY <1>1, Invariance, PTL

(* An undisturbed GetRecent returns exactly the most recent entries, in    *)
(* order, for every limit.                                                 *)
THEOREM UndisturbedReadsExact == Spec => []UndisturbedReadExact
<1>1. ASSUME Inv PROVE UndisturbedReadExact
  <2> SUFFICES ASSUME Finished, reader.quiet, ~lapped
               PROVE  reader.entries = MostRecent(reader.limit, reader.cur)
    BY DEF UndisturbedReadExact
  <2> DEFINE n == Collected(reader.limit, reader.cur)
  <2>1. /\ reader.entries \in Seq(Nat) /\ Len(reader.entries) = n
        /\ \A j \in 1..n : reader.entries[j] = reader.cur + 1 - j
    <3>1. reader.i = reader.limit /\ reader.entries \in Seq(Nat)
      BY <1>1 DEF Inv, TypeOK, Finished
    <3>2. /\ Len(reader.entries) = Collected(reader.i, reader.cur)
          /\ \A j \in 1..Len(reader.entries) : reader.entries[j] = reader.cur + 1 - j
      BY <1>1, Zenon DEF Inv, ReadUndisturbed
    <3> QED
      BY <3>1, <3>2
  <2>2. MostRecent(reader.limit, reader.cur) = [j \in 1..n |-> reader.cur + 1 - j]
    BY DEF MostRecent, Collected
  <2> HIDE DEF n
  <2> QED
    BY <2>1, <2>2, LenProperties
<1> QED
  BY <1>1, Invariance, PTL
=============================================================================
