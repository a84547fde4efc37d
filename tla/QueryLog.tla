------------------------------- MODULE QueryLog ------------------------------
(***************************************************************************)
(* The in-memory query log, RingBuffer of internal/dns/opsec.go: an array  *)
(* of atomic pointers and an atomic cursor, no lock.  Push is two atomic   *)
(* operations, claiming a ticket from the cursor and storing the entry in  *)
(* the slot of the ticket; GetRecent loads the cursor and then one slot    *)
(* after the other.  Every handler goroutine may be between any two of     *)
(* them.  An entry is identified with the ticket claimed for it, 0 is nil. *)
(***************************************************************************)
EXTENDS Integers, Sequences

CONSTANTS
    CfgSize,   \* the size asked for
    Pushers,   \* handler goroutines
    Limits,    \* limits GetRecent is called with
    MaxPush    \* bound on the number of pushes

ASSUME LogAssumption ==
    /\ CfgSize \in Int
    /\ Limits \subseteq Int
    /\ MaxPush \in Nat

VARIABLES
    cursor,    \* the last ticket handed out
    buffer,    \* the slots
    pushing,   \* the ticket each pusher has claimed and not stored yet, 0 if none
    reader,    \* a GetRecent in progress, or the last one finished
    lapped     \* history: some entry was stored a whole lap after its claim

vars == <<cursor, buffer, pushing, reader, lapped>>

-----------------------------------------------------------------------------
(* NewRingBuffer *)
Size == IF CfgSize <= 0 THEN 1000 ELSE CfgSize
Slots == 0..(Size - 1)

SlotOf(ticket) == ticket % Size

Init ==
    /\ cursor = 0
    /\ buffer = [s \in Slots |-> 0]
    /\ pushing = [p \in Pushers |-> 0]
    /\ reader = [limit |-> 0, cur |-> 0, i |-> 0, entries |-> << >>, quiet |-> TRUE]
    /\ lapped = FALSE

(* Push, cursor.Add(1).  A read in progress is no longer undisturbed. *)
Claim(p) ==
    /\ pushing[p] = 0
    /\ cursor < MaxPush
    /\ cursor' = cursor + 1
    /\ pushing' = [pushing EXCEPT ![p] = cursor + 1]
    /\ reader' = IF reader.i < reader.limit THEN [reader EXCEPT !.quiet = FALSE] ELSE reader
    /\ UNCHANGED <<buffer, lapped>>

(* Mutant: the slot is that of the cursor as it is now, not of the claim. *)
MutantStoreAtCursor(p) ==
    /\ pushing[p] # 0
    /\ buffer' = [buffer EXCEPT ![SlotOf(cursor)] = pushing[p]]
    /\ pushing' = [pushing EXCEPT ![p] = 0]
    /\ lapped' = (lapped \/ cursor >= pushing[p] + Size)
    /\ UNCHANGED <<cursor, reader>>

(* Push, buffer[idx].Store(entry): whatever the slot holds is overwritten. *)
Store(p) ==
    /\ pushing[p] # 0
    /\ buffer' = [buffer EXCEPT ![SlotOf(pushing[p])] = pushing[p]]
    /\ pushing' = [pushing EXCEPT ![p] = 0]
    /\ lapped' = (lapped \/ cursor >= pushing[p] + Size)
    /\ UNCHANGED <<cursor, reader>>

(* Mutant: the limit is not cut to the size. *)
MutantNoLimit(limit) ==
    /\ reader.i = reader.limit
    /\ reader' = [limit |-> IF limit <= 0 THEN 0 ELSE limit, cur |-> cursor, i |-> 0,
                  entries |-> << >>, quiet |-> \A p \in Pushers : pushing[p] = 0]
    /\ UNCHANGED <<cursor, buffer, pushing, lapped>>

(* GetRecent up to the loop: the limit is cut to the size, the cursor read. *)
GetRecent(limit) ==
    /\ reader.i = reader.limit
    /\ reader' = [limit   |-> IF limit <= 0 THEN 0 ELSE IF limit > Size THEN Size ELSE limit,
                  cur     |-> cursor,
                  i       |-> 0,
                  entries |-> << >>,
                  quiet   |-> \A p \in Pushers : pushing[p] = 0]
    /\ UNCHANGED <<cursor, buffer, pushing, lapped>>

(* Mutant: the walk begins one slot too early. *)
MutantReadOffByOne ==
    /\ reader.i < reader.limit
    /\ LET ptr == buffer[SlotOf(reader.cur + Size - reader.i - 1)] IN
       reader' = [reader EXCEPT !.i = @ + 1,
                                !.entries = IF ptr # 0 THEN Append(@, ptr) ELSE @]
    /\ UNCHANGED <<cursor, buffer, pushing, lapped>>

(* GetRecent, one turn of the loop: backwards from the cursor, nil skipped. *)
ReadSlot ==
    /\ reader.i < reader.limit
    /\ LET ptr == buffer[SlotOf(reader.cur + Size - reader.i)] IN
       reader' = [reader EXCEPT !.i = @ + 1,
                                !.entries = IF ptr # 0 THEN Append(@, ptr) ELSE @]
    /\ UNCHANGED <<cursor, buffer, pushing, lapped>>

Next ==
    \/ \E p \in Pushers : Claim(p) \/ Store(p)
    \/ \E limit \in Limits : GetRecent(limit)
    \/ ReadSlot

Spec == Init /\ [][Next]_vars

-----------------------------------------------------------------------------
(* The type of every variable. *)
TypeOK ==
    /\ cursor \in Nat
    /\ buffer \in [Slots -> Nat]
    /\ pushing \in [Pushers -> Nat]
    /\ reader \in [limit : 0..Size, cur : Nat, i : 0..Size, entries : Seq(Nat), quiet : BOOLEAN]
    /\ lapped \in BOOLEAN

(* However pushes and the read interleave, GetRecent never returns the     *)
(* same log entry twice, and never an entry that nobody pushed.            *)
NoDuplicates ==
    LET e == reader.entries IN
    /\ \A i, j \in 1..Len(e) : e[i] = e[j] => i = j
    /\ \A i \in 1..Len(e) : e[i] \in 1..cursor

(* As long as no pusher was overtaken by a whole lap between its two       *)
(* steps, each of the last Size entries is in its slot or is still being   *)
(* pushed: nothing recent is lost or replaced by something older.          *)
RecentComplete ==
    ~lapped => \A t \in 1..cursor :
        t > cursor - Size => \/ buffer[SlotOf(t)] = t
                             \/ \E p \in Pushers : pushing[p] = t

Finished == reader.i = reader.limit

(* What GetRecent returns when it is to return the most recent entries,    *)
(* newest first, as many as asked for and as there are.                    *)
MostRecent(limit, cur) ==
    [j \in 1..(IF limit < cur THEN limit ELSE cur) |-> cur + 1 - j]

(* A GetRecent that no push was in flight at or began during returns       *)
(* exactly the most recent entries, unless an earlier push was lapped.     *)
UndisturbedReadExact ==
    Finished /\ reader.quiet /\ ~lapped =>
        reader.entries = MostRecent(reader.limit, reader.cur)
=============================================================================
