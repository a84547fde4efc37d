------------------------------ MODULE Filtering ------------------------------
(***************************************************************************)
(* The loops that copy a sequence and skip some of its elements: empty     *)
(* labels in internal/filter/engine.go, options in internal/dns.           *)
(***************************************************************************)
EXTENDS Integers, Sequences

(* The elements of s that are not in S, in their order: what the loop has  *)
(* copied after i rounds, and at its end.  A recursive function and not    *)
(* SelectSeq, of which the provers know nothing.                           *)
Kept(s, S) ==
    LET kept[i \in 0..Len(s)] ==
            IF i = 0 THEN << >>
            ELSE IF s[i] \in S THEN kept[i - 1] ELSE Append(kept[i - 1], s[i])
    IN  kept

Without(s, S) == Kept(s, S)[Len(s)]
=============================================================================
