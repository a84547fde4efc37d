--------------------------- MODULE MCUpstreamQuery ---------------------------
(***************************************************************************)
(* Names whose lengths lie on both sides of a byte of random bits, every   *)
(* sequence of up to three options, and block sizes from one byte to more  *)
(* than a message, one of them not positive.                               *)
(***************************************************************************)
EXTENDS UpstreamQuery

Name(n) == [i \in 1..n |-> IF i = n \/ i = 3 THEN [char |-> ".", upper |-> FALSE]
                           ELSE [char |-> "x", upper |-> i % 2 = 0]]

ClientOptions == {[code |-> "subnet", size |-> 7], [code |-> "cookie", size |-> 8],
                  [code |-> "padding", size |-> 5], [code |-> "padding", size |-> 0]}

Opts == {<< >>} \cup {<<[do |-> do, options |-> o]>> : do \in BOOLEAN, o \in SeqOf(ClientOptions, 3)}

MCMessages == [name : {Name(1), Name(8), Name(10)}, opt : Opts]

MCSettings == [dns0x20 : {TRUE}, dnssec : BOOLEAN, padding : {TRUE}, blockSize : {-1, 1, 16}]
               \cup [dns0x20 : BOOLEAN, dnssec : BOOLEAN, padding : {FALSE}, blockSize : {16}]

MCBytes == {[b \in 0..7 |-> 1], [b \in 0..7 |-> b % 2]}
=============================================================================
