---------------------------- MODULE UpstreamQuery ----------------------------
(***************************************************************************)
(* The query that goes upstream: prepareUpstreamQuery of                   *)
(* internal/dns/handler.go with Randomize0x20 and ApplyEDNS0Padding of     *)
(* internal/dns/opsec.go.  A message is its question name, a sequence of   *)
(* characters [char, upper] ("." has no case), and its OPT record, if it   *)
(* has one, with the DO bit and a sequence of options [code, size].        *)
(***************************************************************************)
EXTENDS Filtering, SequencesExt

CONSTANTS
    Messages,   \* client messages [name, opt], opt a sequence of at most one record
    Codes,      \* the codes of EDNS0 options
    Settings,   \* [dns0x20, dnssec, padding, blockSize] settings
    Bytes       \* what rand.Read may put into a byte: functions 0..7 -> {0, 1}

Option == [code : Codes, size : Nat]
Msg == [name : Seq([char : STRING, upper : BOOLEAN]),
        opt : Seq([do : BOOLEAN, options : Seq(Option)])]

WellFormed ==
    /\ Messages \subseteq Msg /\ \A m \in Messages : Len(m.opt) <= 1
    /\ {"subnet", "padding"} \subseteq Codes
    /\ Bytes \subseteq [0..7 -> {0, 1}]
    /\ Settings \subseteq [dns0x20 : BOOLEAN, dnssec : BOOLEAN, padding : BOOLEAN, blockSize : Int]

ASSUME UpstreamQueryAssumption == WellFormed

VARIABLES
    setting,    \* cfg, the configuration, never changes
    query,      \* r, the client's message, never changes
    outgoing,   \* req, its copy, while it is prepared
    step        \* the next step: "case", "edns", "pad", "done" or "panic"

prepareVars == <<setting, query, outgoing, step>>

-----------------------------------------------------------------------------
Letter(c) == c.char # "."

(* One random bit per character, in whole bytes. *)
randBytes(name) == (Len(name) + 7) \div 8

(* The bit read for character i: of byte i / 8, counted from zero. *)
ByteOf(i) == ((i - 1) \div 8) + 1
Bit(i, rand) == rand[ByteOf(i)][(i - 1) % 8]

Randomize0x20(name, rand) ==
    [i \in DOMAIN name |-> IF Letter(name[i]) THEN [name[i] EXCEPT !.upper = Bit(i, rand) = 1]
                           ELSE name[i]]

(* The options with other codes, in their order. *)
Coded(codes) == {o \in Option : o.code \in codes}
WithoutCodes(options, codes) == Without(options, Coded(codes))

(* Mutant: only the first option is looked at. *)
MutantStripFirst(options) ==
    IF options # << >> /\ Head(options).code = "subnet" THEN Tail(options) ELSE options

StripSubnet(options) == WithoutCodes(options, {"subnet"})

SetEdns0(do) == <<[do |-> do, options |-> << >>]>>

(* Msg.Len: header and question, then the OPT record. *)
Size(o) == 4 + o.size
OptionBytes(options) ==
    LET sum[i \in 0..Len(options)] == IF i = 0 THEN 0 ELSE sum[i - 1] + Size(options[i])
    IN  sum[Len(options)]
MsgLen(m) == 12 + Len(m.name) + 1 + 4 + (IF m.opt = << >> THEN 0 ELSE 11 + OptionBytes(m.opt[1].options))

BlockSize == IF setting.blockSize <= 0 THEN 128 ELSE setting.blockSize

-----------------------------------------------------------------------------
PrepareInit ==
    /\ setting \in Settings
    /\ query \in Messages
    /\ outgoing = query
    /\ step = "case"

(* 1. 0x20 on the copy; to read past the random bytes would be a panic. *)
RandomizeCase ==
    /\ step = "case"
    /\ \E rand \in [1..randBytes(query.name) -> Bytes] :
          IF ~setting.dns0x20 THEN outgoing' = outgoing /\ step' = "edns"
          ELSE IF \E i \in DOMAIN query.name : Letter(query.name[i]) /\ ByteOf(i) \notin DOMAIN rand
          THEN outgoing' = outgoing /\ step' = "panic"
          ELSE outgoing' = [outgoing EXCEPT !.name = Randomize0x20(@, rand)] /\ step' = "edns"
    /\ UNCHANGED <<setting, query>>

(* 2. and 3. The client subnet goes, the DO bit comes; without an OPT      *)
(* record one is added if it is needed.                                    *)
PrepareEdns ==
    /\ step = "edns" /\ step' = "pad"
    /\ outgoing' = [outgoing EXCEPT !.opt =
          IF @ # << >>
          THEN <<[do |-> @[1].do \/ setting.dnssec, options |-> StripSubnet(@[1].options)]>>
          ELSE IF setting.dnssec \/ setting.padding THEN SetEdns0(setting.dnssec) ELSE @]
    /\ UNCHANGED <<setting, query>>

(* The copy with one padding option of that size as its last. *)
WithPadding(m, size) ==
    LET others == WithoutCodes(m.opt[1].options, {"padding"})
    IN  [m EXCEPT !.opt[1].options = Append(others, [code |-> "padding", size |-> size])]

(* Mutant: the length is measured before the option is there. *)
MutantPadSize(m) ==
    LET rem == (MsgLen(WithPadding(m, 0)) - 4) % BlockSize IN IF rem = 0 THEN 0 ELSE BlockSize - rem

(* The size that fills the last block. *)
PadSize(m) ==
    LET rem == MsgLen(WithPadding(m, 0)) % BlockSize IN IF rem = 0 THEN 0 ELSE BlockSize - rem

(* 4. ApplyEDNS0Padding; there is an OPT record by now. *)
ApplyPadding ==
    /\ step = "pad" /\ step' = "done"
    /\ outgoing' = IF setting.padding THEN WithPadding(outgoing, PadSize(outgoing)) ELSE outgoing
    /\ UNCHANGED <<setting, query>>

PrepareNext == RandomizeCase \/ PrepareEdns \/ ApplyPadding

PrepareSpec == PrepareInit /\ [][PrepareNext]_prepareVars

-----------------------------------------------------------------------------
Options(m) == IF m.opt = << >> THEN << >> ELSE m.opt[1].options
Done == step = "done"

(* The upstream is asked what the client asked, without saying who asks:   *)
(* no client subnet goes out, wherever and however often it was among the  *)
(* options, and every other option does, in its order, with DO kept or     *)
(* added; of the name only letters change, and only their case, for a name *)
(* of any length.                                                          *)
OnlySubnetLost ==
    /\ step # "panic"
    /\ DOMAIN outgoing.name = DOMAIN query.name
    /\ \A i \in DOMAIN query.name :
          /\ outgoing.name[i].char = query.name[i].char
          /\ Letter(query.name[i]) \/ outgoing.name[i] = query.name[i]
    /\ Done =>
          /\ \A i \in DOMAIN Options(outgoing) : Options(outgoing)[i].code # "subnet"
          /\ WithoutCodes(Options(outgoing), {"padding"})
                = WithoutCodes(Options(query), {"subnet", "padding"})
          /\ (\E i \in DOMAIN outgoing.opt : outgoing.opt[i].do)
                <=> (setting.dnssec \/ \E i \in DOMAIN query.opt : query.opt[i].do)

(* With padding, what goes on the wire is a whole number of blocks, the    *)
(* option's own four bytes included, with one padding option whatever the  *)
(* client had, and not a block more than needed.                           *)
PaddedToBlock ==
    Done /\ setting.padding =>
        /\ MsgLen(outgoing) % BlockSize = 0
        /\ \E i \in DOMAIN Options(outgoing) :
              {i} = {j \in DOMAIN Options(outgoing) : Options(outgoing)[j].code = "padding"}
        /\ MsgLen(outgoing) - MsgLen(WithPadding(outgoing, 0)) < BlockSize
=============================================================================
