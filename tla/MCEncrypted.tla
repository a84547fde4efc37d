----------------------------- MODULE MCEncrypted -----------------------------
(***************************************************************************)
(* Two addresses of the provider and one of another.  The setups are those *)
(* of the default configuration (own addresses, then general ones), a      *)
(* well-known provider, a host given by its address, one with only general *)
(* addresses and one nothing is known about, for both protocols.           *)
(***************************************************************************)
EXTENDS Encrypted

CONSTANTS q1, q2

MCQueries == {q1, q2}
MCOwn == {"own1", "own2"}

Setup(kind, hostIP, mapped, wellKnown, custom, selfResolving) ==
    [kind |-> kind, hostIP |-> hostIP, mapped |-> mapped, wellKnown |-> wellKnown,
     custom |-> custom, selfResolving |-> selfResolving]

Default(kind) == Setup(kind, << >>, <<"own1", "own2">>, <<"own1">>, <<"other">>, TRUE)

MCSetups == UNION {
    {Default(kind),
     Setup(kind, << >>, << >>, <<"own1", "own2">>, << >>, TRUE),
     Setup(kind, <<"own1">>, << >>, << >>, <<"other", "own1">>, FALSE),
     Setup(kind, << >>, << >>, << >>, <<"other", "own1">>, TRUE),
     Setup(kind, << >>, << >>, << >>, << >>, TRUE),
     Setup(kind, << >>, << >>, << >>, << >>, FALSE)} : kind \in {"doh", "dot"}}

DefaultDoH == {Default("doh")}

MCNets ==
    {[own1 |-> a, own2 |-> b, other |-> c] :
        a \in {"answers", "silent", "stalls"}, b \in {"refuses", "errs"},
        c \in {"answers", "refuses"}}
    \cup {[own1 |-> "answers", own2 |-> "answers", other |-> "silent"]}
=============================================================================
