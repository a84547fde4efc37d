---------------------------- MODULE MCFilterEngine ---------------------------
(***************************************************************************)
(* Two remote lists, one of them with two versions, one local file, and    *)
(* three loads.  The rules overlap: a whitelisted domain is on every list, *)
(* wildcard rules cover each other, a domain leaves a list.                *)
(***************************************************************************)
EXTENDS FilterEngine

Rule(mark, labels) == [mark |-> mark, labels |-> labels]

ads == <<"ads", "com">>
good == <<"good", "ads", "com">>
deep == <<"x", "ads", "com">>
net == <<"t", "net">>

MCDomains == {ads, good, deep, net, <<"com">>, <<"y", "good", "ads", "com">>}

MCURLs == {"u1", "u2"}
MCFiles == {"f1"}
MCWhitelist == {Rule("*.", good), Rule("", <<"z", "net">>)}
MCBlacklist == {Rule("", deep), Rule(".", <<"">>)}
MCRegexHits == {<<"y", "good", "ads", "com">>, net}
MCFileRules == "f1" :> {Rule("", good), Rule("", <<"com">>)}
MCURLRules ==
    "u1" :> <<{Rule("*.", ads), Rule("", ads)}, {Rule("", ads), Rule("", good)}>>
    @@ "u2" :> <<{Rule("*.", good), Rule(".", <<"com">>)}>>
=============================================================================
