----------------------------- MODULE MCListLoad ------------------------------
(***************************************************************************)
(* Rules that share a path, above and below each other; every decoration;  *)
(* tokens that consist of marks only; hosts lines, several names on a line *)
(* and comments; names of a host's own.                                    *)
(***************************************************************************)
EXTENDS ListLoad

ab   == <<"a", ".", "b">>
cab  == <<"c", ".", "a", ".", "b">>

MCLowerCase == [p \in {"A"} |-> "a"]
MCBad == {"x$y", "!", "::1"}
MCIgnoredHosts == {<<"localhost">>, <<"0.0.0.0">>}

MCTokens ==
    { ab, <<"A", ".", "b", ".">>, <<"||">> \o ab \o <<"^">>, ab \o <<".", "^">>, ab \o <<"^", ".">>,
      ab \o <<".", ".">>, <<"a", ".", ".", "b">>,
      <<"*", ".", "b">>, <<"*", ".">> \o cab, <<"||", ".">> \o ab, <<"*", ".">> \o ab \o <<".", ".">>,
      <<"*", ".", ".", "b">>, <<"*">>, <<"*", ".">>, <<".", ".", ".">>, <<"*", ".", ".", ".", ".">>,
      <<"^", "^">>, <<"localhost", ".">>, <<"*", ".", "localhost">>, <<"a", ".", "b", ".">> \o cab, <<"x$y", ".", "b">> }

MCLines ==
    {<<t>> : t \in MCTokens} \cup
    { << >>, <<<<"#">>, cab>>, <<<<"a", "#", ".", "b">>>>, <<ab, <<"#">>, cab>>,
      <<<<"0.0.0.0">>, <<"0.0.0.0">>, cab>>, <<<<"127.0.0.1">>, <<"localhost">>, ab>>, <<<<"127.0.0.1">>>>,
      <<<<"!">>, <<"c">>, ab>>, <<<<"10.0.0.1">>, cab, <<"a">>>> }

MCQueries ==
    { ab \o <<".">>, cab \o <<".">>, <<"A", ".", "b", ".">>, <<"b", ".">>, <<"a", ".">>, <<"c", ".", "b", ".">>,
      <<"a", ".">> \o cab \o <<".">>, <<"a", ".", "b", ".">> \o cab \o <<".">>, <<"localhost", ".">>, <<"a", ".", "localhost", ".">>, <<".">> }
=============================================================================
