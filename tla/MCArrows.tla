------------------------------- MODULE MCArrows -------------------------------
(* Configurations over two names that serve as short and as long names, with  *)
(* one mandatory pair; the eight pairs of AddMandatory differ in names only.  *)
EXTENDS Arrows

MCMandatory == <<[sect |-> "leadsto", fwd |-> <<"empty", "debug">>, bwd |-> <<"void", "unbug">>]>>
MCNames == {"a", "b", "empty", "debug", "void", "unbug"}
MCResembles == {<<n, n>> : n \in MCNames} \cup {<<"debug", "b">>, <<"unbug", "b">>}

T(k, n) == [kind |-> k, name |-> n]
Line(kinds, names) == [i \in DOMAIN names |-> T(kinds[i], names[i])]
Pair == <<"+", "(", "-", "(">>
Plain == <<"text", "(">>
Rule == <<"(", "+", "(", "=", "(">>
MCLines ==
    {Line(<<"-">>, <<n>>) : n \in {"leadsto", "similarity", "annotations", "closures", "other"}}
    \cup {Line(Pair, <<x, s, y, t>>) : x, y \in {"a", "b"}, s, t \in {"a", "b"}}
    \cup {Line(Pair, <<"a", "a", "debug", "empty">>), Line(Pair, <<"debug", "empty", "b", "a">>),
          Line(Pair, <<"void", "b", "b", "void">>),
          Line(Pair \o <<"-", "(">>, <<"a", "a", "b", "b", "debug", "empty">>),
          Line(<<"+", "(", "(">>, <<"b", "a", "b">>), Line(<<"+", "(">>, <<"a", "b">>),
          Line(Plain, <<"a", "a">>), Line(Plain, <<"a", "b">>), Line(Plain \o <<"-">>, <<"a", "b", "closures">>),
          Line(<<"(">>, <<"a">>), Line(<<"(">>, <<"void">>),
          Line(Rule, <<"a", "b", "empty", "void", "empty">>),
          Line(Rule \o <<"(">>, <<"void", "b", "debug", "b", "a", "void">>),
          Line(<<"(", "=", "(", "=", "(">>, <<"empty", "b", "void", "b", "empty">>),
          Line(<<"(", "=", "(", "+", "(", "=", "(">>, <<"empty", "b", "void", "b", "debug", "b", "empty">>)}
=============================================================================
