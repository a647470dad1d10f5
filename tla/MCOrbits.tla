------------------------------ MODULE MCOrbits -------------------------------
(* The orbits and stories of one node in every graph of three nodes in      *)
(* which two nodes have at most one link, and in some of four and five.     *)
EXTENDS Orbits, TLC

CONSTANTS a, b, c, d, e, nowhere, empty, void, then, prior, next, last, like

MCNodes == {a, b, c, d, e, nowhere}
MCArrows == {empty, void, then, prior, next, last, like}
MCInverse == (empty :> void) @@ (void :> empty) @@ (then :> prior) @@ (prior :> then)
             @@ (next :> last) @@ (last :> next) @@ (like :> like)
MCSTtype == [x \in MCArrows |-> CASE x \in {empty, then, next} -> 1 [] x \in {void, prior, last} -> -1 [] x = like -> 0]

Order == <<a, b, c, d, e>>
Pairs == {<<i, j>> \in (1 .. 5) \X (1 .. 5) : i < j}
(* "+" and "*" are then and next from i to j, "-" then from j to i, "~" near. *)
GraphOf(opt) ==
    LET Arr(i, j) == IF i < j THEN (CASE opt[<<i, j>>] = "+" -> {then} [] opt[<<i, j>>] = "*" -> {next}
                                      [] opt[<<i, j>>] = "-" -> {prior} [] opt[<<i, j>>] = "~" -> {like} [] OTHER -> {})
                     ELSE IF i > j THEN {MCInverse[x] : x \in (CASE opt[<<j, i>>] = "+" -> {then}
                                      [] opt[<<j, i>>] = "*" -> {next}
                                      [] opt[<<j, i>>] = "-" -> {prior} [] opt[<<j, i>>] = "~" -> {like} [] OTHER -> {})}
                     ELSE {}
        Index(n) == CHOOSE i \in 1 .. 5 : Order[i] = n
        Links(i, st) == FlattenSeq([j \in 1 .. 5 |-> SetToSeq({[arr |-> x, dst |-> Order[j]] :
                                                       x \in {y \in Arr(i, j) : MCSTtype[y] = st}})])
    IN  [n \in MCNodes |-> [st \in STTypes |->
            IF n = nowhere THEN <<>> ELSE (IF st = 1 THEN <<EmptyLink>> ELSE <<>>) \o Links(Index(n), st)]]
Wide(opt) == [q \in Pairs |-> IF q \in DOMAIN opt THEN opt[q] ELSE ""]
Small == {q \in Pairs : q[2] <= 3}
Chain == {<<1, 2>>, <<2, 3>>, <<3, 4>>, <<2, 5>>}
MCGraphs == {GraphOf(Wide(opt)) : opt \in [Small -> {"", "+", "*", "-", "~"}]
                                          \cup [Chain -> {"+", "*", "~"}]}

Ask == [kind |-> "cone", starts |-> <<a>>, ends |-> <<>>, orientation |-> "both", sttypes |-> <<>>,
        arrows |-> {}, admit |-> MCNodes, depth |-> 3, limit |-> 30, mindepth |-> 0,
        sorted |-> TRUE, loaded |-> TRUE, stored |-> TRUE]
MCQueries == {Ask, [Ask EXCEPT !.limit = 2],
              [Ask EXCEPT !.orientation = "fwd", !.sttypes = <<1>>, !.depth = 5, !.limit = 5]}
=============================================================================
