------------------------------- MODULE MCPaths -------------------------------
(* Paths over every graph of four nodes in which two nodes have at most one link, *)
(* of type LEADSTO in either direction or NEAR, one of those that differ by the   *)
(* names of c and d; over graphs of four nodes from a to b by way of c and d, any *)
(* of whose links may lack its inverse; and over four larger graphs.              *)
EXTENDS Paths, TLC

CONSTANTS a, b, c, d, e, f, nowhere, empty, void, then, prior, like

MCNodes == {a, b, c, d, e, f, nowhere}
MCArrows == {empty, void, then, prior, like}
MCInverse == (empty :> void) @@ (void :> empty) @@ (then :> prior) @@ (prior :> then) @@ (like :> like)

Order == <<a, b, c, d, e, f>>
Pairs == {<<i, j>> \in (1 .. 6) \X (1 .. 6) : i < j}

(* The graph with these options for i and j: "" no link, "+" i to j, "-" j to i,  *)
(* "~" near, "#" both i to j and near; without its inverse, ">" i to j stored at  *)
(* i, "<" j to i stored at j, "(" j to i stored at i, ")" i to j stored at j, "=" *)
(* near stored at i.                                                              *)
Opposite == [o \in {"", "+", "-", "~", "#", ">", "<", "(", ")", "="} |->
                CASE o = "+" -> "-" [] o = "-" -> "+" [] o = "<" -> ">" [] o = ")" -> "("
                  [] o \in {">", "(", "="} -> "" [] OTHER -> o]
GraphOf(opt) ==
    LET Opt(i, j) == IF i < j THEN {opt[<<i, j>>]}
                     ELSE IF opt[<<j, i>>] = "#" THEN {"-", "~"} ELSE {Opposite[opt[<<j, i>>]]}
        Links(i, os, arrow) == LET js == SetToSortSeq({j \in (1 .. 6) \ {i} : Opt(i, j) \cap os # {}}, <)
                               IN  [k \in DOMAIN js |-> [arr |-> arrow, dst |-> Order[js[k]]]]
        Index(n) == CHOOSE i \in 1 .. 6 : Order[i] = n
    IN  [n \in MCNodes |-> [st \in STTypes |->
            IF n = nowhere THEN <<>>
            ELSE CASE st = 1 -> <<EmptyLink>> \o Links(Index(n), {"+", "#", ">"}, then)
                   [] st = -1 -> Links(Index(n), {"-", "("}, prior)
                   [] st = 0 -> Links(Index(n), {"~", "#", "="}, like)
                   [] OTHER -> <<>>]]

Inner == {p \in Pairs : p[2] <= 4}
Widen(opt) == [p \in Pairs |-> IF p \in Inner THEN opt[p] ELSE ""]
(* a to b by way of c, then d, e or f; with d near e and f before c; with some *)
(* of the steps taken by two links.                                            *)
Fan == [p \in Pairs |-> IF p \in {<<1, 3>>, <<3, 4>>, <<3, 5>>, <<3, 6>>} THEN "+"
                        ELSE IF p \in {<<2, 4>>, <<2, 5>>, <<2, 6>>} THEN "~" ELSE ""]
Web == [Fan EXCEPT ![<<4, 5>>] = "~", ![<<3, 6>>] = "-"]
Double == [Fan EXCEPT ![<<1, 3>>] = "#", ![<<3, 4>>] = "#", ![<<2, 5>>] = "#"]
(* The waves of a and b meet first in f, at both ends of a loop over d. *)
Loop == [p \in Pairs |-> IF p \in {<<1, 4>>, <<4, 5>>, <<5, 6>>} THEN ">"
                         ELSE IF p \in {<<2, 3>>, <<3, 4>>, <<4, 6>>} THEN "(" ELSE ""]
(* Links of a, b, and of c and d. *)
OneWay == {opt \in [Inner -> {"", "+", "-", "~", ">", "<", "(", ")", "="}] :
              /\ opt[<<1, 2>>] = ""
              /\ opt[<<1, 3>>] \in {"+", ">"} /\ opt[<<1, 4>>] \in {"", "+", ">"}
              /\ opt[<<2, 3>>] \in {"", "-", "<", "("} /\ opt[<<2, 4>>] \in {"-", "<", "("}
              /\ opt[<<3, 4>>] \in {"", "+", ">", ")", "="}}
(* Of two graphs that c and d tell apart, the one with the lesser links of c. *)
Rank == [o \in {"", "+", "-", "~"} |-> CASE o = "" -> 0 [] o = "+" -> 1 [] o = "-" -> 2 [] OTHER -> 3]
Kept(opt) ==
    LET Less(p, q) == Rank[opt[p]] < Rank[opt[q]]
    IN  \/ Less(<<1, 3>>, <<1, 4>>)
        \/ opt[<<1, 3>>] = opt[<<1, 4>>] /\ Less(<<2, 3>>, <<2, 4>>)
        \/ opt[<<1, 3>>] = opt[<<1, 4>>] /\ opt[<<2, 3>>] = opt[<<2, 4>>] /\ opt[<<3, 4>>] # "-"
Small == {opt \in [Inner -> {"", "+", "-", "~"}] : Kept(opt)}
MCGraphs == {GraphOf(Widen(opt)) : opt \in Small \cup OneWay} \cup {GraphOf(g) : g \in {Fan, Web, Double, Loop}}

Ask(kind, starts, ends) ==
    [kind |-> kind, starts |-> starts, ends |-> ends, orientation |-> "fwd", sttypes |-> <<>>,
     arrows |-> {}, admit |-> MCNodes, depth |-> 4, limit |-> 100, mindepth |-> 0,
     sorted |-> FALSE, loaded |-> TRUE, stored |-> TRUE]
AB == Ask("paths", <<a>>, <<b>>)
MCQueries ==
    { [Ask("cone", <<a>>, <<>>) EXCEPT !.depth = 2, !.sorted = TRUE],
      [Ask("cone", <<a, b>>, <<>>) EXCEPT !.orientation = "both", !.admit = {a, b, c}, !.depth = 3],
      [Ask("cone", <<a>>, <<>>) EXCEPT !.sttypes = <<1, -1, 0>>, !.depth = 3, !.limit = 5],
      [Ask("nodes", <<a>>, <<>>) EXCEPT !.sttypes = <<1>>, !.depth = 3],
      [Ask("nodes", <<a>>, <<>>) EXCEPT !.sttypes = <<1>>, !.depth = 3, !.limit = 2],
      [Ask("links", <<a>>, <<>>) EXCEPT !.sttypes = <<1>>, !.depth = 2],
      [AB EXCEPT !.arrows = {then, prior, like}],
      [AB EXCEPT !.arrows = {then, like}],
      [AB EXCEPT !.sttypes = <<1>>, !.arrows = {then}, !.depth = 3],
      [AB EXCEPT !.mindepth = 1],
      [AB EXCEPT !.mindepth = 1, !.arrows = {then, prior, like}, !.ends = <<b, c>>],
      [AB EXCEPT !.loaded = FALSE] }
=============================================================================
