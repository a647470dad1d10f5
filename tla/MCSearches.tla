----------------------------- MODULE MCSearches ------------------------------
(* Commands of up to three words, and longer ones of chosen words, among  *)
(* them some with more starts than an array of four or of eight holds.     *)
EXTENDS Searches

MCKeywords == [k \in {"\\stats", "\\help", "\\in", "\\notes", "\\page", "\\limit", "\\min", "\\max", "\\arrow",
                      "\\context", "\\from", "\\paths", "\\to", "to", "\\seq", "\\new", "\\never", "\\on",
                      "\\finds", "\\remind"} |->
    CASE k = "\\in" -> "chapter" [] k = "\\limit" -> "range" [] k \in {"\\from", "\\paths"} -> "from"
      [] k \in {"\\to", "to"} -> "to" [] OTHER -> SubSeq(k, 2, Len(k))]
MCPlain == {"x", "yellow", "!z!", "any", "%%", "(1,2)", "1", "5", "<yellow|x>", "<x>", "\\dna"}
MCWords == DOMAIN MCKeywords \cup MCPlain \cup {"r", "", "(1", "2)"}
MCIsCommand == [w \in MCWords |-> w \in DOMAIN MCKeywords \ {"\\paths"}]
MCSomethingLike == [w \in MCWords |-> IF w \in DOMAIN MCKeywords THEN MCKeywords[w] ELSE "text"]
MCNumber == [w \in MCWords |-> CASE w = "1" -> 1 [] w = "5" -> 5 [] OTHER -> 0]
MCCommas == [w \in MCWords |-> IF w = "(1,2)" THEN <<"(1", "2)">> ELSE <<w>>]
MCLiteral == [w \in {"(1,2)"} |-> "n3"]
MCMatches == [w \in MCWords \ DOMAIN MCLiteral |->
    CASE w = "x" -> <<"n1", "n2">> [] w = "yellow" -> <<"n2">> [] OTHER -> <<>>]
MCDirac == [w \in {"<yellow|x>", "<x>"} |-> IF w = "<x>" THEN <<>> ELSE <<"x", "yellow", "">>]
MCShort == MCWords \ {"yellow"}
MCExact == {"!z!"}
MCConcepts == {"\\dna"}
MCConceptQuery == <<"any", "\\arrow", "r", "\\limit", "5">>
MCRemindQuery == <<"any", "\\in", "yellow", "\\context", "any", "\\limit", "5">>

First == (DOMAIN MCKeywords \cup MCPlain) \ {"\\new", "\\never"}
Few == {"x", "yellow", "\\from", "to", "\\to", "\\page", "1", "(1,2)"}
Tuples(S, n) == [1 .. n -> S]
Starts(n) == <<"\\from">> \o [i \in 1 .. n |-> "!z!"]
MCSentences == UNION {Tuples(First, n) : n \in 0 .. 3} \cup Tuples(Few, 4)
               \cup {<<"\\min", "1", "\\min", "1", "\\min", "1", "\\min", "1">> \o ws : ws \in Tuples(First, 1)}
               \cup {<<"\\from", "x", "to", "yellow", "\\limit", "1">>,
                     <<"\\limit", "1", "\\to", "yellow", "\\from", "x">>, <<"\\never", "x", "\\new">>, <<"x", "to", "yellow", "\\help">>,
                     <<"\\from", "x", "to", "yellow", "\\page", "!z!", "\\from", "x", "to", "(1,2)">>,
                     Starts(5) \o <<"to", "(1,2)", "\\page", "yellow", "\\from", "x", "x", "x">>}
               \cup {Starts(n) \o <<"to", "(1,2)">> \o ws : n \in 3 .. 5, ws \in Tuples(Few, 3)}
               \cup {Starts(5) \o <<"to", "(1,2)", "\\from", "x", "yellow">> \o ws : ws \in Tuples(Few, 2)}
=============================================================================
