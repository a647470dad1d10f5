------------------------------- MODULE MCNotes --------------------------------
(* Notes over three items: a word, a word in quotes, and two words of      *)
(* which the second is marked.  MCMarkedWord adds a word marked as a whole.*)
EXTENDS Notes, TLC

MCItems == {"a", "b", "c =a"}
MCMarkedWord == MCItems \cup {"=b"}
MCClean == [i \in MCMarkedWord |-> CASE i = "c =a" -> "c a" [] i = "=b" -> "b" [] OTHER -> i]
MCStorage == [i \in MCMarkedWord |-> IF i = "c =a" THEN <<2, 0>> ELSE <<1, 0>>]
MCMarks == [i \in MCMarkedWord |->
    CASE i = "c =a" -> <<<<"involves", "a">>>>
      [] i = "=b" -> <<<<"involves", "b">>>>
      [] OTHER -> <<>>]
MCArrows == {"empty", "void", "then", "from", "near", "involves", "invby"}
MCInverseOf == [x \in MCArrows |->
    CASE x = "empty" -> "void" [] x = "void" -> "empty" [] x = "then" -> "from"
      [] x = "from" -> "then" [] x = "near" -> "near"
      [] x = "involves" -> "invby" [] x = "invby" -> "involves"]
MCClosures == << << <<"then", "near">>, "involves">> >>
MCFragments == MCMarkedWord \cup {"any", "home", "_sequence_"}
MCHolding == [f \in MCFragments |-> {f}]
MCExpressions == {{"home"}, {"_sequence_"}}
=============================================================================
