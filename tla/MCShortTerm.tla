---------------------------- MODULE MCShortTerm ------------------------------
(* Two words, a pointer to a node whose text is one of them, a chapter.     *)
EXTENDS ShortTerm

MCWords == {"fox", "dog", "(1,2)", "%%"}
MCSkipped == {"%%"}
MCToken == [w \in MCWords \ MCSkipped |-> IF w = "(1,2)" THEN "fox" ELSE w]
MCChapters == {"", "zoo"}
MCChapterToken == [ch \in {"zoo"} |-> "Chapter:zoo"]
Lists(n) == UNION {[1 .. k -> MCWords] : k \in 0 .. n}
Plain == [Name : Lists(2), From : {<<>>}, To : {<<>>}, Context : {<<>>}, Chapter : {""}, Sequence : {FALSE}]
MCSearches ==
    Plain
    \cup [Name : {<<>>, <<"fox">>}, From : {<<>>}, To : {<<>>}, Context : {<<"dog">>}, Chapter : MCChapters,
          Sequence : BOOLEAN]
    \cup [Name : {<<>>}, From : {<<>>, <<"(1,2)">>}, To : {<<"dog">>}, Context : {<<>>}, Chapter : {"zoo"},
          Sequence : {FALSE}]
=============================================================================
