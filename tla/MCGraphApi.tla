----------------------------- MODULE MCGraphApi ------------------------------
(* GraphApi with three texts, one chapter, one arrow and its inverse.       *)
EXTENDS GraphApi, TLC

CONSTANTS ta, tb, tc, c1, none, then, prev

MCTexts == {ta, tb, tc}
MCFold == [t \in MCTexts |-> t]
MCChapters == {c1}
MCSingle == {NoChap} \cup {Unit(c) : c \in MCChapters}
MCArrows == {then, prev}
MCEdgeArrows == {then}
MCInverse == then :> prev @@ prev :> then
=============================================================================
