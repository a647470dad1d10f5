------------------------------ MODULE MCIngest -------------------------------
(* Ingest with two texts, two chapters and three files of up to two nodes. *)
EXTENDS Ingest, TLC

CONSTANTS dog, cat, c1, c2, none

MCTexts == {dog, cat}
MCFold == [t \in MCTexts |-> t]
MCChapters == {c1, c2}
MCContains == {<<c, c>> : c \in MCChapters}
=============================================================================
