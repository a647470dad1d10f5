-------------------------- MODULE MCChapterStore ----------------------------
(* ChapterStore on a small instance: two texts that differ only in case,   *)
(* one other, two chapters.                                                *)
EXTENDS ChapterStore, TLC

CONSTANTS dog, Dog, cat, c1, c2, none

MCTexts == {dog, Dog, cat}
MCFold == dog :> dog @@ Dog :> dog @@ cat :> cat
MCChapters == {c1, c2}
MCSingle == {NoChap} \cup {Unit(c) : c \in MCChapters}
MCMulti == MCSingle \cup {[c \in MCChapters |-> 1]}
=============================================================================
