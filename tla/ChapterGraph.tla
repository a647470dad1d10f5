---------------------------- MODULE ChapterGraph ----------------------------
(***************************************************************************)
(* What the node store promises to a note-taking client, without keys,     *)
(* pointers, indexes or crashes: a set of texts, each filed under a set of *)
(* chapters.  Inserting a text is idempotent and only ever adds chapters;  *)
(* deleting a chapter forgets the texts that were filed under it alone and *)
(* keeps the shared ones.  ChapterStore is shown to implement this.        *)
(***************************************************************************)
EXTENDS FiniteSets

CONSTANTS Keys,        \* case-folded texts
          Chapters     \* chapter names

VARIABLES present,     \* the texts the store knows
          member       \* member[k]: the chapters text k is filed under

vars == <<present, member>>

Init ==
    /\ present = {}
    /\ member = [k \in Keys |-> {}]

(* File text k under the chapters cs: at most one, the caller's chapter.   *)
Insert(k, cs) ==
    /\ present' = present \cup {k}
    /\ member' = [member EXCEPT ![k] = @ \cup cs]

(* Delete chapter c: what was filed under c alone goes, the rest stays.    *)
Delete(c) ==
    /\ present' = {k \in present : member[k] # {c}}
    /\ member' = [k \in Keys |-> member[k] \ {c}]

Next ==
    \/ \E k \in Keys : Insert(k, {})
    \/ \E k \in Keys, c \in Chapters : Insert(k, {c})
    \/ \E c \in Chapters : Delete(c)

Spec == Init /\ [][Next]_vars
=============================================================================
