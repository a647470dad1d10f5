------------------------------- MODULE Ingest --------------------------------
(***************************************************************************)
(* One run of the compiler after another over the same store: N4L reads a  *)
(* file into NODE_DIRECTORY (SSTorytime.go), decides whether it may upload *)
(* (N4L.go, Upload), deletes the chapters it replaces under -force, and    *)
(* hands every node to AddNode (GraphToDB).  A run may be killed anywhere. *)
(*                                                                         *)
(* All texts are of one storage class, so a memory pointer is an index     *)
(* into one directory; links keep those indices when they are stored.      *)
(* NODE_DIRECTORY[k] is mdir[k + 1].                                       *)
(***************************************************************************)
EXTENDS ChapterStore, Sequences

CONSTANTS Contains,    \* pairs <<d, c>>: chapter name d has c as a substring
          MaxNodes,    \* bound: nodes a file mentions
          MaxFiles,    \* bound: runs of the compiler
          MaxKills   \* bound: runs that are killed

ASSUME IngestAssumption ==
    /\ Contains \subseteq Chapters \X Chapters
    /\ \A c \in Chapters : <<c, c>> \in Contains
    /\ MaxNodes \in Nat /\ MaxNodes <= MaxId
    /\ MaxFiles \in Nat /\ MaxKills \in Nat

VARIABLES work,      \* "off", "parse", "refused", "delete", "load" or "done"
          force,     \* FORCE_UPLOAD
          mdir,      \* NODE_DIRECTORY: what this run has read
          todel,     \* the chapters -force still has to delete
          next,      \* the node GraphToDB adds next
          files, kills,
          sharing,   \* history: some file put a text in two chapters
          before     \* history: the filed texts when this upload began

runVars == <<work, force, mdir, todel, next, files, kills, sharing, before>>
ingestVars == <<vars, runVars>>

MemNode == [S : Texts, Chap : ChapList, I : SUBSET (0 .. (MaxNodes - 1))]

(* The texts filed under each chapter, in the store and in memory. *)
Stored == [c \in Chapters |-> {k \in Keys : c \in MemberBar(k)}]
Noted == [c \in Chapters |->
            {Fold[mdir[i].S] : i \in {j \in DOMAIN mdir : mdir[j].Chap[c] > 0}}]
NothingFiled == [c \in Chapters |-> {}]

(* GetDBChaptersMatchingName(sst, "") and GetMemChapters: whole labels. *)
DBChapters == {e[1] : e \in chapIdx}
MemChapters == {mdir[i].Chap : i \in DOMAIN mdir}
Conflicts == DBChapters \cap MemChapters

IngestInit ==
    /\ Init
    /\ work = "off" /\ force = FALSE /\ mdir = <<>> /\ todel = {} /\ next = 0
    /\ files = 0 /\ kills = 0 /\ sharing = FALSE /\ before = NothingFiled

StartN4L(f) ==
    /\ work = "off" /\ files < MaxFiles
    /\ work' = "parse" /\ force' = f /\ files' = files + 1
    /\ UNCHANGED <<vars, mdir, todel, next, kills, sharing, before>>

-----------------------------------------------------------------------------
(* Parsing. *)

Slot(t) == {i \in DOMAIN mdir : mdir[i].S = t}

(* IdempAddChapterSeqToNode: a chapter that is a substring of the list is  *)
(* taken to be in it.                                                      *)
AddChapter(chap, c) ==
    IF \E d \in Tokens(chap) : <<d, c>> \in Contains
    THEN chap
    ELSE JoinChap(chap, Unit(c))

(* IdempAddNode, AppendTextToDirectory: texts are told apart by case here. *)
ReadItem(t, c) ==
    /\ work = "parse"
    /\ IF Slot(t) = {}
       THEN /\ Len(mdir) < MaxNodes
            /\ mdir' = Append(mdir, [S |-> t, Chap |-> Unit(c), I |-> {}])
       ELSE \E i \in Slot(t) :
                mdir' = [mdir EXCEPT ![i] =
                           [S |-> t, Chap |-> AddChapter(mdir[i].Chap, c), I |-> mdir[i].I]]
    /\ sharing' = (sharing \/ \E i \in DOMAIN mdir' : ~AtMostOneToken(mdir'[i].Chap))
    /\ UNCHANGED <<vars, work, force, todel, next, files, kills, before>>

(* IdempAddLink: the link and its inverse, between different texts. *)
ReadLink(i, j) ==
    /\ work = "parse"
    /\ i # j
    /\ mdir' = [mdir EXCEPT ![i].I = @ \cup {j - 1}, ![j].I = @ \cup {i - 1}]
    /\ UNCHANGED <<vars, work, force, todel, next, files, kills, sharing, before>>

-----------------------------------------------------------------------------
(* Slip: a chapter in the store does not stop the upload. *)
UploadAnyway ==
    /\ work = "parse"
    /\ mdir # <<>>
    /\ \/ Conflicts # {} /\ force /\ work' = "delete" /\ todel' = Conflicts
       \/ (Conflicts = {} \/ ~force) /\ work' = "load" /\ todel' = {}
    /\ next' = 1
    /\ before' = Stored
    /\ UNCHANGED <<vars, force, mdir, files, kills, sharing>>

(* Upload. *)
Upload ==
    /\ work = "parse"
    /\ mdir # <<>>
    /\ \/ Conflicts # {} /\ ~force /\ work' = "refused" /\ todel' = {}
       \/ Conflicts # {} /\ force /\ work' = "delete" /\ todel' = Conflicts
       \/ Conflicts = {} /\ work' = "load" /\ todel' = {}
    /\ next' = 1
    /\ before' = Stored
    /\ UNCHANGED <<vars, force, mdir, files, kills, sharing>>

(* DeleteChapter of a label of several chapters, which AddNode makes when  *)
(* it adds the Chap of a shared node: no token equals the label, so a      *)
(* surviving node loses its index key and keeps its Chap.                  *)
DeleteLabel(l) ==
    LET read == {p \in Live : <<l, p>> \in chapIdx}
        gone == {p \in read : AtMostOneToken(node[p].Chap)}
    IN /\ pc = "idle"
       /\ node' = [p \in Ids |->
                     IF p \in Live \ gone
                     THEN [S |-> node[p].S, Chap |-> node[p].Chap, I |-> node[p].I \ gone]
                     ELSE NoNode]
       /\ text' = [k \in Keys |-> IF \E p \in gone : Fold[node[p].S] = k THEN Missing ELSE text[k]]
       /\ chapIdx' = chapIdx \ ({l} \X read)
       /\ UNCHANGED <<pm, seqStored, pc, req, id, issued>>

(* Slip: one deletion is taken for all. *)
DeleteNextOnce(l) ==
    /\ work = "delete" /\ l \in todel
    /\ \/ \E c \in Chapters : l = Unit(c) /\ DeleteChapter(c)
       \/ (\A c \in Chapters : l # Unit(c)) /\ DeleteLabel(l)
    /\ todel' = {}
    /\ work' = "load"
    /\ UNCHANGED <<force, mdir, next, files, kills, sharing, before>>

(* The next conflicting chapter goes, by its own name or as a label of     *)
(* several chapters.                                                       *)
DeleteNext(l) ==
    /\ work = "delete" /\ l \in todel
    /\ \/ \E c \in Chapters : l = Unit(c) /\ DeleteChapter(c)
       \/ (\A c \in Chapters : l # Unit(c)) /\ DeleteLabel(l)
    /\ todel' = todel \ {l}
    /\ work' = IF todel' = {} THEN "load" ELSE "delete"
    /\ UNCHANGED <<force, mdir, next, files, kills, sharing, before>>

(* Slip: a known node holds its place. *)
LoadKnownStays ==
    /\ work = "load" /\ next <= Len(mdir)
    /\ AddExisting(mdir[next])
    /\ UNCHANGED runVars

(* GraphToDB: AddNode for every node of the directory, links and all. *)
LoadKnown ==
    /\ work = "load" /\ next <= Len(mdir)
    /\ AddExisting(mdir[next])
    /\ next' = next + 1
    /\ UNCHANGED <<work, force, mdir, todel, files, kills, sharing, before>>

LoadNew ==
    /\ work = "load" /\ next <= Len(mdir)
    /\ AddLease(mdir[next])
    /\ UNCHANGED runVars

LoadWrite == AddWrite /\ UNCHANGED runVars

LoadRelease ==
    /\ AddRelease
    /\ next' = next + 1
    /\ UNCHANGED <<work, force, mdir, todel, files, kills, sharing, before>>

LoadEnd ==
    /\ work = "load" /\ pc = "idle" /\ next > Len(mdir)
    /\ work' = "done"
    /\ UNCHANGED <<vars, force, mdir, todel, next, files, kills, sharing, before>>

-----------------------------------------------------------------------------
(* The process ends, after a parse error too, or is killed while it        *)
(* uploads: memory is gone.                                                *)
Forget ==
    /\ work' = "off" /\ force' = FALSE /\ mdir' = <<>> /\ todel' = {} /\ next' = 0
    /\ before' = NothingFiled
    /\ UNCHANGED <<files, sharing>>

Exit ==
    /\ work \in {"parse", "refused", "done"}
    /\ Forget
    /\ UNCHANGED <<vars, kills>>

Kill ==
    /\ work \in {"delete", "load"} /\ kills < MaxKills
    /\ kills' = kills + 1
    /\ Forget
    /\ Crash \/ (pc = "idle" /\ UNCHANGED vars)

UploadStep ==
    \/ \E l \in todel : DeleteNext(l)
    \/ LoadKnown
    \/ LoadNew
    \/ LoadWrite
    \/ LoadRelease
    \/ LoadEnd

IngestNext ==
    \/ \E f \in BOOLEAN : StartN4L(f)
    \/ \E t \in Texts, c \in Chapters : ReadItem(t, c)
    \/ \E i, j \in DOMAIN mdir : ReadLink(i, j)
    \/ Upload
    \/ UploadStep
    \/ Exit
    \/ Kill

(* An upload that is not killed keeps running. *)
IngestSpec == IngestInit /\ [][IngestNext]_ingestVars /\ WF_ingestVars(UploadStep)

-----------------------------------------------------------------------------
(* Properties. *)

(* Whatever was in the store and however often it was replaced, when an    *)
(* upload ends every text of the file is there, under every chapter the    *)
(* directory gives it.                                                     *)
UploadComplete ==
    work = "done" => \A c \in Chapters : Noted[c] \subseteq Stored[c]

(* A re-uploaded chapter holds the file's texts. *)
NewVersionExact ==
    work = "done" /\ force /\ ~sharing =>
        \A c \in Chapters : Noted[c] # {} => Stored[c] = Noted[c]

(* A chapter the file does not mention is as it was before. *)
OthersUntouched ==
    work \in {"delete", "load", "done"} /\ ~sharing =>
        \A c \in Chapters : Noted[c] = {} => Stored[c] = before[c]

(* The final state of a re-submit "must reflect version 2 exactly", also   *)
(* when an earlier attempt was killed half-way: a chapter that was         *)
(* re-uploaded has no orphan of an older version, and a chapter the file   *)
(* does not mention is never touched, with or without -force (Upload).     *)
(* True as long as no file puts a text in two chapters.                    *)
ReplacedExactly == NewVersionExact /\ OthersUntouched

(* "Without `-force` the tool still warns you and refuses to overwrite":   *)
(* a chapter that was in the store keeps just its texts.  True as long as  *)
(* no file shares a text: one whose texts are all in two chapters has no   *)
(* whole label in common with the store.                                   *)
NoForceProtectsUnshared ==
    work \in {"load", "done"} /\ ~force /\ ~sharing =>
        \A c \in Chapters : before[c] # {} => Stored[c] = before[c]

(* Every upload comes to an end. *)
UploadEnds == work \in {"delete", "load"} ~> work \in {"done", "off"}

(* A link of the file leads, in the store, from its text to its text.      *)
LinksUploaded ==
    work = "done" => \A i, j \in DOMAIN mdir : (j - 1) \in mdir[i].I =>
        text[Fold[mdir[j].S]] \in ReadNode(text[Fold[mdir[i].S]]).I
=============================================================================
