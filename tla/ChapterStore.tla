---------------------------- MODULE ChapterStore ----------------------------
(***************************************************************************)
(* The node and chapter part of the BadgerDB store                         *)
(* (pkg/SSTorytime/kv_badger.go): AddNode and DeleteChapter over the keys  *)
(*     node:<class>:<cptr>          text:<lower-case text>                 *)
(*     chap:<chapter>:<class>:<cptr>      pm:<chapter>:<line>:<seq>        *)
(* and the sequence seq:node that numbers nodes.  One process writes, as   *)
(* the ingesting commands do; it can die between any two transactions.     *)
(*                                                                         *)
(* A NodePtr is its CPtr: one sequence numbers the nodes of all classes,   *)
(* and no operation depends on the class.  A Chap string is the multiset of*)
(* its comma-separated tokens, since no operation depends on their order.  *)
(* Node.I is the set of link destinations: slot, arrow, weight and context *)
(* never influence the operations modelled here.                           *)
(***************************************************************************)
EXTENDS Integers, FiniteSets

CONSTANTS Texts,      \* node texts
          NoText,     \* the empty text
          Fold,       \* strings.ToLower: a function on Texts
          Chapters,   \* chapter names
          ChapArgs,   \* the Chap strings callers pass to AddNode
          NoNode,     \* no node: key
          Bandwidth,  \* ids leased at a time (1000 in the code)
          MaxId,      \* bound: ids the model hands out
          MaxTokens,  \* bound: occurrences of a chapter in one Chap
          MaxRows     \* bound: page rows per chapter

Keys == {Fold[t] : t \in Texts}
Ids == 0 .. (MaxId - 1)
ChapList == [Chapters -> Nat]
Missing == -1
NoChap == [c \in Chapters |-> 0]
Unit(c) == [d \in Chapters |-> IF d = c THEN 1 ELSE 0]
Node == [S : Texts \cup {NoText}, Chap : ChapList, I : SUBSET Ids]

ASSUME ConstantsAssumption ==
    /\ NoText \notin Texts
    /\ DOMAIN Fold = Texts
    /\ ChapArgs \subseteq ChapList
    /\ NoNode \notin Node
    /\ Bandwidth \in Nat \ {0}
    /\ MaxId \in Nat
    /\ MaxTokens \in Nat
    /\ MaxRows \in Nat

VARIABLES node,       \* node: keys       id -> node record, or NoNode
          text,       \* text: keys       folded text -> id, or Missing
          chapIdx,    \* chap: keys       set of <<label, id>>
          pm,         \* pm: keys         chapter -> number of rows
          seqStored,  \* seq:node key     the first id not leased to anybody
          pc, req, id,\* the AddNode in progress: where it is, its node, its id
          issued      \* history: every id a node was ever written under

vars == <<node, text, chapIdx, pm, seqStored, pc, req, id, issued>>

NoReq == [S |-> NoText, Chap |-> NoChap, I |-> {}]

Live == {p \in Ids : node[p] # NoNode}
Tokens(chap) == {c \in Chapters : chap[c] > 0}

(* Slip: every node counts as exclusive. *)
AtMostOneTokenAlways(chap) == TRUE

(* len(splitChap(chap)) <= 1 *)
AtMostOneToken(chap) ==
    \A c, d \in Tokens(chap) : c = d /\ chap[c] = 1

(* Slip: any chapter will do. *)
HasChapAny(chap, arg) == Tokens(chap) # {}

(* Whether some token of chap equals the whole string arg. *)
HasChap(chap, arg) == \E c \in Tokens(chap) : arg = Unit(c)

(* existing.Chap + "," + n.Chap *)
JoinChap(chap, arg) == [c \in Chapters |-> chap[c] + arg[c]]

(* Slip: a shared node keeps the deleted chapter. *)
RemoveChapNot(chap, c) == chap

(* strings.Join(removeFromChapList(chaps, c), ",") *)
RemoveChap(chap, c) == [chap EXCEPT ![c] = 0]

(* A node as AddNode reads it: the zero value when its key is missing. *)
ReadNode(p) == IF node[p] = NoNode THEN NoReq ELSE node[p]

(* chapIndexKeys: one chap: key per distinct token. *)
ChapKeys(chap, p) == {<<Unit(c), p>> : c \in Tokens(chap)}

GetChapterNames == {c \in Chapters : \E p \in Ids : <<Unit(c), p>> \in chapIdx}

Init ==
    /\ node = [p \in Ids |-> NoNode]
    /\ text = [k \in Keys |-> Missing]
    /\ chapIdx = {}
    /\ pm = [c \in Chapters |-> 0]
    /\ seqStored = 0
    /\ pc = "idle" /\ req = NoReq /\ id = Missing
    /\ issued = {}

-----------------------------------------------------------------------------
(* AddNode.  A read transaction looks the text up; what follows depends on *)
(* whether it was found.                                                   *)

(* Slip: the text index is never consulted. *)
FoundNever(n) == FALSE

Found(n) == n.S # NoText /\ text[Fold[n.S]] # Missing

(* The text is known: its pointer is returned and the caller's chapter is  *)
(* added when no token equals it.  The caller's links are dropped.         *)
AddExisting(n) ==
    /\ pc = "idle"
    /\ Found(n)
    /\ LET p == text[Fold[n.S]]
           e == ReadNode(p)
           joined == JoinChap(e.Chap, n.Chap)
       IN IF n.Chap # NoChap /\ ~HasChap(e.Chap, n.Chap)
          THEN /\ \A c \in Chapters : joined[c] <= MaxTokens
               /\ node' = [node EXCEPT ![p] = [S |-> e.S, Chap |-> joined, I |-> e.I]]
               /\ chapIdx' = chapIdx \cup {<<n.Chap, p>>}
          ELSE UNCHANGED <<node, chapIdx>>
    /\ UNCHANGED <<text, pm, seqStored, pc, req, id, issued>>

(* Slip: the first id after the lease is used. *)
AddLeaseBeyond(n) ==
    /\ pc = "idle"
    /\ ~Found(n)
    /\ seqStored < MaxId
    /\ id' = seqStored + Bandwidth
    /\ seqStored' = seqStored + Bandwidth
    /\ pc' = "leased"
    /\ req' = n
    /\ UNCHANGED <<node, text, chapIdx, pm, issued>>

(* A new text, or no text: GetSequence leases ids and Next takes the first.*)
AddLease(n) ==
    /\ pc = "idle"
    /\ ~Found(n)
    /\ seqStored < MaxId
    /\ id' = seqStored
    /\ seqStored' = seqStored + Bandwidth
    /\ pc' = "leased"
    /\ req' = n
    /\ UNCHANGED <<node, text, chapIdx, pm, issued>>

(* One transaction writes the node and its index entries. *)
AddWrite ==
    /\ pc = "leased"
    /\ node' = [node EXCEPT ![id] = req]
    /\ text' = IF req.S = NoText THEN text
               ELSE [text EXCEPT ![Fold[req.S]] = id]
    /\ chapIdx' = chapIdx \cup ChapKeys(req.Chap, id)
    /\ issued' = issued \cup {id}
    /\ pc' = "written"
    /\ UNCHANGED <<pm, seqStored, req, id>>

(* Slip: the id just used is given back too. *)
AddReleaseUsed ==
    /\ pc = "written"
    /\ seqStored' = id
    /\ pc' = "idle" /\ req' = NoReq /\ id' = Missing
    /\ UNCHANGED <<node, text, chapIdx, pm, issued>>

(* The deferred seq.Release gives the unused part of the lease back. *)
AddRelease ==
    /\ pc = "written"
    /\ seqStored' = id + 1
    /\ pc' = "idle" /\ req' = NoReq /\ id' = Missing
    /\ UNCHANGED <<node, text, chapIdx, pm, issued>>

(* The process dies inside AddNode; what is committed stays. *)
Crash ==
    /\ pc # "idle"
    /\ pc' = "idle" /\ req' = NoReq /\ id' = Missing
    /\ UNCHANGED <<node, text, chapIdx, pm, seqStored, issued>>

-----------------------------------------------------------------------------
(* DeleteChapter.  Step 1 scans the chapter's index keys, step 2 reads the *)
(* nodes and tells exclusive from shared, step 3 filters the links of the  *)
(* survivors, step 4 applies everything in one WriteBatch.                 *)

InChapter(c) == {p \in Ids : <<Unit(c), p>> \in chapIdx}
ReadIn(c) == InChapter(c) \cap Live

DeletePtrs(c) == {p \in ReadIn(c) : AtMostOneToken(node[p].Chap)}
UpdatePtrs(c) == ReadIn(c) \ DeletePtrs(c)

(* Slip: links to deleted nodes stay. *)
SurvivorLinked(p, c) ==
    [S    |-> node[p].S,
     Chap |-> IF p \in UpdatePtrs(c) THEN RemoveChap(node[p].Chap, c)
              ELSE node[p].Chap,
     I    |-> node[p].I]

(* A surviving node: its Chap reduced if shared, its dangling links cut. *)
Survivor(p, c) ==
    [S    |-> node[p].S,
     Chap |-> IF p \in UpdatePtrs(c) THEN RemoveChap(node[p].Chap, c)
              ELSE node[p].Chap,
     I    |-> node[p].I \ DeletePtrs(c)]

(* Slip: text keys outlive their nodes. *)
DeletedKeysNone(c) == {}

DeletedKeys(c) == {Fold[node[p].S] : p \in {q \in DeletePtrs(c) : node[q].S # NoText}}

(* Slip: page rows outlive their chapter. *)
DropRowsNot(c) == pm

(* The page rows once those of chapter c are dropped. *)
DropRows(c) == [pm EXCEPT ![c] = 0]

(* Without an index key for c the call returns before it changes anything, *)
(* so that page rows saved for a chapter without nodes stay.               *)
DeleteChapter(c) ==
    /\ pc = "idle"
    /\ InChapter(c) # {}
    /\ node' = [p \in Ids |-> IF p \in Live \ DeletePtrs(c)
                              THEN Survivor(p, c) ELSE NoNode]
    /\ text' = [k \in Keys |-> IF k \in DeletedKeys(c) THEN Missing ELSE text[k]]
    /\ chapIdx' = chapIdx \ ({Unit(c)} \X ReadIn(c))
    /\ pm' = DropRows(c)
    /\ UNCHANGED <<seqStored, pc, req, id, issued>>

(* SavePageMap: one more row for a line of chapter c, which need not have  *)
(* any node.                                                               *)
SavePageMap(c) ==
    /\ pc = "idle"
    /\ pm[c] < MaxRows
    /\ pm' = [pm EXCEPT ![c] = @ + 1]
    /\ UNCHANGED <<node, text, chapIdx, seqStored, pc, req, id, issued>>

-----------------------------------------------------------------------------
(* What a client may ask to add: links lead to nodes that are there. *)
Requests == [S : Texts \cup {NoText}, Chap : ChapArgs, I : SUBSET Live]

Next ==
    \/ \E n \in Requests : AddExisting(n)
    \/ \E n \in Requests : AddLease(n)
    \/ AddWrite
    \/ AddRelease
    \/ Crash
    \/ \E c \in Chapters : DeleteChapter(c)
    \/ \E c \in Chapters : SavePageMap(c)

Spec == Init /\ [][Next]_vars

-----------------------------------------------------------------------------
(* The types of the keys and of the call in progress. *)
TypeOK ==
    /\ node \in [Ids -> Node \cup {NoNode}]
    /\ text \in [Keys -> Ids \cup {Missing}]
    /\ chapIdx \subseteq ChapList \X Ids
    /\ pm \in [Chapters -> Nat]
    /\ seqStored \in Nat
    /\ pc \in {"idle", "leased", "written"}
    /\ req \in Node
    /\ id \in Ids \cup {Missing}
    /\ issued \subseteq Ids

(* The text: index is exact: a key leads to a live node with that text,    *)
(* and a live node with a text is the one its key leads to.  Two nodes     *)
(* with one text, or a key that outlives its node, would break AddNode's   *)
(* idempotence for good.                                                   *)
TextIndexExact ==
    /\ \A k \in Keys : text[k] # Missing =>
           /\ node[text[k]] # NoNode
           /\ node[text[k]].S # NoText
           /\ Fold[node[text[k]].S] = k
    /\ \A p \in Live : node[p].S # NoText => text[Fold[node[p].S]] = p

(* The chap: index agrees with the Chap lists: DeleteChapter finds every   *)
(* node of a chapter through it, and nothing else.                         *)
ChapterIndexExact ==
    /\ \A e \in chapIdx :
           /\ e[2] \in Live
           /\ \E c \in Tokens(node[e[2]].Chap) : e[1] = Unit(c)
    /\ \A p \in Live : \A c \in Tokens(node[p].Chap) : <<Unit(c), p>> \in chapIdx

(* Links lead to live nodes, whatever chapters are deleted and re-added.   *)
NoDanglingLinks == \A p \in Live : node[p].I \subseteq Live

(* A pointer returned for a text stays the pointer of that text until the  *)
(* text is deleted: AddNode never renumbers a node.                        *)
StablePointers ==
    [][\A k \in Keys : text[k] # Missing => text'[k] \in {text[k], Missing}]_vars

(* An id is written under once: neither Release nor a leaked lease hands   *)
(* an old id to a new text, whoever still holds the old pointer.           *)
IdsNeverReused ==
    [][\A p \in Ids : node[p] = NoNode /\ node'[p] # NoNode => p \notin issued]_vars

(* The page rows of a chapter go with its last index key, so that a        *)
(* re-ingest starts clean, and they go only then: no deletion of another   *)
(* chapter, of which nodes may be shared, takes them.  Rows that were saved*)
(* for a chapter without nodes are there until the chapter gets some and is*)
(* deleted: the deletion of a chapter without index keys returns early.    *)
RowsGoWithChapter ==
    [][\A c \in Chapters :
           /\ c \in GetChapterNames /\ c \notin GetChapterNames' => pm'[c] = 0
           /\ pm'[c] < pm[c] => /\ c \in GetChapterNames
                               /\ c \notin GetChapterNames']_vars

(* The store implements the abstract chapter graph. *)
MemberBar(k) ==
    IF text[k] = Missing THEN {} ELSE Tokens(ReadNode(text[k]).Chap)
Graph == INSTANCE ChapterGraph WITH
    present <- {k \in Keys : text[k] # Missing},
    member <- [k \in Keys |-> MemberBar(k)]

(* Idempotent insert, shared nodes kept, exclusive nodes gone: crashes,    *)
(* leases and indexes are invisible through the text -> chapters view.     *)
ImplementsGraph == Graph!Spec

-----------------------------------------------------------------------------
(* Callers pass one chapter or none. *)
SingleChapters == ChapArgs \subseteq {NoChap} \cup {Unit(c) : c \in Chapters}
=============================================================================
