------------------------------ MODULE NoteMemory -------------------------------
(***************************************************************************)
(* NODE_DIRECTORY while N4L reads its files, as operators on its value:    *)
(* finding or making a node (SSTorytime.go, AppendTextToDirectory), adding *)
(* a link (AppendLinkToNode), annotating (N4L.go, AddBackAnnotations) and  *)
(* the inferences that follow the last file (CompleteInferences).          *)
(*                                                                         *)
(* A directory is one sequence of nodes in the order they were made; the   *)
(* six directories of the code are its parts by storage class.  A pointer  *)
(* is a position, and Nowhere is the zero NodePtr.  Links are kept by      *)
(* arrow: the code keeps one list per link type and always picks one arrow *)
(* out of it.  A context is the set of its fragments; weights are left out.*)
(***************************************************************************)
EXTENDS Integers, SequencesExt

CONSTANTS Items,     \* items as they are written
          Clean,       \* Clean[i]: the text of i without annotation marks
          Storage,     \* Storage[i] = <<class, length>>; the length of n-grams is 0
          Marks,       \* Marks[i]: the marked words of i, <<arrow, item>>, in order
          Arrows, InverseOf,   \* ARROW_DIRECTORY and INVERSE_ARROWS
          Empty, Then,       \* arrow 0 and the arrow of stories
          Near,        \* the similarity arrows whose name has no "!"
          Closures,    \* ARROW_CLOSURES: <<path of arrows, result>>, in order
          Fragments, SequenceTag   \* context fragments; "_sequence_"

ASSUME NoteMemoryAssumption ==
    /\ {Empty, Then} \subseteq Arrows /\ InverseOf \in [Arrows -> Arrows]
    /\ Near \subseteq Arrows \ {Empty} /\ IsFiniteSet(Near)
    /\ \A i \in Items : Storage[i][1] \in 1 .. 6 /\ Marks[i] \in Seq(Arrows \X Items)
    /\ Closures \in Seq(Seq(Arrows) \X Arrows)
    /\ SequenceTag \in Fragments

Nowhere == 0

(* RegisterContext: a label of the given fragments, never "_sequence_". *)
Label(fragments) == fragments \ {SequenceTag}

-----------------------------------------------------------------------------
(* Nodes. *)

(* CheckExistingOrAltCaps: n-grams are found by text, longer texts by text *)
(* and length, and the length is that of the item as it was written.       *)
IsNodeOf(n, i) == n.text = Clean[i] /\ n.storage = Storage[i]
Pointer(d, i) == SelectInSeq(d, LAMBDA n : IsNodeOf(n, i))

NewNode(i, chap, seq) ==
    [text |-> Clean[i], storage |-> Storage[i], chaps |-> {chap}, seq |-> seq,
     links |-> [a \in Arrows |-> <<>>]]

(* AppendTextToDirectory with IdempAddChapterSeqToNode and UpdateSeqStatus;*)
(* no chapter of the model is a substring of another.                      *)
AppendTextToDirectory(d, i, chap, seq) ==
    LET p == Pointer(d, i)
    IN IF p = 0
       THEN Append(d, NewNode(i, chap, seq))
       ELSE [d EXCEPT ![p].seq = @ \/ seq, ![p].chaps = @ \cup {chap}]

-----------------------------------------------------------------------------
(* Links. *)

(* Slip: the label of a repeated link replaces the one it had. *)
MergeReplaces(list, dst, label) ==
    LET k == SelectInSeq(list, LAMBDA l : l.dst = dst)
    IN IF k = 0
       THEN Append(list, [dst |-> dst, ctx |-> label])
       ELSE [list EXCEPT ![k].ctx = label]

(* One link per arrow and destination; a repetition merges its label. *)
MergeLinkLists(list, dst, label) ==
    LET k == SelectInSeq(list, LAMBDA l : l.dst = dst)
    IN IF k = 0
       THEN Append(list, [dst |-> dst, ctx |-> label])
       ELSE [list EXCEPT ![k].ctx = Label(@ \cup label)]

AppendLinkToNode(d, from, arrow, label, to) ==
    [d EXCEPT ![from].links[arrow] = MergeLinkLists(@, to, label)]

(* Slip: the inverse link is forgotten. *)
AddOneWay(d, from, arrow, label, to, context) ==
    AppendLinkToNode(d, from, arrow, label, to)

(* The two appends that IdempAddLink and LinkUpStorySequence end with: the *)
(* inverse is labelled by the context alone.                               *)
AddBothWays(d, from, arrow, label, to, context) ==
    AppendLinkToNode(AppendLinkToNode(d, from, arrow, label, to),
                     to, InverseOf[arrow], Label(context), from)

(* AddBackAnnotations: each marked word is a node linked from the item. *)
(* Neither the self-loop test nor the page path sees these links.       *)
Annotated(d, i, m, chap, context) ==
    LET e == AppendTextToDirectory(d, m[2], chap, FALSE)
    IN AddBothWays(e, Pointer(e, i), m[1], Label(context), Pointer(e, m[2]), context)
AddBackAnnotations(d, i, chap, context) ==
    FoldLeft(LAMBDA e, m : Annotated(e, i, m, chap, context), d, Marks[i])

(* HandleNode: the node, its annotations, and the empty link to nowhere    *)
(* that keeps its contexts (IdempAddContextToNode).                        *)
HandleNode(d, i, chap, context) ==
    LET e == AddBackAnnotations(AppendTextToDirectory(d, i, chap, FALSE), i, chap, context)
    IN AppendLinkToNode(e, Pointer(e, i), Empty, Label(context), Nowhere)

-----------------------------------------------------------------------------
(* Inference, when all files are read. *)

Destinations(node, arrow) == [k \in DOMAIN node.links[arrow] |-> node.links[arrow][k].dst]

(* Slip: the inner loop starts two places on. *)
PairsSkipping(s) ==
    FlattenSeq([n \in DOMAIN s |->
                  SelectSeq([o \in 1 .. (Len(s) - n) |-> <<s[n], s[n + o]>>],
                            LAMBDA pair : pair # <<s[n], s[n + 1]>>)])

(* The pairs of neighbours, in the order of the two loops. *)
Pairs(s) ==
    FlattenSeq([n \in DOMAIN s |-> [o \in 1 .. (Len(s) - n) |-> <<s[n], s[n + o]>>]])

(* CompleteCloseness: the neighbours that a node had when its turn came    *)
(* are linked pairwise, from the earlier to the later, one way only.  The  *)
(* arrows come in the order of a Go map; no two of them share a list.      *)
LinkPair(d, arrow, pair) == AppendLinkToNode(d, pair[1], arrow, {}, pair[2])
CloseOne(d, node, arrow) ==
    FoldLeft(LAMBDA e, pair : LinkPair(e, arrow, pair), d, Pairs(Destinations(node, arrow)))
CompleteCloseness(d, node) ==
    FoldLeft(LAMBDA e, arrow : CloseOne(e, node, arrow), d, SetToSeq(Near))

(* GetNodePointedTo: from the copy of a node along the last link of each  *)
(* arrow of a path.  Nowhere stands for "not found".                       *)
Hop(d, here, arrow) ==
    LET list == IF here.at = Nowhere THEN <<>> ELSE here.node.links[arrow]
        to   == IF list = <<>> THEN Nowhere ELSE Last(list).dst
    IN [at |-> to, node |-> IF to = Nowhere THEN here.node ELSE d[to]]
NodePointedTo(d, p, node, path) ==
    FoldLeft(LAMBDA here, arrow : Hop(d, here, arrow), [at |-> p, node |-> node], path).at

Concluded(d, p, node, closure) ==
    LET to == NodePointedTo(d, p, node, closure[1])
    IN IF to = Nowhere THEN d ELSE AppendLinkToNode(d, to, closure[2], {}, p)
CompleteSequences(d, p, node) ==
    FoldLeft(LAMBDA e, closure : Concluded(e, p, node, closure), d, Closures)

(* CompleteNode works on a copy of the node; what CompleteETCTypes finds   *)
(* out about it is printed and dropped with the copy.                      *)
CompleteNode(d, p) ==
    CompleteSequences(CompleteCloseness(d, d[p]), p, d[p])

(* The directories by class, each in its order. *)
InferenceOrder(d) ==
    FlattenSeq([class \in 1 .. 6 |->
        FlattenSeq([p \in DOMAIN d |-> IF d[p].storage[1] = class THEN <<p>> ELSE <<>>])])

CompleteInferences(d) == FoldLeft(CompleteNode, d, InferenceOrder(d))
=============================================================================
