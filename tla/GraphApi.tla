------------------------------ MODULE GraphApi -------------------------------
(***************************************************************************)
(* The programmer's interface over the store: Vertex, Edge and HubJoin     *)
(* (pkg/SSTorytime/SSTorytime.go) with IdempDBAddLink (store_crud.go) and  *)
(* BadgerKV.AddLink.  An edge is two rows                                  *)
(*     edge:<from>:<arrow> -> [to ...]    edge:<to>:<inverse> -> [from ...]*)
(* written by two transactions, so that a crash may leave the first alone. *)
(* Chapter deletion comes from ChapterStore and leaves the rows as they are*)
(* (the destination lists are sets here: AddLink never repeats an entry).  *)
(***************************************************************************)
EXTENDS ChapterStore, Sequences

CONSTANTS Arrows,        \* arrow pointers
          EdgeArrows,    \* the arrows callers pass to Edge and HubJoin
          InverseArrow,  \* INVERSE_ARROWS: a function on Arrows
          HubArgs,       \* the member lists given to HubJoin: how many at most
          NoHub,         \* no HubJoin waiting for its container
          MaxEdges,      \* bound: edge rows
          MaxCrashes     \* bound: crashes

ASSUME ArrowAssumption ==
    /\ EdgeArrows \subseteq Arrows
    /\ InverseArrow \in [Arrows -> Arrows]
    /\ MaxEdges \in Nat /\ MaxCrashes \in Nat /\ HubArgs \in Nat

VARIABLES edges,    \* edge: rows: a set of <<from, arrow, to>>
          todo,     \* the rows the call in progress has still to write
          hub,      \* the HubJoin whose AddNode is in progress, or NoHub
          crashes   \* how many crashes there have been

apiVars == <<edges, todo, hub, crashes>>
allVars == <<vars, apiVars>>

Row == Ids \X Arrows \X Ids
InverseRow(e) == <<e[3], InverseArrow[e[2]], e[1]>>

(* Slip: the forward row only. *)
RowsOfEdgeForward(f, a, t) == << <<f, a, t>> >>

(* IdempDBAddLink: the forward row, then its inverse. *)
RowsOfEdge(f, a, t) == << <<f, a, t>>, InverseRow(<<f, a, t>>) >>

(* HubJoin links every member, in order, to the container t. *)
RowsOfHub(members, a, t) ==
    [i \in 1 .. 2 * Len(members) |->
        LET e == <<members[(i + 1) \div 2], a, t>>
        IN IF i % 2 = 1 THEN e ELSE InverseRow(e)]

Members == UNION {[1 .. n -> Live] : n \in 1 .. HubArgs}

ApiInit ==
    /\ Init
    /\ edges = {} /\ todo = <<>> /\ hub = NoHub /\ crashes = 0

Ready == pc = "idle" /\ todo = <<>> /\ hub = NoHub

NodeRequests == [S : Texts, Chap : ChapArgs, I : {{}}]

(* Vertex: an AddNode without links. *)
Vertex(n) ==
    /\ Ready
    /\ AddExisting(n) \/ AddLease(n)
    /\ UNCHANGED apiVars

(* Edge: the two AddLink transactions are queued. *)
Edge(f, a, t) ==
    /\ Ready
    /\ f # t
    /\ Cardinality(edges) + 2 <= MaxEdges
    /\ todo' = RowsOfEdge(f, a, t)
    /\ UNCHANGED <<vars, edges, hub, crashes>>

(* HubJoin adds its container first; the links wait for its pointer. *)
HubJoinKnown(n, members, a) ==
    /\ Ready
    /\ Cardinality(edges) + 2 * Len(members) <= MaxEdges
    /\ AddExisting(n)
    /\ todo' = RowsOfHub(members, a, text[Fold[n.S]])
    /\ UNCHANGED <<edges, hub, crashes>>

HubJoinNew(n, members, a) ==
    /\ Ready
    /\ Cardinality(edges) + 2 * Len(members) <= MaxEdges
    /\ AddLease(n)
    /\ hub' = [members |-> members, arrow |-> a]
    /\ UNCHANGED <<edges, todo, crashes>>

(* The steps of AddNode; the last one hands HubJoin its container. *)
NodeWrite == AddWrite /\ UNCHANGED apiVars

NodeRelease ==
    /\ AddRelease
    /\ todo' = IF hub = NoHub THEN <<>> ELSE RowsOfHub(hub.members, hub.arrow, id)
    /\ hub' = NoHub
    /\ UNCHANGED <<edges, crashes>>

(* AddLink: the next row.  A link from a node to itself ends the process   *)
(* before its forward row is written.                                      *)
AddLink ==
    /\ todo # <<>>
    /\ IF Head(todo)[1] = Head(todo)[3]
       THEN todo' = <<>> /\ UNCHANGED edges
       ELSE todo' = Tail(todo) /\ edges' = edges \cup {Head(todo)}
    /\ UNCHANGED <<vars, hub, crashes>>

(* The process dies inside a call. *)
ProcessCrash ==
    /\ crashes < MaxCrashes
    /\ \/ Crash
       \/ pc = "idle" /\ todo # <<>> /\ UNCHANGED vars
    /\ todo' = <<>> /\ hub' = NoHub
    /\ crashes' = crashes + 1
    /\ UNCHANGED edges

(* DeleteChapterFromDB *)
Remove(c) ==
    /\ Ready
    /\ DeleteChapter(c)
    /\ UNCHANGED apiVars

ApiNext ==
    \/ \E n \in NodeRequests : Vertex(n)
    \/ \E f, t \in Live, a \in EdgeArrows : Edge(f, a, t)
    \/ \E n \in NodeRequests, m \in Members, a \in EdgeArrows : HubJoinKnown(n, m, a)
    \/ \E n \in NodeRequests, m \in Members, a \in EdgeArrows : HubJoinNew(n, m, a)
    \/ NodeWrite
    \/ NodeRelease
    \/ AddLink
    \/ ProcessCrash
    \/ \E c \in Chapters : Remove(c)

ApiSpec == ApiInit /\ [][ApiNext]_allVars

-----------------------------------------------------------------------------
(* The types of the rows and of the calls in progress. *)
ApiTypeOK ==
    /\ edges \subseteq Row
    /\ todo \in Seq(Row)
    /\ hub = NoHub \/ (hub.members \in Seq(Ids) /\ hub.arrow \in Arrows)
    /\ crashes \in Nat

(* A row never names a pointer that was not handed out, and since ids are  *)
(* never reused an edge that lost its endpoint never comes to name another *)
(* node, although nothing removes the row.                                 *)
DanglingStaysDangling ==
    [][\A e \in edges : \A p \in {e[1], e[3]} :
           node[p] = NoNode => node'[p] = NoNode]_allVars

(* Both directions of an edge are there, but for one forward row per crash *)
(* and the one being written.                                              *)
HalfEdges == {e \in edges : InverseRow(e) \notin edges}
HalfEdgesOnlyFromCrashes ==
    Cardinality(HalfEdges) <= crashes + (Len(todo) % 2)
=============================================================================
