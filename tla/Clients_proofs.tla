--------------------------- MODULE Clients_proofs ---------------------------
(***************************************************************************)
(* The two clients of the store.                                           *)
(*                                                                         *)
(* GraphApi, by its construction, only makes steps of ChapterStore, so that*)
(* the store's invariant holds under it; an edge row whose endpoint was    *)
(* deleted never comes to name another node; and an edge lacks its other   *)
(* row only if a call died between the two.                                *)
(*                                                                         *)
(* Ingest: uploads for every set of texts and chapters, every store and    *)
(* every history of earlier, killed and refused uploads: an upload is      *)
(* complete, replaces exactly the chapters it mentions, and without -force *)
(* touches none that was there.  The lemmas of ChapterStore_proofs about   *)
(* DeleteChapter are used for it; its invariant is not, since a file may   *)
(* put a text in two chapters and its links are positions in the           *)
(* directory, not pointers.                                                *)
(***************************************************************************)
EXTENDS GraphApi, Ingest, ChapterStore_proofs, FiniteSetTheorems

(* The programmer's interface. *)

IssuedRow == issued \X Arrows \X issued

(* Rows written, rows queued and the members of a waiting hub name issued  *)
(* pointers only.                                                          *)
ApiInv ==
    /\ edges \subseteq IssuedRow
    /\ todo \in Seq(IssuedRow)
    /\ hub # NoHub => /\ pc # "idle"
                      /\ \E m \in Seq(issued), a \in Arrows :
                            hub = [members |-> m, arrow |-> a]
    /\ pc = "written" => id \in issued
    /\ crashes \in Nat

-----------------------------------------------------------------------------
LEMMA SeqGrows ==
    ASSUME NEW S, NEW T, S \subseteq T
    PROVE  Seq(S) \subseteq Seq(T)
OBVIOUS

LEMMA RequestsAreRequests == NodeRequests \subseteq Requests
BY DEF NodeRequests, Requests

(* Every step of the interface is a step of the store or leaves it alone.  *)
LEMMA ApiStep ==
    ASSUME [ApiNext]_allVars
    PROVE  [Next]_vars
<1>1. ASSUME NEW n \in NodeRequests, AddExisting(n) \/ AddLease(n)
      PROVE  Next
  BY <1>1, RequestsAreRequests DEF Next
<1>2. ASSUME UNCHANGED allVars PROVE UNCHANGED vars
  BY <1>2 DEF allVars
<1> QED
  BY <1>1, <1>2 DEF ApiNext, Vertex, Edge, HubJoinKnown, HubJoinNew, NodeWrite,
     NodeRelease, AddLink, ProcessCrash, Remove, Next

(* So the store's invariant holds under the interface. *)
LEMMA ApiStoreInvariant ==
    ASSUME SingleChapters
    PROVE  ApiSpec => []Inv
<1>1. ApiInit => Init
  BY DEF ApiInit
<1>2. [ApiNext]_allVars => [Next]_vars
  BY ApiStep
<1> QED
  BY <1>1, <1>2, StoreInvariant, PTL DEF ApiSpec, Spec

-----------------------------------------------------------------------------
LEMMA InverseOfIssued ==
    ASSUME NEW e \in IssuedRow
    PROVE  InverseRow(e) \in IssuedRow
BY ArrowAssumption DEF IssuedRow, InverseRow

LEMMA RowsOfEdgeIssued ==
    ASSUME NEW f \in issued, NEW t \in issued, NEW a \in Arrows
    PROVE  RowsOfEdge(f, a, t) \in Seq(IssuedRow)
<1>1. <<f, a, t>> \in IssuedRow
  BY DEF IssuedRow
<1> QED
  BY <1>1, InverseOfIssued DEF RowsOfEdge

LEMMA RowsOfHubIssued ==
    ASSUME NEW m \in Seq(issued), NEW t \in issued, NEW a \in Arrows
    PROVE  RowsOfHub(m, a, t) \in Seq(IssuedRow)
<1> DEFINE Entry(i) == <<m[(i + 1) \div 2], a, t>>
<1>1. ASSUME NEW i \in 1 .. 2 * Len(m)
      PROVE  Entry(i) \in IssuedRow
  <2>1. (i + 1) \div 2 \in 1 .. Len(m)
    OBVIOUS
  <2>2. m[(i + 1) \div 2] \in issued
    BY <2>1
  <2> QED
    BY <2>2 DEF IssuedRow
<1>2. \A i \in 1 .. 2 * Len(m) :
         (IF i % 2 = 1 THEN Entry(i) ELSE InverseRow(Entry(i))) \in IssuedRow
  BY <1>1, InverseOfIssued
<1>3. 2 * Len(m) \in Nat
  OBVIOUS
<1> QED
  BY <1>2, <1>3 DEF RowsOfHub

(* The rows of a call only name issued pointers. *)
LEMMA ApiInvStep ==
    ASSUME Inv, ApiInv, [ApiNext]_allVars
    PROVE  ApiInv'
<1>1. issued \subseteq issued'
  BY DEF ApiNext, allVars, vars, Vertex, Edge, HubJoinKnown, HubJoinNew, NodeWrite,
     NodeRelease, AddLink, ProcessCrash, Remove, AddExisting, AddLease, AddWrite,
     AddRelease, Crash, DeleteChapter
<1>2. IssuedRow \subseteq IssuedRow' /\ Seq(issued) \subseteq Seq(issued')
  <2>1. IssuedRow \subseteq IssuedRow'
    BY <1>1 DEF IssuedRow
  <2>2. Seq(issued) \subseteq Seq(issued')
    BY <1>1, SeqGrows
  <2> QED
    BY <2>1, <2>2
<1>3. Seq(IssuedRow) \subseteq Seq(IssuedRow')
  BY <1>2, SeqGrows
<1>4. Live \subseteq issued
  BY DEF Inv, IdsBelowCounter
<1>5. ASSUME NEW n \in NodeRequests, Vertex(n) PROVE ApiInv'
  BY <1>1, <1>2, <1>3, <1>5 DEF Vertex, Ready, apiVars, ApiInv, AddExisting, AddLease
<1>6. ASSUME NEW f \in Live, NEW t \in Live, NEW a \in EdgeArrows, Edge(f, a, t)
      PROVE  ApiInv'
  <2>1. RowsOfEdge(f, a, t) \in Seq(IssuedRow)
    BY <1>4, RowsOfEdgeIssued, ArrowAssumption
  <2> QED
    BY <1>1, <1>2, <1>3, <1>6, <2>1 DEF Edge, Ready, vars, ApiInv
<1>7. ASSUME NEW m \in Members PROVE m \in Seq(issued)
  BY <1>4 DEF Members
<1>8. ASSUME NEW n \in NodeRequests, NEW m \in Members, NEW a \in EdgeArrows,
             HubJoinKnown(n, m, a)
      PROVE  ApiInv'
  <2>1. text[Fold[n.S]] \in issued
    <3>1. n \in Requests /\ Fold[n.S] \in Keys /\ text[Fold[n.S]] # Missing
      BY <1>8, RequestsAreRequests, ConstantsAssumption
         DEF HubJoinKnown, AddExisting, Found, NodeRequests, Keys
    <3> QED
      BY <1>4, <3>1 DEF Inv, TextIndexExact, TypeOK, Live
  <2>2. RowsOfHub(m, a, text[Fold[n.S]]) \in Seq(IssuedRow)
    BY <1>7, <2>1, RowsOfHubIssued, ArrowAssumption
  <2> QED
    BY <1>1, <1>2, <1>3, <1>8, <2>2 DEF HubJoinKnown, Ready, AddExisting, ApiInv
<1>9. ASSUME NEW n \in NodeRequests, NEW m \in Members, NEW a \in EdgeArrows,
             HubJoinNew(n, m, a)
      PROVE  ApiInv'
  <2>1. m \in Seq(issued) /\ a \in Arrows
    BY <1>7, ArrowAssumption
  <2>2. hub' = [members |-> m, arrow |-> a] /\ pc' = "leased" /\ issued' = issued
        /\ UNCHANGED <<edges, todo, crashes>>
    BY <1>9 DEF HubJoinNew, AddLease
  <2> QED
    BY <1>2, <1>3, <2>1, <2>2 DEF ApiInv
<1>10. ASSUME NodeWrite PROVE ApiInv'
  <2>1. pc' = "written" /\ id' = id /\ id \in issued' /\ UNCHANGED apiVars /\ pc = "leased"
    BY <1>10 DEF NodeWrite, AddWrite
  <2>2. hub # NoHub => \E m \in Seq(issued'), a \in Arrows : hub = [members |-> m, arrow |-> a]
    BY <1>2 DEF ApiInv
  <2> QED
    BY <1>2, <1>3, <2>1, <2>2 DEF apiVars, ApiInv
<1>11. ASSUME NodeRelease PROVE ApiInv'
  <2>1. /\ pc = "written" /\ pc' = "idle" /\ issued' = issued /\ hub' = NoHub
        /\ todo' = IF hub = NoHub THEN <<>> ELSE RowsOfHub(hub.members, hub.arrow, id)
        /\ UNCHANGED <<edges, crashes>>
    BY <1>11 DEF NodeRelease, AddRelease
  <2>2. todo' \in Seq(IssuedRow)
    <3>1. CASE hub = NoHub
      BY <2>1, <3>1
    <3>2. CASE hub # NoHub
      <4>1. PICK m \in Seq(issued), a \in Arrows : hub = [members |-> m, arrow |-> a]
        BY <3>2 DEF ApiInv
      <4>2. RowsOfHub(m, a, id) \in Seq(IssuedRow)
        BY <2>1, RowsOfHubIssued DEF ApiInv
      <4> QED
        BY <2>1, <3>2, <4>1, <4>2
    <3> QED
      BY <3>1, <3>2
  <2> QED
    BY <1>2, <1>3, <2>1, <2>2 DEF ApiInv
<1>12. ASSUME AddLink PROVE ApiInv'
  <2>1. Head(todo) \in IssuedRow /\ Tail(todo) \in Seq(IssuedRow)
    BY <1>12 DEF AddLink, ApiInv
  <2>2. edges' \subseteq IssuedRow /\ todo' \in Seq(IssuedRow)
    <3>1. CASE Head(todo)[1] = Head(todo)[3]
      BY <1>12, <3>1 DEF AddLink, ApiInv
    <3>2. CASE Head(todo)[1] # Head(todo)[3]
      <4>1. todo' = Tail(todo) /\ edges' = edges \cup {Head(todo)}
        BY <1>12, <3>2 DEF AddLink
      <4> QED
        BY <2>1, <4>1 DEF ApiInv
    <3> QED
      BY <3>1, <3>2
  <2> QED
    BY <1>2, <1>3, <1>12, <2>2 DEF AddLink, ApiInv, vars
<1>13. ASSUME ProcessCrash PROVE ApiInv'
  BY <1>2, <1>3, <1>13 DEF ProcessCrash, Crash, ApiInv, vars
<1>14. ASSUME NEW c \in Chapters, Remove(c) PROVE ApiInv'
  BY <1>2, <1>3, <1>14 DEF Remove, Ready, DeleteChapter, apiVars, ApiInv
<1>15. CASE UNCHANGED allVars
  BY <1>15, <1>2, <1>3 DEF allVars, vars, apiVars, ApiInv
<1> QED
  BY <1>5, <1>6, <1>8, <1>9, <1>10, <1>11, <1>12, <1>13, <1>14, <1>15 DEF ApiNext

LEMMA ApiInvariant ==
    ASSUME SingleChapters
    PROVE  ApiSpec => []ApiInv
<1>1. ApiInit => ApiInv
  BY DEF ApiInit, Init, ApiInv
<1>2. Inv /\ ApiInv /\ [ApiNext]_allVars => ApiInv'
  BY ApiInvStep
<1> QED
  BY <1>1, <1>2, ApiStoreInvariant, PTL DEF ApiSpec

(* The rows, the queue and the waiting hub are well-typed. *)
THEOREM ApiTypesCorrect ==
    ASSUME SingleChapters
    PROVE  ApiSpec => []ApiTypeOK
<1>1. Inv /\ ApiInv => ApiTypeOK
  <2> SUFFICES ASSUME Inv, ApiInv PROVE ApiTypeOK
    OBVIOUS
  <2>1. issued \subseteq Ids /\ IssuedRow \subseteq Row
    BY DEF Inv, TypeOK, IssuedRow, Row
  <2>2. Seq(IssuedRow) \subseteq Seq(Row) /\ Seq(issued) \subseteq Seq(Ids)
    BY <2>1, SeqGrows
  <2> QED
    BY <2>1, <2>2 DEF ApiInv, ApiTypeOK
<1> QED
  BY <1>1, ApiInvariant, ApiStoreInvariant, PTL

(* A dangling edge row stays dangling: it is never redirected to a node    *)
(* that was added after its endpoint was deleted.                          *)
THEOREM DanglingEdgesAreNeverRedirected ==
    ASSUME SingleChapters
    PROVE  ApiSpec => DanglingStaysDangling
<1>1. ASSUME Inv, ApiInv, [ApiNext]_allVars,
             NEW e \in edges, NEW p \in {e[1], e[3]}, node[p] = NoNode
      PROVE  node'[p] = NoNode
  <2>1. p \in issued /\ p \in Ids
    BY <1>1 DEF ApiInv, IssuedRow, Inv, TypeOK
  <2>2. [Next]_vars
    BY <1>1, ApiStep
  <2> QED
    BY <1>1, <2>1, <2>2, IdsNeverReusedStep
<1>2. Inv /\ ApiInv /\ [ApiNext]_allVars =>
        [\A e \in edges : \A p \in {e[1], e[3]} : node[p] = NoNode => node'[p] = NoNode]_allVars
  BY <1>1
<1> QED
  BY <1>2, ApiInvariant, ApiStoreInvariant, PTL DEF ApiSpec, DanglingStaysDangling

-----------------------------------------------------------------------------
(* The two rows of an edge.  Every arrow is the inverse of its inverse:    *)
(* InsertInverseArrowDirectory writes both entries, and they stay so while *)
(* no line of the arrow files pairs an arrow a second time.                *)
PairedArrows == \A a \in Arrows : InverseArrow[InverseArrow[a]] = a

(* The row whose inverse is the next to be written. *)
Pending == IF Len(todo) % 2 = 1 THEN {InverseRow(Head(todo))} ELSE {}

(* The queue, read from its end, is made of pairs of a row and its         *)
(* inverse; when one half of its first pair is gone, that row is written.  *)
QueuePairs ==
    /\ \A i \in 1 .. Len(todo) - 1 :
           (Len(todo) - i) % 2 = 1 => todo[i + 1] = InverseRow(todo[i])
    /\ Len(todo) % 2 = 1 => /\ InverseRow(Head(todo)) \in edges
                            /\ Head(todo)[1] # Head(todo)[3]

(* The inductive invariant: no row is queued while a node is being added,  *)
(* and, the one pending row apart, there is at most one half edge per      *)
(* crash.                                                                  *)
EdgeInv ==
    /\ IsFiniteSet(edges)
    /\ pc # "idle" => todo = <<>>
    /\ QueuePairs
    /\ Cardinality(HalfEdges \ Pending) <= crashes

LEMMA InverseOfInverse ==
    ASSUME PairedArrows, NEW e \in Row
    PROVE  /\ InverseRow(e) \in Row
           /\ InverseRow(InverseRow(e)) = e
           /\ InverseRow(e)[1] = e[3] /\ InverseRow(e)[3] = e[1]
BY ArrowAssumption DEF PairedArrows, Row, InverseRow

(* A queue built of whole edges has no half pair. *)
LEMMA EvenQueue ==
    ASSUME todo' = <<>> \/ \E m \in Nat : /\ Len(todo') = 2 * m
                                         /\ \A i \in 1 .. 2 * m - 1 : i % 2 = 1 =>
                                                todo'[i + 1] = InverseRow(todo'[i])
    PROVE  QueuePairs' /\ Pending' = {}
<1>1. CASE todo' = <<>>
  BY <1>1 DEF QueuePairs, Pending
<1>2. ASSUME NEW m \in Nat, Len(todo') = 2 * m,
             \A i \in 1 .. 2 * m - 1 : i % 2 = 1 => todo'[i + 1] = InverseRow(todo'[i])
      PROVE  QueuePairs' /\ Pending' = {}
  <2>1. Len(todo') % 2 = 0
    BY <1>2
  <2>2. \A i \in 1 .. 2 * m - 1 : (2 * m - i) % 2 = 1 => i % 2 = 1
    OBVIOUS
  <2>3. ASSUME NEW i \in 1 .. Len(todo') - 1, (Len(todo') - i) % 2 = 1
        PROVE  todo'[i + 1] = InverseRow(todo'[i])
    BY <1>2, <2>2, <2>3
  <2>4. \A e : InverseRow(e)' = InverseRow(e)
    BY DEF InverseRow
  <2> QED
    BY <2>1, <2>3, <2>4 DEF QueuePairs, Pending
<1> QED
  BY <1>1, <1>2

LEMMA RowsOfHubPairs ==
    ASSUME NEW m \in Seq(issued), NEW a, NEW t
    PROVE  /\ Len(m) \in Nat
           /\ Len(RowsOfHub(m, a, t)) = 2 * Len(m)
           /\ \A i \in 1 .. 2 * Len(m) - 1 : i % 2 = 1 =>
                 RowsOfHub(m, a, t)[i + 1] = InverseRow(RowsOfHub(m, a, t)[i])
<1> DEFINE r == RowsOfHub(m, a, t)
<1>1. Len(m) \in Nat /\ 2 * Len(m) \in Nat
  OBVIOUS
<1>2. r = [i \in 1 .. 2 * Len(m) |->
             IF i % 2 = 1 THEN <<m[(i + 1) \div 2], a, t>>
             ELSE InverseRow(<<m[(i + 1) \div 2], a, t>>)]
  BY DEF RowsOfHub
<1> HIDE DEF r
<1>3. Len(r) = 2 * Len(m)
  BY <1>1, <1>2
<1>4. ASSUME NEW i \in 1 .. 2 * Len(m) - 1, i % 2 = 1
      PROVE  r[i + 1] = InverseRow(r[i])
  <2>1. /\ i \in 1 .. 2 * Len(m) /\ i + 1 \in 1 .. 2 * Len(m)
        /\ (i + 1) % 2 = 0 /\ (i + 2) \div 2 = (i + 1) \div 2
    BY <1>4
  <2>2. r[i] = <<m[(i + 1) \div 2], a, t>>
    BY <1>2, <1>4, <2>1
  <2>3. r[i + 1] = InverseRow(<<m[(i + 1 + 1) \div 2], a, t>>)
    BY <1>2, <2>1
  <2> QED
    BY <2>1, <2>2, <2>3
<1> QED
  BY <1>1, <1>3, <1>4 DEF r

(* Writing the first row of an edge: it alone may become a half edge. *)
LEMMA WriteForward ==
    ASSUME PairedArrows, edges \subseteq Row, IsFiniteSet(edges),
           NEW e \in Row, edges' = edges \cup {e}
    PROVE  HalfEdges' \ {e} \subseteq HalfEdges
<1>1. \A x : InverseRow(x)' = InverseRow(x)
  BY DEF InverseRow
<1> QED
  BY <1>1 DEF HalfEdges

(* Writing the second: it makes none, and the first is half no longer.     *)
LEMMA WriteInverse ==
    ASSUME PairedArrows, edges \subseteq Row, IsFiniteSet(edges),
           NEW e \in edges, edges' = edges \cup {InverseRow(e)}
    PROVE  HalfEdges' \subseteq HalfEdges \ {e}
<1>1. \A x : InverseRow(x)' = InverseRow(x)
  BY DEF InverseRow
<1>2. InverseRow(InverseRow(e)) = e
  BY InverseOfInverse
<1> QED
  BY <1>1, <1>2 DEF HalfEdges

(* Fewer half edges are no more. *)
LEMMA FewerHalves ==
    ASSUME NEW S, NEW T, IsFiniteSet(T), S \subseteq T
    PROVE  IsFiniteSet(S) /\ Cardinality(S) \in Nat /\ Cardinality(T) \in Nat
           /\ Cardinality(S) <= Cardinality(T)
BY FS_Subset, FS_CardinalityType

LEMMA HalfEdgesFinite ==
    ASSUME IsFiniteSet(edges)
    PROVE  IsFiniteSet(HalfEdges) /\ IsFiniteSet(HalfEdges \ Pending)
BY FS_Subset DEF HalfEdges

(* The queue without its first row. *)
LEMMA TailPairs ==
    ASSUME todo \in Seq(Row), todo # <<>>, QueuePairs, todo' = Tail(todo)
    PROVE  /\ Len(todo) \in Nat \ {0} /\ Len(todo') = Len(todo) - 1
           /\ \A i \in 1 .. Len(todo') - 1 :
                 (Len(todo') - i) % 2 = 1 => todo'[i + 1] = InverseRow(todo'[i])
           /\ Len(todo) % 2 = 0 => todo' # <<>> /\ Head(todo') = InverseRow(Head(todo))
<1>1. /\ Len(todo) \in Nat \ {0} /\ Len(todo') = Len(todo) - 1
      /\ \A i \in 1 .. Len(todo) - 1 : todo'[i] = todo[i + 1]
      /\ Head(todo) = todo[1]
      /\ Len(todo') > 0 => todo' # <<>> /\ Head(todo') = todo'[1]
  OBVIOUS
<1>2. ASSUME NEW i \in 1 .. Len(todo') - 1, (Len(todo') - i) % 2 = 1
      PROVE  todo'[i + 1] = InverseRow(todo'[i])
  <2>1. i + 1 \in 1 .. Len(todo) - 1 /\ (Len(todo) - (i + 1)) % 2 = 1
    BY <1>1, <1>2
  <2>2. todo[i + 1 + 1] = InverseRow(todo[i + 1])
    BY <2>1 DEF QueuePairs
  <2>3. i + 1 \in 1 .. Len(todo) - 1 /\ i \in 1 .. Len(todo) - 1
    BY <1>1, <2>1
  <2> QED
    BY <1>1, <2>2, <2>3
<1>3. ASSUME Len(todo) % 2 = 0
      PROVE  todo' # <<>> /\ Head(todo') = InverseRow(Head(todo))
  <2>1. 1 \in 1 .. Len(todo) - 1 /\ (Len(todo) - 1) % 2 = 1
    BY <1>1, <1>3
  <2>2. todo[1 + 1] = InverseRow(todo[1])
    BY <2>1 DEF QueuePairs
  <2> QED
    BY <1>1, <2>1, <2>2
<1> QED
  BY <1>1, <1>2, <1>3

LEMMA AddLinkHalves ==
    ASSUME PairedArrows, ApiTypeOK, EdgeInv, AddLink
    PROVE  EdgeInv'
<1>1. /\ edges \subseteq Row /\ todo \in Seq(Row) /\ crashes \in Nat
      /\ IsFiniteSet(edges) /\ QueuePairs
      /\ Cardinality(HalfEdges \ Pending) <= crashes
      /\ todo # <<>> /\ crashes' = crashes /\ pc = "idle" /\ pc' = pc
  BY DEF ApiTypeOK, EdgeInv, AddLink, vars
<1>2. Head(todo) \in Row
  BY <1>1
<1>3. Len(todo) \in Nat /\ Len(todo) % 2 \in {0, 1}
  BY <1>1
<1>4. \A x : InverseRow(x)' = InverseRow(x)
  BY DEF InverseRow
<1>5. IsFiniteSet(HalfEdges) /\ IsFiniteSet(HalfEdges \ Pending)
  BY <1>1, HalfEdgesFinite
<1>6. CASE Head(todo)[1] = Head(todo)[3]
  <2>1. Len(todo) % 2 # 1 /\ todo' = <<>> /\ edges' = edges
    BY <1>1, <1>6 DEF AddLink, QueuePairs
  <2>2. QueuePairs' /\ Pending' = {} /\ Pending = {}
    BY <2>1, EvenQueue DEF Pending
  <2>3. HalfEdges' = HalfEdges
    BY <1>4, <2>1 DEF HalfEdges
  <2> QED
    BY <1>1, <2>1, <2>2, <2>3 DEF EdgeInv
<1>7. CASE Head(todo)[1] # Head(todo)[3]
  <2>1. todo' = Tail(todo) /\ edges' = edges \cup {Head(todo)}
    BY <1>7 DEF AddLink
  <2>2. IsFiniteSet(edges')
    BY <1>1, <2>1, FS_AddElement
  <2>3. /\ Len(todo') = Len(todo) - 1
        /\ \A i \in 1 .. Len(todo') - 1 :
              (Len(todo') - i) % 2 = 1 => todo'[i + 1] = InverseRow(todo'[i])
        /\ Len(todo) % 2 = 0 => todo' # <<>> /\ Head(todo') = InverseRow(Head(todo))
    BY <1>1, <2>1, TailPairs
  <2>4. CASE Len(todo) % 2 = 0
    <3> DEFINE e == Head(todo)
    <3>1. Len(todo') % 2 = 1 /\ Head(todo') = InverseRow(e) /\ Pending = {}
      BY <1>3, <2>3, <2>4 DEF Pending
    <3>2. InverseRow(InverseRow(e)) = e /\ InverseRow(e)[1] = e[3] /\ InverseRow(e)[3] = e[1]
      BY <1>2, InverseOfInverse
    <3>3. Pending' = {e}
      BY <1>4, <3>1, <3>2 DEF Pending
    <3>4. QueuePairs'
      <4>1. InverseRow(Head(todo')) = e /\ e \in edges'
        BY <2>1, <3>1, <3>2
      <4>2. Head(todo')[1] # Head(todo')[3]
        BY <1>7, <3>1, <3>2
      <4>3. \A i \in 1 .. Len(todo') - 1 :
               (Len(todo') - i) % 2 = 1 => todo'[i + 1] = InverseRow(todo'[i])
        BY <2>3
      <4> HIDE DEF e
      <4> QED
        BY <1>4, <4>1, <4>2, <4>3 DEF QueuePairs
    <3>5. HalfEdges' \ {e} \subseteq HalfEdges
      BY <1>1, <1>2, <2>1, WriteForward
    <3> HIDE DEF e
    <3>6. Cardinality(HalfEdges' \ Pending') <= crashes
      <4>1. HalfEdges' \ Pending' \subseteq HalfEdges \ Pending
        BY <3>1, <3>3, <3>5
      <4> QED
        BY <1>1, <1>5, <4>1, FewerHalves
    <3> QED
      BY <1>1, <2>2, <3>4, <3>6 DEF EdgeInv
  <2>5. CASE Len(todo) % 2 = 1
    <3>1. PICK x \in edges : x = InverseRow(Head(todo))
      BY <1>1, <2>5 DEF QueuePairs
    <3>2. Head(todo) = InverseRow(x)
      BY <1>2, <3>1, InverseOfInverse
    <3>3. HalfEdges' \subseteq HalfEdges \ {x}
      BY <1>1, <2>1, <3>2, WriteInverse
    <3>4. Pending = {x}
      BY <2>5, <3>1 DEF Pending
    <3>5. Len(todo') % 2 = 0
      <4>1. \A n \in Nat : n % 2 = 1 => (n - 1) % 2 = 0
        OBVIOUS
      <4> QED
        BY <1>3, <2>3, <2>5, <4>1
    <3>6. QueuePairs' /\ Pending' = {}
      BY <1>4, <2>3, <3>5 DEF QueuePairs, Pending
    <3>7. Cardinality(HalfEdges' \ Pending') <= crashes
      <4>1. HalfEdges' \ Pending' \subseteq HalfEdges \ Pending
        BY <3>3, <3>4, <3>6
      <4> QED
        BY <1>1, <1>5, <4>1, FewerHalves
    <3> QED
      BY <1>1, <2>2, <3>6, <3>7 DEF EdgeInv
  <2> QED
    BY <1>3, <2>4, <2>5
<1> QED
  BY <1>6, <1>7

(* The half edges are one more than the settled ones, at most. *)
LEMMA OneMoreHalf ==
    ASSUME IsFiniteSet(edges), NEW x, Pending \subseteq {x},
           NEW n \in Nat, Cardinality(HalfEdges \ Pending) <= n
    PROVE  Cardinality(HalfEdges) <= n + 1
<1> DEFINE S == HalfEdges \ Pending
           T == S \cup {x}
<1>1. IsFiniteSet(S) /\ HalfEdges \subseteq T /\ Cardinality(S) <= n
  BY HalfEdgesFinite
<1> HIDE DEF S
<1>2. IsFiniteSet(T)
  BY <1>1, FS_AddElement
<1>3. Cardinality(T) = Cardinality(S) \/ Cardinality(T) = Cardinality(S) + 1
  BY <1>1, FS_AddElement
<1>4. Cardinality(S) \in Nat
  BY <1>1, FS_CardinalityType
<1> HIDE DEF T
<1>5. Cardinality(HalfEdges) \in Nat /\ Cardinality(HalfEdges) <= Cardinality(T)
  BY <1>1, <1>2, FewerHalves
<1> QED
  BY <1>1, <1>3, <1>4, <1>5

(* A crash turns the pending row into a half edge. *)
LEMMA ProcessCrashHalves ==
    ASSUME ApiTypeOK, EdgeInv, ProcessCrash
    PROVE  EdgeInv'
<1>1. /\ todo' = <<>> /\ edges' = edges /\ crashes' = crashes + 1 /\ crashes \in Nat
      /\ IsFiniteSet(edges) /\ Cardinality(HalfEdges \ Pending) <= crashes
  BY DEF ProcessCrash, ApiTypeOK, EdgeInv
<1>2. HalfEdges' = HalfEdges
  BY <1>1 DEF HalfEdges, InverseRow
<1>3. QueuePairs' /\ Pending' = {}
  BY <1>1, EvenQueue
<1>4. IsFiniteSet(HalfEdges) /\ IsFiniteSet(HalfEdges \ Pending)
  BY <1>1, HalfEdgesFinite
<1>5. Cardinality(HalfEdges) <= crashes + 1
  <2>1. \E x : Pending \subseteq {x}
    BY DEF Pending
  <2>2. PICK x : Pending \subseteq {x}
    BY <2>1
  <2> QED
    BY <1>1, <2>2, OneMoreHalf
<1> QED
  BY <1>1, <1>2, <1>3, <1>5 DEF EdgeInv

(* Every other step leaves the rows alone and queues whole edges. *)
LEMMA QueueHalves ==
    ASSUME EdgeInv, UNCHANGED <<edges, crashes>>, Pending = {},
           QueuePairs', Pending' = {}, pc' = "idle"
    PROVE  EdgeInv'
<1>1. HalfEdges' = HalfEdges
  BY DEF HalfEdges, InverseRow
<1> QED
  BY <1>1 DEF EdgeInv

LEMMA EdgeInvStep ==
    ASSUME PairedArrows, Inv, ApiInv, ApiTypeOK, EdgeInv, [ApiNext]_allVars
    PROVE  EdgeInv'
<1>1. ASSUME Ready PROVE Pending = {}
  BY <1>1 DEF Ready, Pending
<1>2. ASSUME UNCHANGED <<edges, todo, crashes>>, pc' # "idle" => todo = <<>>
      PROVE  EdgeInv'
  <2>1. HalfEdges' = HalfEdges /\ Pending' = Pending /\ \A x : InverseRow(x)' = InverseRow(x)
    BY <1>2 DEF HalfEdges, Pending, InverseRow
  <2> QED
    BY <1>2, <2>1 DEF EdgeInv, QueuePairs
<1>3. ASSUME NEW f \in Live, NEW t \in Live, NEW a \in EdgeArrows, Edge(f, a, t)
      PROVE  EdgeInv'
  <2>1. todo' = << <<f, a, t>>, InverseRow(<<f, a, t>>) >>
    BY <1>3 DEF Edge, RowsOfEdge
  <2>2. QueuePairs' /\ Pending' = {}
    <3>1. /\ Len(todo') = 2 * 1
          /\ \A i \in 1 .. 2 * 1 - 1 : i % 2 = 1 => todo'[i + 1] = InverseRow(todo'[i])
      BY <2>1
    <3> QED
      BY <3>1, EvenQueue
  <2> QED
    BY <1>1, <1>3, <2>2, QueueHalves DEF Edge, Ready, vars
<1>4. ASSUME NEW m \in Seq(issued), NEW a, NEW t, todo' = RowsOfHub(m, a, t)
      PROVE  QueuePairs' /\ Pending' = {}
  <2> DEFINE r == RowsOfHub(m, a, t)
  <2>1. /\ Len(m) \in Nat /\ Len(r) = 2 * Len(m)
        /\ \A i \in 1 .. 2 * Len(m) - 1 : i % 2 = 1 => r[i + 1] = InverseRow(r[i])
    BY RowsOfHubPairs
  <2>2. todo' = r
    BY <1>4
  <2> HIDE DEF r
  <2>3. /\ Len(todo') = 2 * Len(m)
        /\ \A i \in 1 .. 2 * Len(m) - 1 :
              i % 2 = 1 => todo'[i + 1] = InverseRow(todo'[i])
    BY <2>1, <2>2
  <2> QED
    BY <2>1, <2>3, EvenQueue
<1>5. ASSUME NEW n \in NodeRequests, NEW m \in Members, NEW a \in EdgeArrows,
             HubJoinKnown(n, m, a)
      PROVE  EdgeInv'
  <2>1. m \in Seq(issued)
    BY DEF Inv, IdsBelowCounter, Members
  <2>2. QueuePairs' /\ Pending' = {}
    BY <1>4, <1>5, <2>1 DEF HubJoinKnown
  <2> QED
    BY <1>1, <1>5, <2>2, QueueHalves DEF HubJoinKnown, AddExisting, Ready
<1>6. ASSUME NodeRelease PROVE EdgeInv'
  <2>1. QueuePairs' /\ Pending' = {}
    <3>1. CASE hub = NoHub
      BY <1>6, <3>1, EvenQueue DEF NodeRelease
    <3>2. CASE hub # NoHub
      <4>1. PICK m \in Seq(issued), a \in Arrows : hub = [members |-> m, arrow |-> a]
        BY <3>2 DEF ApiInv
      <4> QED
        BY <1>4, <1>6, <3>2, <4>1 DEF NodeRelease
    <3> QED
      BY <3>1, <3>2
  <2>2. Pending = {} /\ pc' = "idle"
    BY <1>6 DEF NodeRelease, AddRelease, EdgeInv, Pending
  <2> QED
    BY <1>6, <2>1, <2>2, QueueHalves DEF NodeRelease
<1>7. ASSUME NEW n \in NodeRequests, Vertex(n) PROVE EdgeInv'
  BY <1>2, <1>7 DEF Vertex, Ready, apiVars
<1>8. ASSUME NEW n \in NodeRequests, NEW m \in Members, NEW a \in EdgeArrows,
             HubJoinNew(n, m, a)
      PROVE  EdgeInv'
  BY <1>2, <1>8 DEF HubJoinNew, Ready
<1>9. ASSUME NodeWrite PROVE EdgeInv'
  BY <1>2, <1>9 DEF NodeWrite, AddWrite, apiVars, EdgeInv
<1>10. ASSUME NEW c \in Chapters, Remove(c) PROVE EdgeInv'
  BY <1>2, <1>10 DEF Remove, Ready, apiVars
<1>11. CASE UNCHANGED allVars
  BY <1>2, <1>11 DEF allVars, vars, apiVars, EdgeInv
<1> QED
  BY <1>3, <1>5, <1>6, <1>7, <1>8, <1>9, <1>10, <1>11, AddLinkHalves, ProcessCrashHalves
     DEF ApiNext

(* An edge lacks its other row only if the process died between the two    *)
(* transactions of AddLink, or is between them now.                        *)
THEOREM HalfEdgesComeFromCrashes ==
    ASSUME SingleChapters, PairedArrows
    PROVE  ApiSpec => []HalfEdgesOnlyFromCrashes
<1>1. ApiInit => EdgeInv
  <2> SUFFICES ASSUME ApiInit PROVE EdgeInv
    OBVIOUS
  <2>1. edges = {} /\ todo = <<>> /\ crashes = 0 /\ HalfEdges \ Pending = {}
    BY DEF ApiInit, HalfEdges
  <2> QED
    BY <2>1, FS_EmptySet DEF EdgeInv, QueuePairs
<1>2. Inv /\ ApiInv /\ ApiTypeOK /\ EdgeInv /\ [ApiNext]_allVars => EdgeInv'
  BY EdgeInvStep
<1>3. ApiTypeOK /\ EdgeInv => HalfEdgesOnlyFromCrashes
  <2> SUFFICES ASSUME ApiTypeOK, EdgeInv PROVE HalfEdgesOnlyFromCrashes
    OBVIOUS
  <2>1. Len(todo) % 2 \in {0, 1} /\ crashes \in Nat
    BY DEF ApiTypeOK
  <2>2. CASE Len(todo) % 2 = 0
    <3>1. Pending = {} /\ HalfEdges \ {} = HalfEdges
      BY <2>2 DEF Pending
    <3>2. Cardinality(HalfEdges) <= crashes
      BY <3>1 DEF EdgeInv
    <3> QED
      BY <2>1, <2>2, <3>2 DEF HalfEdgesOnlyFromCrashes
  <2>3. CASE Len(todo) % 2 = 1
    <3>1. Pending \subseteq {InverseRow(Head(todo))}
      BY DEF Pending
    <3>2. Cardinality(HalfEdges) <= crashes + 1
      BY <2>1, <3>1, OneMoreHalf DEF EdgeInv
    <3> QED
      BY <2>3, <3>2 DEF HalfEdgesOnlyFromCrashes
  <2> QED
    BY <2>1, <2>2, <2>3
<1> QED
  BY <1>1, <1>2, <1>3, ApiInvariant, ApiStoreInvariant, ApiTypesCorrect, PTL DEF ApiSpec

-----------------------------------------------------------------------------
(* Uploads. *)

(* The whole labels AddNode files a shared node under are in no token, so  *)
(* that only the text: index is exact whatever is shared; nodes of a file  *)
(* have texts.                                                             *)
StoreInv ==
    /\ TypeOK
    /\ TextIndexExact
    /\ IdsBelowCounter
    /\ \A p \in Live : node[p].S # NoText

(* The directory and the counters. *)
MemoryInv ==
    /\ mdir \in Seq(MemNode)
    /\ Len(mdir) <= MaxNodes
    /\ next \in Nat
    /\ work \in {"off", "parse", "refused", "delete", "load", "done"}
    /\ work = "delete" => todel \subseteq MemChapters /\ force /\ next = 1

(* The AddNode in progress is that of the node GraphToDB is at. *)
LoadCall ==
    /\ pc # "idle" =>
           /\ work = "load" /\ next \in DOMAIN mdir
           /\ req = mdir[next]
           /\ id \in Ids
    /\ pc = "leased" =>
           /\ id < seqStored
           /\ \A p \in issued : p < id
           /\ text[Fold[req.S]] = Missing
    /\ pc = "written" =>
           /\ \A p \in issued : p <= id
           /\ Tokens(req.Chap) \subseteq MemberBar(Fold[req.S])

(* What was loaded is filed: no later AddNode of the upload takes a        *)
(* chapter away.                                                           *)
LoadedFiled ==
    work \in {"load", "done"} =>
        /\ next \in 1 .. Len(mdir) + 1
        /\ work = "done" => next = Len(mdir) + 1
        /\ \A i \in 1 .. next - 1 : Tokens(mdir[i].Chap) \subseteq MemberBar(Fold[mdir[i].S])

(* As long as no file puts a text in two chapters, every label is one      *)
(* chapter and the chap: index is exact too.                               *)
Unshared ==
    ~sharing =>
        /\ ChapterIndexExact
        /\ NoRepeats
        /\ \A i \in DOMAIN mdir : \E c \in Chapters : mdir[i].Chap = Unit(c)

(* A chapter of the file that still holds older texts is still to be       *)
(* deleted; once loading begins none is left.                              *)
OldVersionGoes ==
    ~sharing =>
        /\ work = "delete" =>
               \A c \in Chapters : Noted[c] # {} /\ Stored[c] # {} => Unit(c) \in todel
        /\ work \in {"load", "done"} =>
               \A c \in Chapters : Noted[c] # {} => Stored[c] \subseteq Noted[c]

(* Without -force nothing is loaded into a chapter that was there. *)
NoForceNoConflict ==
    work \in {"load", "done"} /\ ~force /\ ~sharing =>
        \A c \in Chapters : before[c] # {} => Noted[c] = {}

(* The inductive invariant. *)
IngestInv ==
    /\ StoreInv
    /\ MemoryInv
    /\ LoadCall
    /\ LoadedFiled
    /\ Unshared
    /\ OldVersionGoes
    /\ OthersUntouched
    /\ NoForceNoConflict

-----------------------------------------------------------------------------
(* A node of the directory is one AddNode accepts. *)
LEMMA MemNodeIsNode == MemNode \subseteq Node
<1>1. 0 .. (MaxNodes - 1) \subseteq Ids
  BY ConstantsAssumption, IngestAssumption DEF Ids
<1> QED
  BY <1>1 DEF MemNode, Node

LEMMA DirectoryNodes ==
    ASSUME MemoryInv, NEW i \in DOMAIN mdir
    PROVE  /\ mdir[i] \in MemNode /\ mdir[i] \in Node
           /\ mdir[i].S \in Texts /\ mdir[i].S # NoText /\ Fold[mdir[i].S] \in Keys
           /\ mdir[i].Chap \in ChapList
<1>1. mdir[i] \in MemNode
  BY DEF MemoryInv
<1> QED
  BY <1>1, MemNodeIsNode, ConstantsAssumption DEF MemNode, Keys

(* What Noted says, entry by entry. *)
LEMMA NotedIs ==
    ASSUME NEW c \in Chapters, NEW k
    PROVE  k \in Noted[c] <=> \E i \in DOMAIN mdir : c \in Tokens(mdir[i].Chap) /\ k = Fold[mdir[i].S]
BY DEF Noted, Tokens

-----------------------------------------------------------------------------
(* What a deletion leaves of the store, whichever labels it goes by: the   *)
(* nodes that stay keep their texts, the keys of the others are dropped.   *)
LEMMA DropEffect ==
    ASSUME StoreInv, NEW gone, gone \subseteq Live,
           \A p \in Ids : IF p \in Live \ gone
                          THEN node'[p] \in Node /\ node'[p].S = node[p].S
                          ELSE node'[p] = NoNode,
           \A k \in Keys : text'[k] = IF \E p \in gone : Fold[node[p].S] = k
                                      THEN Missing ELSE text[k],
           UNCHANGED <<seqStored, issued>>
    PROVE  /\ Live' = Live \ gone
           /\ TextIndexExact' /\ IdsBelowCounter'
           /\ \A p \in Live' : node'[p].S # NoText
<1> USE ConstantsAssumption
<1>1. Live' = Live \ gone
  BY DEF Live
<1>2. \A p \in Live' : p \in Live /\ p \notin gone /\ node'[p].S = node[p].S
  BY <1>1 DEF Live
<1>3. \A p \in Live : /\ node[p].S # NoText /\ Fold[node[p].S] \in Keys
                      /\ text[Fold[node[p].S]] = p
  BY DEF StoreInv, TextIndexExact, TypeOK, Live, Node, Keys
<1>4. ASSUME NEW k \in Keys, text'[k] # Missing
      PROVE  /\ node'[text'[k]] # NoNode /\ node'[text'[k]].S # NoText
             /\ Fold[node'[text'[k]].S] = k
  <2>1. text'[k] = text[k] /\ text[k] # Missing
    BY <1>4
  <2>2. text[k] \in Live /\ Fold[node[text[k]].S] = k
    BY <2>1 DEF StoreInv, TextIndexExact, TypeOK, Live
  <2>3. text[k] \notin gone
    BY <1>4, <2>2
  <2>4. text[k] \in Live'
    BY <1>1, <2>2, <2>3
  <2> QED
    BY <1>2, <1>3, <2>1, <2>2, <2>4 DEF Live
<1>5. ASSUME NEW p \in Live'
      PROVE  text'[Fold[node'[p].S]] = p
  <2>1. p \in Live /\ p \notin gone /\ node'[p].S = node[p].S
    BY <1>2
  <2>2. ~\E q \in gone : Fold[node[q].S] = Fold[node[p].S]
    BY <1>3, <2>1
  <2> QED
    BY <1>3, <2>1, <2>2
<1>6. TextIndexExact'
  BY <1>4, <1>5 DEF TextIndexExact
<1>7. IdsBelowCounter'
  BY <1>1 DEF StoreInv, IdsBelowCounter
<1> QED
  BY <1>1, <1>2, <1>3, <1>6, <1>7

(* Both kinds of deletion keep the store's invariant. *)
LEMMA DeleteLabelStore ==
    ASSUME StoreInv, NEW l, DeleteLabel(l)
    PROVE  StoreInv'
<1> DEFINE gone == {p \in {q \in Live : <<l, q>> \in chapIdx} : AtMostOneToken(node[p].Chap)}
<1>1. /\ node' = [p \in Ids |->
                     IF p \in Live \ gone
                     THEN [S |-> node[p].S, Chap |-> node[p].Chap, I |-> node[p].I \ gone]
                     ELSE NoNode]
      /\ text' = [k \in Keys |-> IF \E p \in gone : Fold[node[p].S] = k THEN Missing ELSE text[k]]
      /\ chapIdx' \subseteq chapIdx
      /\ UNCHANGED <<pm, seqStored, pc, req, id, issued>>
  BY DEF DeleteLabel
<1>2. gone \subseteq Live
  OBVIOUS
<1> HIDE DEF gone
<1>3. ASSUME NEW p \in Live \ gone
      PROVE  node'[p] \in Node /\ node'[p].S = node[p].S
  <2>1. p \in Ids /\ node[p] \in Node
    BY DEF StoreInv, TypeOK, Live
  <2>2. node'[p] = [S |-> node[p].S, Chap |-> node[p].Chap, I |-> node[p].I \ gone]
    BY <1>1, <2>1
  <2> QED
    BY <2>1, <2>2 DEF Node
<1>4. \A p \in Ids : p \notin Live \ gone => node'[p] = NoNode
  BY <1>1
<1>5. \A k \in Keys : text'[k] = IF \E p \in gone : Fold[node[p].S] = k THEN Missing ELSE text[k]
  BY <1>1
<1>6. TextIndexExact' /\ IdsBelowCounter' /\ \A p \in Live' : node'[p].S # NoText
  BY <1>1, <1>2, <1>3, <1>4, <1>5, DropEffect
<1>7. TypeOK'
  <2>1. node' \in [Ids -> Node \cup {NoNode}]
    BY <1>1, <1>3, <1>4
  <2>2. text' \in [Keys -> Ids \cup {Missing}]
    BY <1>1, <1>5 DEF StoreInv, TypeOK
  <2> QED
    BY <1>1, <2>1, <2>2 DEF StoreInv, TypeOK
<1> QED
  BY <1>6, <1>7 DEF StoreInv

LEMMA DeleteChapterStore ==
    ASSUME StoreInv, NEW c \in Chapters, DeleteChapter(c)
    PROVE  StoreInv'
<1> DEFINE gone == DeletePtrs(c)
<1>1. /\ node' = [p \in Ids |-> IF p \in Live \ gone THEN Survivor(p, c) ELSE NoNode]
      /\ text' = [k \in Keys |-> IF k \in DeletedKeys(c) THEN Missing ELSE text[k]]
      /\ chapIdx' \subseteq chapIdx
      /\ pm' \in [Chapters -> Nat]
      /\ UNCHANGED <<seqStored, pc, req, id, issued>>
  BY DEF DeleteChapter, DropRows, StoreInv, TypeOK
<1>2. gone \subseteq Live
  BY DEF DeletePtrs, ReadIn
<1>3. ASSUME NEW p \in Live \ gone
      PROVE  node'[p] \in Node /\ node'[p].S = node[p].S
  <2>1. p \in Ids /\ node[p] \in Node
    BY DEF StoreInv, TypeOK, Live
  <2>2. node'[p] = Survivor(p, c)
    BY <1>1, <2>1
  <2>3. RemoveChap(node[p].Chap, c) \in ChapList /\ node[p].Chap \in ChapList
    BY <2>1, RemoveProperties DEF Node
  <2> QED
    BY <2>1, <2>2, <2>3 DEF Survivor, Node
<1>4. \A p \in Ids : p \notin Live \ gone => node'[p] = NoNode
  BY <1>1
<1>5. \A k \in Keys : text'[k] = IF \E p \in gone : Fold[node[p].S] = k THEN Missing ELSE text[k]
  <2>1. \A p \in gone : node[p].S # NoText
    BY <1>2 DEF StoreInv
  <2>2. \A k : k \in DeletedKeys(c) <=> \E p \in gone : Fold[node[p].S] = k
    BY <2>1 DEF DeletedKeys
  <2> QED
    BY <1>1, <2>2
<1> HIDE DEF gone
<1>6. TextIndexExact' /\ IdsBelowCounter' /\ \A p \in Live' : node'[p].S # NoText
  BY <1>1, <1>2, <1>3, <1>4, <1>5, DropEffect
<1>7. TypeOK'
  <2>1. node' \in [Ids -> Node \cup {NoNode}]
    BY <1>1, <1>3, <1>4
  <2>2. text' \in [Keys -> Ids \cup {Missing}]
    BY <1>1, <1>5 DEF StoreInv, TypeOK
  <2> QED
    BY <1>1, <2>1, <2>2 DEF StoreInv, TypeOK
<1> QED
  BY <1>6, <1>7 DEF StoreInv

-----------------------------------------------------------------------------
(* Steps that leave the store alone, and steps that leave memory alone. *)
LEMMA StoreSame ==
    ASSUME UNCHANGED vars
    PROVE  /\ StoreInv => StoreInv'
           /\ ChapterIndexExact => ChapterIndexExact'
           /\ NoRepeats => NoRepeats'
           /\ Stored' = Stored
           /\ \A k : MemberBar(k)' = MemberBar(k)
<1>1. Live' = Live
  BY DEF vars, Live
<1>2. \A k : MemberBar(k)' = MemberBar(k)
  BY DEF vars, MemberBar, ReadNode
<1>3. Stored' = Stored
  BY <1>2 DEF Stored
<1>4. StoreInv => StoreInv'
  BY <1>1 DEF vars, StoreInv, TypeOK, TextIndexExact, IdsBelowCounter
<1>5. (ChapterIndexExact => ChapterIndexExact') /\ (NoRepeats => NoRepeats')
  BY <1>1 DEF vars, ChapterIndexExact, NoRepeats
<1> QED
  BY <1>2, <1>3, <1>4, <1>5

LEMMA MemorySame ==
    ASSUME mdir' = mdir
    PROVE  Noted' = Noted /\ MemChapters' = MemChapters
BY DEF Noted, MemChapters

(* Only an upload says something of what it has deleted and loaded. *)
LEMMA OutsideUpload ==
    ASSUME work' \notin {"delete", "load", "done"}, pc' = "idle"
    PROVE  LoadCall' /\ LoadedFiled' /\ OldVersionGoes' /\ OthersUntouched' /\ NoForceNoConflict'
BY DEF LoadCall, LoadedFiled, OldVersionGoes, OthersUntouched, NoForceNoConflict

LEMMA IdleUnlessLoading ==
    ASSUME IngestInv, work # "load"
    PROVE  pc = "idle"
BY DEF IngestInv, LoadCall, StoreInv, TypeOK

-----------------------------------------------------------------------------
(* Parsing. *)
LEMMA StartN4LInv ==
    ASSUME IngestInv, NEW f \in BOOLEAN, StartN4L(f)
    PROVE  IngestInv'
<1>1. pc = "idle" /\ UNCHANGED <<vars, mdir, next, sharing>> /\ work' = "parse"
  BY IdleUnlessLoading DEF StartN4L
<1>2. StoreInv' /\ Unshared'
  BY <1>1, StoreSame DEF IngestInv, Unshared
<1>3. MemoryInv'
  BY <1>1 DEF IngestInv, MemoryInv
<1> QED
  BY <1>1, <1>2, <1>3, OutsideUpload DEF IngestInv, vars

(* A text that is read again keeps its directory entry a node, and unless  *)
(* it is now shared, an entry of one chapter.                              *)
LEMMA AddChapterTypes ==
    ASSUME NEW chap \in ChapList, NEW c \in Chapters
    PROVE  AddChapter(chap, c) \in ChapList
BY JoinTokens, UnitProperties DEF AddChapter

LEMMA AddChapterUnshared ==
    ASSUME NEW d \in Chapters, NEW c \in Chapters, AtMostOneToken(AddChapter(Unit(d), c))
    PROVE  AddChapter(Unit(d), c) = Unit(d)
<1>1. CASE \E x \in Tokens(Unit(d)) : <<x, c>> \in Contains
  BY <1>1 DEF AddChapter
<1>2. CASE ~\E x \in Tokens(Unit(d)) : <<x, c>> \in Contains
  <2>1. AddChapter(Unit(d), c) = JoinChap(Unit(d), Unit(c))
    BY <1>2 DEF AddChapter
  <2>2. Tokens(JoinChap(Unit(d), Unit(c))) = {d, c}
    BY JoinTokens, UnitProperties
  <2>3. c = d
    BY <2>1, <2>2 DEF AtMostOneToken
  <2> QED
    BY <1>2, <2>3, UnitProperties, IngestAssumption
<1> QED
  BY <1>1, <1>2

(* Replacing or appending an entry of the directory. *)
LEMMA DirectorySet ==
    ASSUME MemoryInv, NEW i \in DOMAIN mdir, NEW r \in MemNode,
           mdir' = [mdir EXCEPT ![i] = r]
    PROVE  /\ mdir' \in Seq(MemNode) /\ Len(mdir') = Len(mdir)
           /\ DOMAIN mdir' = DOMAIN mdir
           /\ mdir'[i] = r
           /\ \A j \in DOMAIN mdir : j # i => mdir'[j] = mdir[j]
BY DEF MemoryInv

LEMMA DirectoryAppend ==
    ASSUME MemoryInv, NEW r \in MemNode, mdir' = Append(mdir, r)
    PROVE  /\ mdir' \in Seq(MemNode) /\ Len(mdir') = Len(mdir) + 1
           /\ DOMAIN mdir' = DOMAIN mdir \cup {Len(mdir) + 1}
           /\ mdir'[Len(mdir) + 1] = r
           /\ \A j \in DOMAIN mdir : mdir'[j] = mdir[j]
BY DEF MemoryInv

LEMMA ReadItemInv ==
    ASSUME IngestInv, NEW t \in Texts, NEW c \in Chapters, ReadItem(t, c)
    PROVE  IngestInv'
<1>1. /\ pc = "idle" /\ UNCHANGED <<vars, next, work>> /\ work = "parse"
      /\ sharing' = (sharing \/ \E i \in DOMAIN mdir' : ~AtMostOneToken(mdir'[i].Chap))
  BY IdleUnlessLoading DEF ReadItem
<1>2. MemoryInv
  BY DEF IngestInv
<1>3. /\ mdir' \in Seq(MemNode) /\ Len(mdir') <= MaxNodes
      /\ ~sharing' => \A i \in DOMAIN mdir' : \E d \in Chapters : mdir'[i].Chap = Unit(d)
  <2>1. CASE Slot(t) = {}
    <3> DEFINE r == [S |-> t, Chap |-> Unit(c), I |-> {}]
    <3>1. r \in MemNode /\ r.Chap = Unit(c)
      BY UnitProperties DEF MemNode
    <3>2. mdir' = Append(mdir, r) /\ Len(mdir) < MaxNodes
      BY <2>1 DEF ReadItem
    <3> HIDE DEF r
    <3>3. /\ mdir' \in Seq(MemNode) /\ Len(mdir') = Len(mdir) + 1
          /\ DOMAIN mdir' = DOMAIN mdir \cup {Len(mdir) + 1}
          /\ mdir'[Len(mdir) + 1] = r
          /\ \A j \in DOMAIN mdir : mdir'[j] = mdir[j]
      BY <1>2, <3>1, <3>2, DirectoryAppend
    <3>4. Len(mdir') <= MaxNodes
      BY <1>2, <3>2, <3>3, IngestAssumption DEF MemoryInv
    <3>5. ASSUME ~sharing', NEW i \in DOMAIN mdir'
          PROVE  \E d \in Chapters : mdir'[i].Chap = Unit(d)
      <4>1. CASE i \in DOMAIN mdir
        BY <1>1, <3>3, <3>5, <4>1 DEF IngestInv, Unshared
      <4>2. CASE i = Len(mdir) + 1
        BY <3>1, <3>3, <4>2
      <4> QED
        BY <3>3, <4>1, <4>2
    <3> QED
      BY <3>3, <3>4, <3>5
  <2>2. CASE Slot(t) # {}
    <3>1. PICK i \in Slot(t) :
              mdir' = [mdir EXCEPT ![i] =
                         [S |-> t, Chap |-> AddChapter(mdir[i].Chap, c), I |-> mdir[i].I]]
      BY <2>2 DEF ReadItem
    <3> DEFINE r == [S |-> t, Chap |-> AddChapter(mdir[i].Chap, c), I |-> mdir[i].I]
    <3>2. i \in DOMAIN mdir /\ mdir[i] \in MemNode
      BY <1>2, DirectoryNodes DEF Slot
    <3>3. r \in MemNode /\ r.Chap = AddChapter(mdir[i].Chap, c)
      BY <3>2, AddChapterTypes DEF MemNode
    <3>4. mdir' = [mdir EXCEPT ![i] = r]
      BY <3>1
    <3> HIDE DEF r
    <3>5. /\ mdir' \in Seq(MemNode) /\ Len(mdir') = Len(mdir)
          /\ DOMAIN mdir' = DOMAIN mdir
          /\ mdir'[i] = r
          /\ \A j \in DOMAIN mdir : j # i => mdir'[j] = mdir[j]
      BY <1>2, <3>2, <3>3, <3>4, DirectorySet
    <3>6. ASSUME ~sharing', NEW j \in DOMAIN mdir'
          PROVE  \E d \in Chapters : mdir'[j].Chap = Unit(d)
      <4>1. PICK d \in Chapters : mdir[j].Chap = Unit(d)
        BY <1>1, <3>5, <3>6 DEF IngestInv, Unshared
      <4>2. CASE j # i
        BY <3>5, <4>1, <4>2
      <4>3. CASE j = i
        <5>1. AtMostOneToken(AddChapter(Unit(d), c))
          BY <1>1, <3>3, <3>5, <3>6, <4>1, <4>3
        <5>2. mdir'[j].Chap = Unit(d)
          BY <3>3, <3>5, <4>1, <4>3, <5>1, AddChapterUnshared
        <5> QED
          BY <5>2
      <4> QED
        BY <4>2, <4>3
    <3> QED
      BY <1>2, <3>5, <3>6 DEF MemoryInv
  <2> QED
    BY <2>1, <2>2
<1>4. StoreInv' /\ Unshared'
  BY <1>1, <1>3, StoreSame DEF IngestInv, Unshared
<1>5. MemoryInv'
  BY <1>1, <1>2, <1>3 DEF MemoryInv
<1> QED
  BY <1>1, <1>4, <1>5, OutsideUpload DEF IngestInv, vars

LEMMA ReadLinkInv ==
    ASSUME IngestInv, NEW i \in DOMAIN mdir, NEW j \in DOMAIN mdir, ReadLink(i, j)
    PROVE  IngestInv'
<1>1. /\ pc = "idle" /\ UNCHANGED <<vars, next, work, sharing>> /\ work = "parse" /\ i # j
      /\ mdir' = [mdir EXCEPT ![i].I = @ \cup {j - 1}, ![j].I = @ \cup {i - 1}]
  BY IdleUnlessLoading DEF ReadLink
<1>2. MemoryInv
  BY DEF IngestInv
<1>3. i \in 1 .. Len(mdir) /\ j \in 1 .. Len(mdir) /\ Len(mdir) <= MaxNodes
  BY <1>2 DEF MemoryInv
<1> DEFINE r == [mdir[i] EXCEPT !.I = @ \cup {j - 1}]
           q == [mdir[j] EXCEPT !.I = @ \cup {i - 1}]
<1>4. /\ r \in MemNode /\ r.Chap = mdir[i].Chap
      /\ q \in MemNode /\ q.Chap = mdir[j].Chap
  <2>1. mdir[i] \in MemNode /\ mdir[j] \in MemNode
    BY <1>2, DirectoryNodes
  <2>2. j - 1 \in 0 .. (MaxNodes - 1) /\ i - 1 \in 0 .. (MaxNodes - 1)
    BY <1>2, <1>3, IngestAssumption DEF MemoryInv
  <2> QED
    BY <2>1, <2>2 DEF MemNode
<1>5. /\ mdir' \in Seq(MemNode) /\ Len(mdir') = Len(mdir)
      /\ DOMAIN mdir' = DOMAIN mdir
      /\ \A k \in DOMAIN mdir : mdir'[k].Chap = mdir[k].Chap
  <2>1. mdir' = [[mdir EXCEPT ![i] = r] EXCEPT ![j] = q]
    BY <1>1
  <2> HIDE DEF r, q
  <2> QED
    BY <1>2, <1>4, <2>1 DEF MemoryInv
<1> HIDE DEF r, q
<1>6. StoreInv' /\ Unshared'
  <2>1. /\ StoreInv'
        /\ ~sharing => ChapterIndexExact' /\ NoRepeats'
    BY <1>1, StoreSame DEF IngestInv, Unshared
  <2>2. ~sharing => \A k \in DOMAIN mdir' : \E c \in Chapters : mdir'[k].Chap = Unit(c)
    BY <1>5 DEF IngestInv, Unshared
  <2> QED
    BY <1>1, <2>1, <2>2 DEF Unshared
<1>7. MemoryInv'
  BY <1>1, <1>2, <1>5 DEF MemoryInv
<1> QED
  BY <1>1, <1>6, <1>7, OutsideUpload DEF IngestInv, vars

-----------------------------------------------------------------------------
(* The decision to upload.  A chapter of the file that holds texts in the  *)
(* store is a conflict, as long as every label is one chapter.             *)
LEMMA ConflictFound ==
    ASSUME StoreInv, MemoryInv, Unshared, ~sharing,
           NEW c \in Chapters, Noted[c] # {}, Stored[c] # {}
    PROVE  Unit(c) \in Conflicts
<1>1. Unit(c) \in MemChapters
  <2>1. PICK i \in DOMAIN mdir : c \in Tokens(mdir[i].Chap)
    BY NotedIs
  <2>2. PICK d \in Chapters : mdir[i].Chap = Unit(d)
    BY DEF Unshared
  <2>3. c = d
    BY <2>1, <2>2, UnitProperties
  <2> QED
    BY <2>2, <2>3 DEF MemChapters
<1>2. Unit(c) \in DBChapters
  <2>1. PICK k \in Keys : c \in MemberBar(k)
    BY DEF Stored
  <2>2. text[k] # Missing /\ text[k] \in Live /\ c \in Tokens(node[text[k]].Chap)
    BY <2>1 DEF MemberBar, StoreInv, TextIndexExact, TypeOK, Live, ReadNode
  <2>3. <<Unit(c), text[k]>> \in chapIdx
    BY <2>2 DEF Unshared, ChapterIndexExact
  <2> QED
    BY <2>3 DEF DBChapters
<1> QED
  BY <1>1, <1>2 DEF Conflicts

LEMMA UploadInv ==
    ASSUME IngestInv, Upload
    PROVE  IngestInv'
<1>1. /\ pc = "idle" /\ work = "parse" /\ next' = 1 /\ before' = Stored
      /\ UNCHANGED <<vars, force, mdir, files, kills, sharing>>
      /\ \/ Conflicts # {} /\ ~force /\ work' = "refused" /\ todel' = {}
         \/ Conflicts # {} /\ force /\ work' = "delete" /\ todel' = Conflicts
         \/ Conflicts = {} /\ work' = "load" /\ todel' = {}
  BY IdleUnlessLoading DEF Upload
<1>2. StoreInv /\ MemoryInv /\ Unshared /\ Len(mdir) \in Nat
  BY DEF IngestInv, MemoryInv
<1>3. Noted' = Noted /\ MemChapters' = MemChapters /\ Stored' = Stored
  BY <1>1, StoreSame, MemorySame
<1>4. StoreInv' /\ Unshared'
  BY <1>1, <1>2, StoreSame DEF Unshared
<1>5. MemoryInv'
  BY <1>1, <1>2, <1>3 DEF MemoryInv, Conflicts
<1>6. LoadCall' /\ LoadedFiled'
  BY <1>1, <1>2 DEF LoadCall, LoadedFiled, vars
<1>7. OthersUntouched'
  BY <1>1, <1>3 DEF OthersUntouched
<1>8. OldVersionGoes'
  <2>1. ASSUME ~sharing, NEW c \in Chapters, Noted[c] # {}, Stored[c] # {}
        PROVE  Unit(c) \in Conflicts
    BY <1>2, <2>1, ConflictFound
  <2> QED
    BY <1>1, <1>3, <2>1 DEF OldVersionGoes
<1>9. NoForceNoConflict'
  <2>1. ASSUME ~sharing, NEW c \in Chapters, Noted[c] # {}, Stored[c] # {}
        PROVE  Unit(c) \in Conflicts
    BY <1>2, <2>1, ConflictFound
  <2> QED
    BY <1>1, <1>3, <2>1 DEF NoForceNoConflict
<1> QED
  BY <1>4, <1>5, <1>6, <1>7, <1>8, <1>9 DEF IngestInv

(* One deletion under -force. *)
LEMMA DeleteNextInv ==
    ASSUME IngestInv, NEW l \in todel, DeleteNext(l)
    PROVE  IngestInv'
<1>1. /\ work = "delete" /\ pc = "idle" /\ todel' = todel \ {l}
      /\ work' = (IF todel' = {} THEN "load" ELSE "delete")
      /\ UNCHANGED <<force, mdir, next, files, kills, sharing, before>>
  BY IdleUnlessLoading DEF DeleteNext
<1>2. \/ \E c \in Chapters : l = Unit(c) /\ DeleteChapter(c)
      \/ (\A c \in Chapters : l # Unit(c)) /\ DeleteLabel(l)
  BY DEF DeleteNext
<1>3. /\ StoreInv /\ MemoryInv /\ Unshared /\ OldVersionGoes /\ OthersUntouched
      /\ todel \subseteq MemChapters /\ force /\ next = 1 /\ Len(mdir) \in Nat
  BY <1>1 DEF IngestInv, MemoryInv
<1>4. Noted' = Noted /\ MemChapters' = MemChapters
  BY <1>1, MemorySame
<1>5. StoreInv'
  BY <1>2, <1>3, DeleteChapterStore, DeleteLabelStore
<1>6. pc' = "idle"
  BY <1>1, <1>2 DEF DeleteChapter, DeleteLabel
<1>7. MemoryInv'
  BY <1>1, <1>3, <1>4 DEF MemoryInv
<1>8. LoadCall' /\ LoadedFiled' /\ NoForceNoConflict'
  BY <1>1, <1>3, <1>6 DEF LoadCall, LoadedFiled, NoForceNoConflict
<1>9. ASSUME ~sharing
      PROVE  /\ ChapterIndexExact' /\ NoRepeats'
             /\ \E c \in Chapters :
                  /\ l = Unit(c) /\ Noted[c] # {} /\ Stored'[c] = {}
                  /\ \A d \in Chapters : d # c => Stored'[d] = Stored[d]
  <2>1. PICK i \in DOMAIN mdir : l = mdir[i].Chap
    BY <1>3 DEF MemChapters
  <2>2. PICK c \in Chapters : l = Unit(c)
    BY <1>3, <1>9, <2>1 DEF Unshared
  <2>3. DeleteChapter(c)
    BY <1>2, <2>2, UnitProperties
  <2>4. IndexInv
    BY <1>3, <1>9 DEF IndexInv, StoreInv, Unshared
  <2>5. ChapterIndexExact' /\ NoRepeats'
    BY <2>3, <2>4, DeleteChapterIndex DEF IndexInv
  <2>6. \A k \in Keys : MemberBar(k)' = MemberBar(k) \ {c}
    BY <2>3, <2>4, DeleteMembers
  <2>7. Stored'[c] = {} /\ \A d \in Chapters : d # c => Stored'[d] = Stored[d]
    BY <2>6 DEF Stored
  <2>8. Noted[c] # {}
    <3>1. c \in Tokens(mdir[i].Chap)
      BY <2>1, <2>2, UnitProperties
    <3>2. Fold[mdir[i].S] \in Noted[c]
      BY <3>1, NotedIs
    <3> QED
      BY <3>2
  <2> QED
    BY <2>2, <2>5, <2>7, <2>8
<1>10. Unshared'
  BY <1>1, <1>3, <1>9 DEF Unshared
<1>11. OthersUntouched'
  BY <1>1, <1>3, <1>4, <1>9 DEF OthersUntouched
<1>12. OldVersionGoes'
  <2>1. ASSUME ~sharing, NEW d \in Chapters, Noted[d] # {}, Stored'[d] # {}
        PROVE  Unit(d) \in todel'
    <3>1. PICK c \in Chapters : /\ l = Unit(c) /\ Stored'[c] = {}
                               /\ \A e \in Chapters : e # c => Stored'[e] = Stored[e]
      BY <1>9, <2>1
    <3>2. d # c /\ Stored[d] # {}
      BY <2>1, <3>1
    <3>3. Unit(d) \in todel
      BY <1>1, <1>3, <2>1, <3>2 DEF OldVersionGoes
    <3> QED
      BY <1>1, <3>1, <3>2, <3>3, UnitProperties
  <2> QED
    BY <1>1, <1>4, <2>1 DEF OldVersionGoes
<1> QED
  BY <1>5, <1>7, <1>8, <1>10, <1>11, <1>12 DEF IngestInv

-----------------------------------------------------------------------------
(* Loading. *)

(* The steps of AddNode file at most the text at hand under its chapters:  *)
(* what was loaded stays filed and no other chapter is touched.            *)
LEMMA LoadingFiles ==
    ASSUME IngestInv, work = "load", next \in DOMAIN mdir,
           UNCHANGED <<work, force, mdir, sharing, before>>,
           \A k \in Keys :
              /\ MemberBar(k) \subseteq MemberBar(k)'
              /\ MemberBar(k)' \subseteq MemberBar(k) \cup
                    (IF k = Fold[mdir[next].S] THEN Tokens(mdir[next].Chap) ELSE {})
    PROVE  /\ OldVersionGoes' /\ OthersUntouched' /\ NoForceNoConflict'
           /\ \A i \in 1 .. next - 1 :
                (Tokens(mdir[i].Chap) \subseteq MemberBar(Fold[mdir[i].S]))'
<1>1. Noted' = Noted
  BY MemorySame
<1>2. MemoryInv
  BY DEF IngestInv
<1>3. ASSUME NEW c \in Chapters
      PROVE  Stored[c] \subseteq Stored'[c] /\ Stored'[c] \subseteq Stored[c] \cup Noted[c]
  <2>1. Stored[c] \subseteq Stored'[c]
    BY DEF Stored
  <2>2. ASSUME NEW k \in Stored'[c], k \notin Stored[c]
        PROVE  k \in Noted[c]
    <3>1. k \in Keys /\ c \in MemberBar(k)' /\ c \notin MemberBar(k)
      BY <2>2 DEF Stored
    <3>2. k = Fold[mdir[next].S] /\ c \in Tokens(mdir[next].Chap)
      BY <3>1
    <3> QED
      BY <1>2, <3>2, NotedIs
  <2> QED
    BY <2>1, <2>2
<1>4. OldVersionGoes' /\ OthersUntouched' /\ NoForceNoConflict'
  BY <1>1, <1>3 DEF IngestInv, OldVersionGoes, OthersUntouched, NoForceNoConflict
<1>5. ASSUME NEW i \in 1 .. next - 1
      PROVE  (Tokens(mdir[i].Chap) \subseteq MemberBar(Fold[mdir[i].S]))'
  <2>1. i \in DOMAIN mdir
    BY <1>2 DEF MemoryInv
  <2>2. Fold[mdir[i].S] \in Keys
    BY <1>2, <2>1, DirectoryNodes
  <2>3. Tokens(mdir[i].Chap) \subseteq MemberBar(Fold[mdir[i].S])
    BY DEF IngestInv, LoadedFiled
  <2>4. ASSUME NEW k \in Keys, k = Fold[mdir[i].S]
        PROVE  MemberBar(k) \subseteq MemberBar(Fold[mdir[i].S])'
    <3>1. k = Fold[mdir[i].S]'
      BY <2>4
    <3>2. MemberBar(k)' = MemberBar(Fold[mdir[i].S])'
      BY <3>1 DEF MemberBar
    <3> QED
      BY <3>2
  <2> QED
    BY <2>2, <2>3, <2>4
<1> QED
  BY <1>4, <1>5

(* The upload moves on once the node at hand is filed. *)
LEMMA NextLoaded ==
    ASSUME IngestInv, work = "load", next \in DOMAIN mdir,
           UNCHANGED <<work, mdir>>, next' = next + 1,
           \A i \in 1 .. next - 1 : (Tokens(mdir[i].Chap) \subseteq MemberBar(Fold[mdir[i].S]))',
           NEW k \in Keys, k = Fold[mdir[next].S], Tokens(mdir[next].Chap) \subseteq MemberBar(k)'
    PROVE  LoadedFiled'
<1>1. next \in 1 .. Len(mdir) /\ Len(mdir) \in Nat
  BY DEF IngestInv, MemoryInv
<1>2. ASSUME NEW i \in 1 .. next
      PROVE  (Tokens(mdir[i].Chap) \subseteq MemberBar(Fold[mdir[i].S]))'
  <2>1. CASE i \in 1 .. next - 1
    BY <2>1
  <2>2. CASE i = next
    <3>1. k = Fold[mdir[i].S]' /\ Tokens(mdir[i].Chap)' = Tokens(mdir[next].Chap)
      BY <2>2 DEF Tokens
    <3>2. MemberBar(k)' = MemberBar(Fold[mdir[i].S])'
      BY <3>1 DEF MemberBar
    <3> QED
      BY <3>1, <3>2
  <2> QED
    BY <1>1, <2>1, <2>2
<1>3. next' \in 1 .. Len(mdir') + 1 /\ 1 .. next' - 1 = 1 .. next
  BY <1>1
<1> QED
  BY <1>2, <1>3 DEF LoadedFiled

LEMMA LoadKnownInv ==
    ASSUME IngestInv, LoadKnown
    PROVE  IngestInv'
<1> DEFINE n == mdir[next]
           k0 == Fold[n.S]
<1>1. /\ work = "load" /\ pc = "idle" /\ AddExisting(n) /\ next <= Len(mdir) /\ next' = next + 1
      /\ UNCHANGED <<work, force, mdir, todel, files, kills, sharing, before>>
      /\ UNCHANGED <<text, pm, seqStored, pc, req, id, issued>>
  BY DEF LoadKnown, AddExisting
<1>2. StoreInv /\ MemoryInv /\ Unshared /\ next \in DOMAIN mdir
  BY <1>1 DEF IngestInv, LoadedFiled, MemoryInv
<1>3. n.S \in Texts /\ n.Chap \in ChapList /\ k0 \in Keys
  BY <1>2, DirectoryNodes
<1> HIDE DEF n, k0
<1>4. /\ TypeOK' /\ TextIndexExact' /\ Live' = Live
      /\ \A q \in Live : node'[q].S = node[q].S
  BY <1>1, <1>2, <1>3, AddExistingEffect DEF StoreInv
<1>5. \A k \in Keys : MemberBar(k)' = MemberBar(k) \cup (IF k = k0 THEN Tokens(n.Chap) ELSE {})
  BY <1>1, <1>2, <1>3, AddExistingMembers DEF StoreInv, k0
<1>6. StoreInv'
  BY <1>1, <1>2, <1>4 DEF StoreInv, IdsBelowCounter
<1>7. MemoryInv'
  BY <1>1, <1>2 DEF MemoryInv
<1>8. LoadCall'
  BY <1>1 DEF LoadCall
<1>9. /\ OldVersionGoes' /\ OthersUntouched' /\ NoForceNoConflict'
      /\ \A i \in 1 .. next - 1 : (Tokens(mdir[i].Chap) \subseteq MemberBar(Fold[mdir[i].S]))'
  BY <1>1, <1>2, <1>5, LoadingFiles DEF n, k0
<1>10. LoadedFiled'
  BY <1>1, <1>2, <1>3, <1>5, <1>9, NextLoaded DEF n, k0
<1>11. Unshared'
  <2>1. ASSUME ~sharing
        PROVE  ChapterIndexExact' /\ NoRepeats'
    <3>1. \E c \in Chapters : n.Chap = Unit(c)
      BY <1>2, <2>1 DEF Unshared, n
    <3>2. IndexInv
      BY <1>2, <2>1 DEF IndexInv, StoreInv, Unshared
    <3> QED
      BY <1>1, <1>3, <3>1, <3>2, AddExistingIndex DEF IndexInv
  <2> QED
    BY <1>1, <1>2, <2>1 DEF Unshared
<1> QED
  BY <1>6, <1>7, <1>8, <1>9, <1>10, <1>11 DEF IngestInv

LEMMA LoadNewInv ==
    ASSUME IngestInv, LoadNew
    PROVE  IngestInv'
<1> DEFINE n == mdir[next]
<1>1. /\ work = "load" /\ AddLease(n) /\ next <= Len(mdir)
      /\ UNCHANGED runVars
      /\ UNCHANGED <<node, text, chapIdx, pm, issued>>
      /\ pc' = "leased" /\ req' = n /\ id' = seqStored /\ seqStored < MaxId
      /\ seqStored' = seqStored + Bandwidth /\ ~Found(n)
  BY DEF LoadNew, AddLease
<1>2. StoreInv /\ MemoryInv /\ Unshared /\ next \in DOMAIN mdir
  BY <1>1 DEF IngestInv, LoadedFiled, MemoryInv
<1>3. n \in Node /\ n.S # NoText
  BY <1>2, DirectoryNodes
<1> HIDE DEF n
<1>4. Live' = Live /\ \A k : MemberBar(k)' = MemberBar(k)
  BY <1>1 DEF Live, MemberBar, ReadNode
<1>5. id' \in Ids /\ id' < seqStored' /\ \A p \in issued : p < id' /\ p < seqStored'
  BY <1>1, <1>2, ConstantsAssumption DEF StoreInv, TypeOK, IdsBelowCounter, Ids
<1>6. TypeOK'
  BY <1>1, <1>2, <1>3, <1>5, ConstantsAssumption DEF StoreInv, TypeOK
<1>7. StoreInv'
  BY <1>1, <1>2, <1>4, <1>5, <1>6 DEF StoreInv, TextIndexExact, IdsBelowCounter
<1>8. MemoryInv'
  <2>1. MemChapters' = MemChapters
    BY <1>1, MemorySame DEF runVars
  <2> QED
    BY <1>1, <1>2, <2>1 DEF MemoryInv, runVars
<1>9. LoadCall'
  BY <1>1, <1>2, <1>3, <1>5 DEF LoadCall, runVars, Found, n
<1>10. /\ OldVersionGoes' /\ OthersUntouched' /\ NoForceNoConflict'
       /\ \A i \in 1 .. next - 1 : (Tokens(mdir[i].Chap) \subseteq MemberBar(Fold[mdir[i].S]))'
  BY <1>1, <1>2, <1>4, LoadingFiles DEF runVars
<1>11. LoadedFiled'
  BY <1>1, <1>10 DEF IngestInv, LoadedFiled, runVars
<1>12. Unshared'
  BY <1>1, <1>2, <1>4 DEF Unshared, ChapterIndexExact, NoRepeats, runVars
<1> QED
  BY <1>7, <1>8, <1>9, <1>10, <1>11, <1>12 DEF IngestInv

LEMMA LoadWriteInv ==
    ASSUME IngestInv, LoadWrite
    PROVE  IngestInv'
<1>1. /\ AddWrite /\ pc = "leased" /\ pc' = "written"
      /\ UNCHANGED runVars /\ UNCHANGED <<pm, seqStored, req, id>>
      /\ issued' = issued \cup {id}
  BY DEF LoadWrite, AddWrite
<1>2. /\ StoreInv /\ MemoryInv /\ Unshared /\ next \in DOMAIN mdir
      /\ work = "load" /\ req = mdir[next]
      /\ id \in Ids /\ id < seqStored /\ \A p \in issued : p < id
      /\ text[Fold[req.S]] = Missing
  BY <1>1 DEF IngestInv, LoadCall
<1>3. id \notin Live
  BY <1>2 DEF StoreInv, IdsBelowCounter, Ids
<1>4. req.S # NoText
  BY <1>2, DirectoryNodes
<1>5. /\ TypeOK' /\ TextIndexExact' /\ Live' = Live \cup {id}
      /\ node'[id] = req /\ \A q \in Ids : q # id => node'[q] = node[q]
  BY <1>1, <1>2, <1>3, AddWriteEffect DEF StoreInv
<1>6. /\ Fold[req.S] \in Keys /\ MemberBar(Fold[req.S]) = {}
      /\ \A k \in Keys : MemberBar(k)' = IF k = Fold[req.S] THEN Tokens(req.Chap)
                                          ELSE MemberBar(k)
  BY <1>1, <1>2, <1>3, <1>4, AddWriteMembers DEF StoreInv
<1>7. issued \subseteq Ids /\ \A p \in issued' : p <= id /\ p < seqStored'
  BY <1>1, <1>2 DEF StoreInv, TypeOK, Ids
<1>8. StoreInv'
  <2>1. IdsBelowCounter'
    BY <1>1, <1>2, <1>5, <1>7 DEF StoreInv, IdsBelowCounter
  <2>2. \A p \in Live' : node'[p].S # NoText
    BY <1>2, <1>4, <1>5 DEF StoreInv, Live
  <2> QED
    BY <1>5, <2>1, <2>2 DEF StoreInv
<1>9. MemoryInv'
  <2>1. MemChapters' = MemChapters
    BY <1>1, MemorySame DEF runVars
  <2> QED
    BY <1>1, <1>2, <2>1 DEF MemoryInv, runVars
<1>10. LoadCall'
  <2>1. Tokens(req.Chap)' \subseteq MemberBar(Fold[req.S])'
    <3>1. \A k \in Keys : k = Fold[req.S] => MemberBar(k)' = MemberBar(Fold[req.S])'
      BY <1>1 DEF MemberBar
    <3> QED
      BY <1>1, <1>6, <3>1 DEF Tokens
  <2> QED
    BY <1>1, <1>2, <1>7, <2>1 DEF LoadCall, runVars
<1>11. /\ OldVersionGoes' /\ OthersUntouched' /\ NoForceNoConflict'
       /\ \A i \in 1 .. next - 1 : (Tokens(mdir[i].Chap) \subseteq MemberBar(Fold[mdir[i].S]))'
  BY <1>1, <1>2, <1>6, LoadingFiles DEF runVars
<1>12. LoadedFiled'
  BY <1>1, <1>2, <1>11 DEF IngestInv, LoadedFiled, runVars
<1>13. Unshared'
  <2>1. ASSUME ~sharing
        PROVE  ChapterIndexExact' /\ NoRepeats'
    <3>1. \E c \in Chapters : req.Chap = Unit(c)
      BY <1>2, <2>1 DEF Unshared
    <3>2. IndexInv
      BY <1>2, <2>1 DEF IndexInv, StoreInv, Unshared
    <3> QED
      BY <1>1, <1>2, <1>3, <3>1, <3>2, AddWriteIndex DEF IndexInv
  <2> QED
    BY <1>1, <1>2, <2>1 DEF Unshared, runVars
<1> QED
  BY <1>8, <1>9, <1>10, <1>11, <1>12, <1>13 DEF IngestInv

LEMMA LoadReleaseInv ==
    ASSUME IngestInv, LoadRelease
    PROVE  IngestInv'
<1>1. /\ pc = "written" /\ next' = next + 1
      /\ UNCHANGED <<work, force, mdir, todel, files, kills, sharing, before>>
      /\ UNCHANGED <<node, text, chapIdx, pm, issued>>
      /\ seqStored' = id + 1 /\ pc' = "idle" /\ req' = NoReq /\ id' = Missing
  BY DEF LoadRelease, AddRelease
<1>2. /\ StoreInv /\ MemoryInv /\ Unshared /\ next \in DOMAIN mdir
      /\ work = "load" /\ req = mdir[next] /\ id \in Ids
      /\ \A p \in issued : p <= id
      /\ Tokens(req.Chap) \subseteq MemberBar(Fold[req.S])
  BY <1>1 DEF IngestInv, LoadCall
<1>3. Live' = Live /\ \A k : MemberBar(k)' = MemberBar(k)
  BY <1>1 DEF Live, MemberBar, ReadNode
<1>4. StoreInv'
  <2>1. TypeOK'
    <3>1. NoReq \in Node
      BY DEF NoReq, NoChap, Node, ChapList
    <3> QED
      BY <1>1, <1>2, <3>1 DEF StoreInv, TypeOK, Ids
  <2>2. IdsBelowCounter'
    BY <1>1, <1>2, <1>3 DEF StoreInv, IdsBelowCounter, TypeOK, Ids
  <2> QED
    BY <1>1, <1>2, <1>3, <2>1, <2>2 DEF StoreInv, TextIndexExact
<1>5. MemoryInv'
  BY <1>1, <1>2 DEF MemoryInv
<1>6. LoadCall'
  BY <1>1 DEF LoadCall
<1>7. /\ OldVersionGoes' /\ OthersUntouched' /\ NoForceNoConflict'
      /\ \A i \in 1 .. next - 1 : (Tokens(mdir[i].Chap) \subseteq MemberBar(Fold[mdir[i].S]))'
  BY <1>1, <1>2, <1>3, LoadingFiles
<1>8. LoadedFiled'
  <2>1. Fold[mdir[next].S] \in Keys
    BY <1>2, DirectoryNodes
  <2> QED
    BY <1>1, <1>2, <1>3, <1>7, <2>1, NextLoaded
<1>9. Unshared'
  BY <1>1, <1>2, <1>3 DEF Unshared, ChapterIndexExact, NoRepeats
<1> QED
  BY <1>4, <1>5, <1>6, <1>7, <1>8, <1>9 DEF IngestInv

(* The upload of the last node ends it. *)
LEMMA LoadEndInv ==
    ASSUME IngestInv, LoadEnd
    PROVE  IngestInv'
<1>1. /\ work = "load" /\ pc = "idle" /\ next > Len(mdir) /\ work' = "done"
      /\ UNCHANGED <<vars, force, mdir, todel, next, files, kills, sharing, before>>
  BY DEF LoadEnd
<1>2. Noted' = Noted /\ Stored' = Stored /\ \A k : MemberBar(k)' = MemberBar(k)
  BY <1>1, MemorySame, StoreSame
<1>3. StoreInv' /\ Unshared'
  BY <1>1, StoreSame DEF IngestInv, Unshared
<1>4. MemoryInv' /\ LoadCall'
  BY <1>1 DEF IngestInv, MemoryInv, LoadCall, vars
<1>5. OldVersionGoes' /\ OthersUntouched' /\ NoForceNoConflict'
  BY <1>1, <1>2 DEF IngestInv, OldVersionGoes, OthersUntouched, NoForceNoConflict
<1>6. LoadedFiled'
  <2>1. next = Len(mdir) + 1
    BY <1>1 DEF IngestInv, MemoryInv, LoadedFiled
  <2>2. ASSUME NEW i \in 1 .. next - 1
        PROVE  (Tokens(mdir[i].Chap) \subseteq MemberBar(Fold[mdir[i].S]))'
    BY <1>1, <1>2 DEF IngestInv, LoadedFiled, Tokens, vars
  <2> QED
    BY <1>1, <2>1, <2>2 DEF IngestInv, MemoryInv, LoadedFiled
<1> QED
  BY <1>3, <1>4, <1>5, <1>6 DEF IngestInv

(* The process forgets the file; a call that is cut off has left the store *)
(* in order.                                                               *)
LEMMA ForgetInv ==
    ASSUME IngestInv, Forget, Crash \/ (pc = "idle" /\ UNCHANGED vars)
    PROVE  IngestInv'
<1>1. /\ pc' = "idle" /\ UNCHANGED <<node, text, chapIdx, pm, seqStored, issued, sharing>>
      /\ work' = "off" /\ mdir' = <<>> /\ next' = 0
  BY DEF Forget, Crash, vars
<1>2. Live' = Live
  BY <1>1 DEF Live
<1>3. TypeOK'
  <2>1. NoReq \in Node
    BY DEF NoReq, NoChap, Node, ChapList
  <2>2. req' \in Node /\ id' \in Ids \cup {Missing}
    BY <2>1 DEF Crash, vars, IngestInv, StoreInv, TypeOK
  <2> QED
    BY <1>1, <2>2 DEF IngestInv, StoreInv, TypeOK
<1>4. StoreInv'
  BY <1>1, <1>2, <1>3 DEF IngestInv, StoreInv, TextIndexExact, IdsBelowCounter
<1>5. Unshared'
  BY <1>1, <1>2 DEF IngestInv, Unshared, ChapterIndexExact, NoRepeats
<1>6. MemoryInv'
  BY <1>1, IngestAssumption DEF MemoryInv
<1> QED
  BY <1>1, <1>4, <1>5, <1>6, OutsideUpload DEF IngestInv

-----------------------------------------------------------------------------
LEMMA IngestInitInv == IngestInit => IngestInv
<1> SUFFICES ASSUME IngestInit PROVE IngestInv
  OBVIOUS
<1>1. Init /\ work = "off" /\ mdir = <<>> /\ next = 0 /\ pc = "idle"
  BY DEF IngestInit, Init
<1>2. Inv
  BY <1>1, InitInv
<1>3. Live = {}
  BY <1>1 DEF Init, Live
<1>4. StoreInv
  BY <1>2, <1>3 DEF Inv, StoreInv
<1>5. MemoryInv /\ Unshared
  BY <1>1, <1>2, IngestAssumption DEF Inv, MemoryInv, Unshared
<1>6. LoadCall /\ LoadedFiled /\ OldVersionGoes /\ OthersUntouched /\ NoForceNoConflict
  BY <1>1 DEF LoadCall, LoadedFiled, OldVersionGoes, OthersUntouched, NoForceNoConflict
<1> QED
  BY <1>4, <1>5, <1>6 DEF IngestInv

LEMMA IngestNextInv == IngestInv /\ [IngestNext]_ingestVars => IngestInv'
<1> SUFFICES ASSUME IngestInv, [IngestNext]_ingestVars
             PROVE  IngestInv'
  OBVIOUS
<1>1. ASSUME NEW f \in BOOLEAN, StartN4L(f) PROVE IngestInv'
  BY <1>1, StartN4LInv
<1>2. ASSUME NEW t \in Texts, NEW c \in Chapters, ReadItem(t, c) PROVE IngestInv'
  BY <1>2, ReadItemInv
<1>3. ASSUME NEW i \in DOMAIN mdir, NEW j \in DOMAIN mdir, ReadLink(i, j) PROVE IngestInv'
  BY <1>3, ReadLinkInv
<1>4. ASSUME NEW l \in todel, DeleteNext(l) PROVE IngestInv'
  BY <1>4, DeleteNextInv
<1>5. ASSUME Exit PROVE IngestInv'
  <2>1. pc = "idle" /\ UNCHANGED vars /\ Forget
    BY <1>5, IdleUnlessLoading DEF Exit
  <2> QED
    BY <2>1, ForgetInv
<1>6. ASSUME Kill PROVE IngestInv'
  BY <1>6, ForgetInv DEF Kill
<1>7. CASE UNCHANGED ingestVars
  <2>1. UNCHANGED vars /\ UNCHANGED runVars
    BY <1>7 DEF ingestVars
  <2>2. /\ Noted' = Noted /\ MemChapters' = MemChapters
        /\ Stored' = Stored /\ \A k : MemberBar(k)' = MemberBar(k)
    BY <2>1, MemorySame, StoreSame DEF runVars
  <2>3. StoreInv' /\ Unshared'
    BY <2>1, StoreSame DEF IngestInv, Unshared, runVars
  <2>4. MemoryInv'
    BY <2>1, <2>2 DEF IngestInv, MemoryInv, runVars
  <2>5. OldVersionGoes' /\ OthersUntouched' /\ NoForceNoConflict'
    BY <2>1, <2>2 DEF IngestInv, OldVersionGoes, OthersUntouched, NoForceNoConflict, runVars
  <2>6. LoadCall' /\ LoadedFiled'
    BY <2>1 DEF IngestInv, LoadCall, LoadedFiled, runVars, vars, MemberBar, ReadNode, Tokens
  <2> QED
    BY <2>3, <2>4, <2>5, <2>6 DEF IngestInv
<1> QED
  BY <1>1, <1>2, <1>3, <1>4, <1>5, <1>6, <1>7, UploadInv, LoadKnownInv, LoadNewInv,
     LoadWriteInv, LoadReleaseInv, LoadEndInv DEF IngestNext, UploadStep

(* The inductive invariant holds of every history of uploads. *)
THEOREM IngestInvariant == IngestSpec => []IngestInv
<1>1. IngestInit => IngestInv
  BY IngestInitInv
<1>2. IngestInv /\ [IngestNext]_ingestVars => IngestInv'
  BY IngestNextInv
<1> QED
  BY <1>1, <1>2, PTL DEF IngestSpec

(* The text index stays exact even when texts are shared between chapters  *)
(* and AddNode files them under whole labels: a text is never stored twice *)
(* and no key leads to a deleted node.                                     *)
THEOREM UploadsKeepTextIndex == IngestSpec => [](TypeOK /\ TextIndexExact)
<1>1. IngestInv => TypeOK /\ TextIndexExact
  BY DEF IngestInv, StoreInv
<1> QED
  BY <1>1, IngestInvariant, PTL

(* When an upload ends, every text of the file is in the store under every *)
(* chapter the directory gives it, whatever earlier runs left there and    *)
(* whatever texts are shared.                                              *)
THEOREM UploadsAreComplete == IngestSpec => []UploadComplete
<1>1. ASSUME IngestInv, work = "done", NEW c \in Chapters,
             NEW k, k \in Noted[c]
      PROVE  k \in Stored[c]
  <2>1. PICK i \in DOMAIN mdir : c \in Tokens(mdir[i].Chap) /\ k = Fold[mdir[i].S]
    BY <1>1, NotedIs
  <2>2. MemoryInv /\ i \in 1 .. next - 1
    BY <1>1, <2>1 DEF IngestInv, MemoryInv, LoadedFiled
  <2>3. k \in Keys
    BY <2>1, <2>2, DirectoryNodes
  <2>4. c \in MemberBar(k)
    BY <1>1, <2>1, <2>2 DEF IngestInv, LoadedFiled
  <2> QED
    BY <2>3, <2>4 DEF Stored
<1>2. IngestInv => UploadComplete
  BY <1>1 DEF UploadComplete
<1> QED
  BY <1>2, IngestInvariant, PTL

(* A re-uploaded chapter holds exactly the file's texts, and a chapter the *)
(* file does not mention what it held before, as long as no file puts a    *)
(* text in two chapters.                                                   *)
THEOREM UploadsReplaceExactly == IngestSpec => []ReplacedExactly
<1>1. IngestInv /\ UploadComplete => ReplacedExactly
  BY DEF IngestInv, OldVersionGoes, UploadComplete, ReplacedExactly, NewVersionExact
<1> QED
  BY <1>1, IngestInvariant, UploadsAreComplete, PTL

(* Without -force a chapter that was in the store keeps just its texts.    *)
THEOREM ForceIsNeeded == IngestSpec => []NoForceProtectsUnshared
<1>1. IngestInv => NoForceProtectsUnshared
  BY DEF IngestInv, OthersUntouched, NoForceNoConflict, NoForceProtectsUnshared
<1> QED
  BY <1>1, IngestInvariant, PTL
=============================================================================
