----------------------------- MODULE Notes_proofs -----------------------------
(***************************************************************************)
(* The reader of N4L files for every set of items, arrows, marks, closures *)
(* and contexts, and every reading of any length: what is noted stays,     *)
(* links can be walked back, pages replayed, stories keep to their         *)
(* chapters, and the inferences close the similarity arrows.               *)
(*                                                                         *)
(* The memory is written with folds; they enter the proofs as runs, whose  *)
(* steps keep a set of directories, see Induction.                         *)
(***************************************************************************)
EXTENDS Notes, Induction

-----------------------------------------------------------------------------
(* The directory. *)

Texts == {Clean[i] : i \in Items}
Classes == {Storage[i] : i \in Items}
Chapters == Sections \cup {NoSection}
Tags == Fragments \ {SequenceTag}
Link == [dst : Nat, ctx : SUBSET Tags]
Node == [text : Texts, storage : Classes, chaps : SUBSET Chapters, seq : BOOLEAN,
         links : [Arrows -> Seq(Link)]]

LinksTo(list, q) == \E k \in 1 .. Len(list) : list[k].dst = q
OneEach(list) == \A k, j \in 1 .. Len(list) : list[k].dst = list[j].dst => k = j

(* One link at most per arrow and destination, and no link but an empty    *)
(* one to nowhere.                                                         *)
Tidy(d) ==
    \A p \in 1 .. Len(d), x \in Arrows :
        /\ OneEach(d[p].links[x])
        /\ \A q : LinksTo(d[p].links[x], q) =>
               q \in 0 .. Len(d) /\ (x # Empty => q # Nowhere)

Directories == {d \in Seq(Node) : Tidy(d)}

Joined(d, p, x, q) == LinksTo(d[p].links[x], q)

(* What NothingForgotten says of the links of one arrow. *)
ListKept(old, new) ==
    /\ Len(old) <= Len(new)
    /\ \A k \in 1 .. Len(old) : new[k].dst = old[k].dst /\ old[k].ctx \subseteq new[k].ctx

Kept(n, m) ==
    /\ m.text = n.text /\ m.storage = n.storage
    /\ n.chaps \subseteq m.chaps /\ (n.seq => m.seq)
    /\ \A x \in Arrows : ListKept(n.links[x], m.links[x])

Grown(d, e) == Len(d) <= Len(e) /\ \A p \in 1 .. Len(d) : Kept(d[p], e[p])

LEMMA NodeTypes ==
    ASSUME NEW d \in Seq(Node), NEW p \in 1 .. Len(d)
    PROVE  /\ d[p] \in Node
           /\ d[p].text \in Texts /\ d[p].storage \in Classes /\ d[p].seq \in BOOLEAN
           /\ d[p].chaps \subseteq Chapters
           /\ d[p].links \in [Arrows -> Seq(Link)]
           /\ \A x \in Arrows : d[p].links[x] \in Seq(Link)
<1>1. d[p] \in Node OBVIOUS
<1> QED BY <1>1 DEF Node

LEMMA ListKeptIsTransitive ==
    ASSUME NEW a \in Seq(Link), NEW b \in Seq(Link), NEW c \in Seq(Link),
           ListKept(a, b), ListKept(b, c)
    PROVE  ListKept(a, c)
<1>1. Len(a) <= Len(b) /\ Len(b) <= Len(c) BY DEF ListKept
<1>2. \A k \in 1 .. Len(a) : k \in 1 .. Len(b) BY <1>1
<1>3. \A k \in 1 .. Len(a) : c[k].dst = a[k].dst /\ a[k].ctx \subseteq c[k].ctx
  BY <1>2 DEF ListKept
<1> QED BY <1>1, <1>3 DEF ListKept

LEMMA GrownIsReflexive ==
    ASSUME NEW d \in Seq(Node)
    PROVE  Grown(d, d)
<1>1. \A p \in 1 .. Len(d), x \in Arrows : ListKept(d[p].links[x], d[p].links[x])
  BY NodeTypes DEF ListKept
<1> QED BY <1>1 DEF Grown, Kept

LEMMA GrownIsTransitive ==
    ASSUME NEW d \in Seq(Node), NEW e \in Seq(Node), NEW f \in Seq(Node),
           Grown(d, e), Grown(e, f)
    PROVE  Grown(d, f)
<1>1. Len(d) <= Len(f) BY DEF Grown
<1>2. ASSUME NEW p \in 1 .. Len(d) PROVE Kept(d[p], f[p])
  <2>1. p \in 1 .. Len(e) /\ p \in 1 .. Len(f) BY DEF Grown
  <2>2. Kept(d[p], e[p]) /\ Kept(e[p], f[p]) BY <2>1 DEF Grown
  <2>3. ASSUME NEW x \in Arrows PROVE ListKept(d[p].links[x], f[p].links[x])
    <3>1. ListKept(d[p].links[x], e[p].links[x]) /\ ListKept(e[p].links[x], f[p].links[x])
      BY <2>2 DEF Kept
    <3>2. d[p].links[x] \in Seq(Link) /\ e[p].links[x] \in Seq(Link)
            /\ f[p].links[x] \in Seq(Link)
      BY <2>1, NodeTypes
    <3> QED BY <3>1, <3>2, ListKeptIsTransitive
  <2> QED BY <2>2, <2>3, Zenon DEF Kept
<1> QED BY <1>1, <1>2 DEF Grown

(* A link, once there, stays. *)
LEMMA JoinedIsKept ==
    ASSUME NEW d \in Seq(Node), NEW e \in Seq(Node), Grown(d, e),
           NEW p \in 1 .. Len(d), NEW x \in Arrows, NEW q, Joined(d, p, x, q)
    PROVE  Joined(e, p, x, q)
<1>1. ListKept(d[p].links[x], e[p].links[x]) BY DEF Grown, Kept
<1>2. PICK k \in 1 .. Len(d[p].links[x]) : d[p].links[x][k].dst = q BY DEF Joined, LinksTo
<1>3. p \in 1 .. Len(e) BY DEF Grown
<1>4. d[p].links[x] \in Seq(Link) /\ e[p].links[x] \in Seq(Link) BY <1>3, NodeTypes
<1> DEFINE a == d[p].links[x]
           b == e[p].links[x]
<1>5. a \in Seq(Link) /\ b \in Seq(Link) /\ ListKept(a, b) /\ k \in 1 .. Len(a) /\ a[k].dst = q
  BY <1>1, <1>2, <1>4
<1> HIDE DEF a, b
<1>6. k \in 1 .. Len(b) /\ b[k].dst = q BY <1>5 DEF ListKept
<1> QED BY <1>6 DEF Joined, LinksTo, b

-----------------------------------------------------------------------------
(* Finding and making nodes. *)

LEMMA PointerFinds ==
    ASSUME NEW d \in Seq(Node), NEW i
    PROVE  /\ Pointer(d, i) \in 0 .. Len(d)
           /\ Pointer(d, i) # 0 => IsNodeOf(d[Pointer(d, i)], i)
           /\ \A p \in 1 .. Len(d) : IsNodeOf(d[p], i) => Pointer(d, i) # 0 /\ Pointer(d, i) <= p
<1> DEFINE I == {p \in 1 .. Len(d) : IsNodeOf(d[p], i)}
<1>1. Pointer(d, i) = IF I # {} THEN Min(I) ELSE 0
  BY Zenon DEF Pointer, SelectInSeq
<1>2. CASE I = {} BY <1>1, <1>2
<1>3. CASE I # {}
  <2>1. I \in SUBSET Nat OBVIOUS
  <2> HIDE DEF I
  <2>2. PICK p \in I : \A q \in I : p <= q BY <1>3, <2>1, LeastNatural
  <2>3. Min(I) \in I /\ \A q \in I : Min(I) <= q BY <2>2 DEF Min
  <2>4. Pointer(d, i) = Min(I) BY <1>1, <1>3
  <2> QED BY <2>3, <2>4 DEF I
<1> QED BY <1>2, <1>3

LEMMA PointerIsStable ==
    ASSUME NEW d \in Seq(Node), NEW e \in Seq(Node), Grown(d, e),
           NEW i, Pointer(d, i) # 0
    PROVE  Pointer(e, i) = Pointer(d, i)
<1>1. \A p \in 1 .. Len(d) : p \in 1 .. Len(e) /\ (IsNodeOf(d[p], i) <=> IsNodeOf(e[p], i))
  BY DEF Grown, Kept, IsNodeOf
<1> DEFINE p == Pointer(d, i)
           q == Pointer(e, i)
<1>2. p \in 1 .. Len(d) /\ IsNodeOf(d[p], i) BY PointerFinds
<1>3. q \in 1 .. Len(e) /\ IsNodeOf(e[q], i) /\ q <= p BY <1>1, <1>2, PointerFinds
<1>4. q \in 1 .. Len(d) BY <1>2, <1>3
<1>5. p <= q BY <1>1, <1>3, <1>4, PointerFinds
<1> QED BY <1>2, <1>3, <1>5

-----------------------------------------------------------------------------
(* Adding links. *)

LinkPlace(list, q) == SelectInSeq(list, LAMBDA l : l.dst = q)

LEMMA LinkFound ==
    ASSUME NEW list \in Seq(Link), NEW q
    PROVE  /\ LinkPlace(list, q) \in 0 .. Len(list)
           /\ LinkPlace(list, q) # 0 => list[LinkPlace(list, q)].dst = q
           /\ LinkPlace(list, q) = 0 => ~ LinksTo(list, q)
<1> DEFINE I == {k \in 1 .. Len(list) : list[k].dst = q}
           n == LinkPlace(list, q)
<1>1. n = IF I # {} THEN Min(I) ELSE 0 BY Zenon DEF SelectInSeq, LinkPlace
<1>2. CASE I = {} BY <1>1, <1>2 DEF LinksTo
<1>3. CASE I # {}
  <2>1. I \in SUBSET Nat OBVIOUS
  <2> HIDE DEF I
  <2>2. PICK p \in I : \A j \in I : p <= j BY <1>3, <2>1, LeastNatural
  <2>3. Min(I) \in I BY <2>2 DEF Min
  <2>4. n = Min(I) BY <1>1, <1>3
  <2> HIDE DEF n
  <2>5. n \in I BY <2>3, <2>4
  <2>6. n \in 1 .. Len(list) /\ list[n].dst = q BY <2>5 DEF I
  <2>7. n # 0 BY <2>6
  <2> QED BY <2>6, <2>7 DEF n
<1> QED BY <1>2, <1>3

(* What MergeLinkLists makes of a list. *)
LEMMA MergeLinks ==
    ASSUME NEW list \in Seq(Link), OneEach(list), NEW dst \in Nat, NEW label \in SUBSET Tags,
           NEW new, new = MergeLinkLists(list, dst, label)
    PROVE  /\ new \in Seq(Link) /\ OneEach(new) /\ ListKept(list, new)
           /\ \A q : LinksTo(new, q) <=> LinksTo(list, q) \/ q = dst
<1>1. PICK k : k = LinkPlace(list, dst) OBVIOUS
<1>2. new = IF k = 0 THEN Append(list, [dst |-> dst, ctx |-> label])
                     ELSE [list EXCEPT ![k].ctx = Label(@ \cup label)]
  BY <1>1, Zenon DEF MergeLinkLists, LinkPlace
<1>3. k \in 0 .. Len(list) /\ (k # 0 => list[k].dst = dst) /\ (k = 0 => ~ LinksTo(list, dst))
  BY <1>1, LinkFound
<1>4. CASE k = 0
  <2> DEFINE l == [dst |-> dst, ctx |-> label]
  <2>1. l \in Link /\ l.dst = dst BY DEF Link
  <2>2. new = Append(list, l) BY <1>2, <1>4
  <2>3. ~ LinksTo(list, dst) BY <1>3, <1>4
  <2> HIDE DEF l
  <2>4. new \in Seq(Link) /\ Len(new) = Len(list) + 1 /\ new[Len(new)].dst = dst
          /\ \A j \in 1 .. Len(list) : new[j] = list[j]
    BY <2>1, <2>2
  <2>5. \A j \in 1 .. Len(new) : j \in 1 .. Len(list) \/ j = Len(new) BY <2>4
  <2>6. \A j \in 1 .. Len(list) : list[j].dst # dst BY <2>3 DEF LinksTo
  <2>7. OneEach(new) BY <2>4, <2>5, <2>6 DEF OneEach
  <2>8. ListKept(list, new) BY <2>4 DEF ListKept
  <2>9. Len(new) \in 1 .. Len(new) /\ \A j \in 1 .. Len(list) : j \in 1 .. Len(new) BY <2>4
  <2>10. ASSUME NEW q PROVE LinksTo(new, q) <=> LinksTo(list, q) \/ q = dst
    BY <2>4, <2>5, <2>9 DEF LinksTo
  <2> QED BY <2>4, <2>7, <2>8, <2>10
<1>5. CASE k # 0
  <2>1. k \in 1 .. Len(list) /\ list[k].dst = dst BY <1>3, <1>5
  <2>2. list[k] \in Link BY <2>1
  <2> DEFINE l == [list[k] EXCEPT !.ctx = Label(@ \cup label)]
  <2>3. l \in Link /\ l.dst = dst /\ list[k].ctx \subseteq l.ctx
    BY <2>1, <2>2 DEF Link, Label, Tags
  <2>4. new = [list EXCEPT ![k] = l] BY <1>2, <1>5
  <2> HIDE DEF l
  <2>5. new \in Seq(Link) /\ Len(new) = Len(list) /\ new[k] = l
          /\ \A j \in 1 .. Len(list) : j # k => new[j] = list[j]
    BY <2>1, <2>3, <2>4
  <2>6. \A j \in 1 .. Len(list) : new[j].dst = list[j].dst /\ list[j].ctx \subseteq new[j].ctx
    BY <2>1, <2>3, <2>5
  <2>7. OneEach(new) BY <2>5, <2>6 DEF OneEach
  <2>8. ListKept(list, new) BY <2>5, <2>6 DEF ListKept
  <2>9. ASSUME NEW q PROVE LinksTo(new, q) <=> LinksTo(list, q) \/ q = dst
    BY <2>1, <2>5, <2>6 DEF LinksTo
  <2> QED BY <2>5, <2>7, <2>8, <2>9
<1> QED BY <1>4, <1>5

(* e is d with a link from p to q by x. *)
LinkAdded(d, e, p, x, q) ==
    /\ e \in Directories /\ Len(e) = Len(d) /\ Grown(d, e)
    /\ \A o \in 1 .. Len(d) : e[o].chaps = d[o].chaps
    /\ \A o \in 1 .. Len(d), y \in Arrows : \A t :
           Joined(e, o, y, t) <=> Joined(d, o, y, t) \/ (o = p /\ y = x /\ t = q)

LEMMA AppendLink ==
    ASSUME NEW d \in Directories, NEW p \in 1 .. Len(d), NEW x \in Arrows,
           NEW label \in SUBSET Tags, NEW q \in 0 .. Len(d), x # Empty => q # Nowhere
    PROVE  LinkAdded(d, AppendLinkToNode(d, p, x, label, q), p, x, q)
<1>0. PICK e : e = AppendLinkToNode(d, p, x, label, q) OBVIOUS
<1>1. d \in Seq(Node) /\ Tidy(d) BY DEF Directories
<1> DEFINE old == d[p].links[x]
           new == MergeLinkLists(old, q, label)
           n == [d[p] EXCEPT !.links = [@ EXCEPT ![x] = new]]
<1>2. d[p] \in Node /\ d[p].links \in [Arrows -> Seq(Link)] /\ old \in Seq(Link)
  BY <1>1, NodeTypes
<1>3. OneEach(old) BY <1>1 DEF Tidy
<1>4. /\ new \in Seq(Link) /\ OneEach(new) /\ ListKept(old, new)
      /\ \A t : LinksTo(new, t) <=> LinksTo(old, t) \/ t = q
  <2> HIDE DEF old, new
  <2>1. q \in Nat BY <1>1
  <2> QED BY <1>2, <1>3, <2>1, MergeLinks DEF new
<1>5. e = [d EXCEPT ![p] = n] BY <1>0 DEF AppendLinkToNode
<1>6. /\ n \in Node /\ n.text = d[p].text /\ n.storage = d[p].storage
      /\ n.chaps = d[p].chaps /\ n.seq = d[p].seq
      /\ n.links[x] = new /\ \A y \in Arrows : y # x => n.links[y] = d[p].links[y]
  <2> HIDE DEF new
  <2> QED BY <1>2, <1>4 DEF Node
<1> HIDE DEF n, new
<1>7. e \in Seq(Node) /\ Len(e) = Len(d) /\ e[p] = n /\ \A o \in 1 .. Len(d) : o # p => e[o] = d[o]
  BY <1>1, <1>5, <1>6
<1>8. /\ e[p].links[x] = new
      /\ \A o \in 1 .. Len(d), y \in Arrows : ~ (o = p /\ y = x) => e[o].links[y] = d[o].links[y]
  BY <1>6, <1>7
<1>9. \A o \in 1 .. Len(d), y \in Arrows : \A t :
          Joined(e, o, y, t) <=> Joined(d, o, y, t) \/ (o = p /\ y = x /\ t = q)
  BY <1>4, <1>8 DEF Joined
<1>10. Tidy(e)
  <2>1. ASSUME NEW o \in 1 .. Len(d), NEW y \in Arrows PROVE OneEach(e[o].links[y])
    BY <1>1, <1>4, <1>8 DEF Tidy
  <2>2. ASSUME NEW o \in 1 .. Len(d), NEW y \in Arrows, NEW t, LinksTo(e[o].links[y], t)
        PROVE  t \in 0 .. Len(e) /\ (y # Empty => t # Nowhere)
    <3>1. Joined(d, o, y, t) \/ (y = x /\ t = q) BY <1>9, <2>2 DEF Joined
    <3>2. CASE Joined(d, o, y, t) BY <1>1, <1>7, <3>2 DEF Tidy, Joined
    <3> QED BY <1>7, <3>1, <3>2
  <2> QED BY <1>7, <2>1, <2>2 DEF Tidy
<1>11. \A o \in 1 .. Len(d), y \in Arrows : ListKept(d[o].links[y], e[o].links[y])
  <2>1. \A o \in 1 .. Len(d), y \in Arrows : ListKept(d[o].links[y], d[o].links[y])
    BY <1>1, NodeTypes DEF ListKept
  <2> QED BY <1>4, <1>8, <2>1
<1>12. \A o \in 1 .. Len(d) : /\ e[o].text = d[o].text /\ e[o].storage = d[o].storage
                             /\ e[o].chaps = d[o].chaps /\ e[o].seq = d[o].seq
  BY <1>6, <1>7
<1>13. Grown(d, e) BY <1>7, <1>11, <1>12 DEF Grown, Kept
<1>14. e \in Directories BY <1>7, <1>10 DEF Directories
<1> QED BY <1>0, <1>7, <1>9, <1>12, <1>13, <1>14 DEF LinkAdded

(* Arrow and inverse name each other, as InsertInverseArrowDirectory       *)
(* enters them.                                                            *)
Mutual == \A x \in Arrows : InverseOf[InverseOf[x]] = x

Mirrored(d) ==
    \A p \in 1 .. Len(d), x \in Arrows \ {Empty} : \A q :
        Joined(d, p, x, q) => Joined(d, q, InverseOf[x], p)

(* e is d with a link from p to q by x and the inverse link. *)
LinksAdded(d, e, p, x, q) ==
    /\ e \in Directories /\ Len(e) = Len(d) /\ Grown(d, e)
    /\ \A o \in 1 .. Len(d) : e[o].chaps = d[o].chaps
    /\ \A o \in 1 .. Len(d), y \in Arrows : \A t :
           Joined(e, o, y, t) <=> \/ Joined(d, o, y, t)
                                  \/ o = p /\ y = x /\ t = q
                                  \/ o = q /\ y = InverseOf[x] /\ t = p
    /\ Mutual /\ Mirrored(d) => Mirrored(e)

LEMMA AddLinks ==
    ASSUME NEW d \in Directories, NEW p \in 1 .. Len(d), NEW x \in Arrows,
           NEW label \in SUBSET Tags, NEW q \in 1 .. Len(d), NEW frags \in SUBSET Fragments
    PROVE  LinksAdded(d, AddBothWays(d, p, x, label, q, frags), p, x, q)
<1>1. PICK e : e = AddBothWays(d, p, x, label, q, frags) OBVIOUS
<1>2. PICK c : c = AppendLinkToNode(d, p, x, label, q) OBVIOUS
<1>3. LinkAdded(d, c, p, x, q)
  <2>1. q \in 0 .. Len(d) /\ (x # Empty => q # Nowhere) BY DEF Nowhere, Directories
  <2> QED BY <1>2, <2>1, AppendLink
<1>4. e = AppendLinkToNode(c, q, InverseOf[x], Label(frags), p)
  BY <1>1, <1>2 DEF AddBothWays
<1>5. q \in 0 .. Len(d) /\ q # Nowhere /\ p \in 0 .. Len(d) /\ p # Nowhere
  BY DEF Nowhere, Directories
<1>6. Label(frags) \in SUBSET Tags /\ InverseOf[x] \in Arrows
  BY NoteMemoryAssumption DEF Label, Tags
<1>7. /\ c \in Directories /\ Len(c) = Len(d) /\ Grown(d, c)
      /\ \A o \in 1 .. Len(d) : c[o].chaps = d[o].chaps
      /\ \A o \in 1 .. Len(d), y \in Arrows : \A t :
             Joined(c, o, y, t) <=> Joined(d, o, y, t) \/ (o = p /\ y = x /\ t = q)
  BY <1>3 DEF LinkAdded
<1>8. /\ e \in Directories /\ Len(e) = Len(d) /\ Grown(c, e)
      /\ \A o \in 1 .. Len(d) : e[o].chaps = c[o].chaps
      /\ \A o \in 1 .. Len(d), y \in Arrows : \A t :
             Joined(e, o, y, t) <=> Joined(c, o, y, t)
                                    \/ (o = q /\ y = InverseOf[x] /\ t = p)
  <2>1. c \in Directories /\ q \in 1 .. Len(c) /\ p \in 0 .. Len(c) /\ Len(c) = Len(d)
    BY <1>5, <1>7
  <2>2. PICK y \in Arrows : y = InverseOf[x] BY <1>6
  <2>3. PICK l \in SUBSET Tags : l = Label(frags) BY <1>6
  <2>4. e = AppendLinkToNode(c, q, y, l, p) BY <1>4, <2>2, <2>3
  <2>5. p # Nowhere BY <1>5
  <2>6. LinkAdded(c, e, q, y, p) BY <2>1, <2>4, <2>5, AppendLink
  <2> QED BY <2>1, <2>2, <2>6 DEF LinkAdded
<1>9. Grown(d, e) BY <1>7, <1>8, GrownIsTransitive DEF Directories
<1>10. \A o \in 1 .. Len(d) : e[o].chaps = d[o].chaps BY <1>7, <1>8
<1>11. \A o \in 1 .. Len(d), y \in Arrows : \A t :
          Joined(e, o, y, t) <=> \/ Joined(d, o, y, t)
                                 \/ o = p /\ y = x /\ t = q
                                 \/ o = q /\ y = InverseOf[x] /\ t = p
  BY <1>7, <1>8
<1>12. ASSUME Mutual, Mirrored(d) PROVE Mirrored(e)
  <2> SUFFICES ASSUME NEW o \in 1 .. Len(d), NEW y \in Arrows \ {Empty}, NEW t,
                      Joined(e, o, y, t)
               PROVE  Joined(e, t, InverseOf[y], o)
    BY <1>8 DEF Mirrored
  <2>1. InverseOf[y] \in Arrows /\ InverseOf[InverseOf[x]] = x
    BY <1>12, NoteMemoryAssumption DEF Mutual
  <2>2. CASE Joined(d, o, y, t)
    <3>1. Joined(d, t, InverseOf[y], o) BY <1>12, <2>2 DEF Mirrored
    <3>2. t \in 0 .. Len(d) /\ t # Nowhere BY <2>2 DEF Directories, Tidy, Joined
    <3>3. t \in 1 .. Len(d) BY <3>2 DEF Nowhere, Directories
    <3> QED BY <1>11, <2>1, <3>1, <3>3
  <2>3. CASE o = p /\ y = x /\ t = q BY <1>11, <2>1, <2>3
  <2>4. CASE o = q /\ y = InverseOf[x] /\ t = p BY <1>11, <2>1, <2>4
  <2> QED BY <1>11, <2>2, <2>3, <2>4
<1> QED BY <1>1, <1>8, <1>9, <1>10, <1>11, <1>12 DEF LinksAdded

(* e is d with a node for i that is in chap, and the links of d. *)
TextAdded(d, e, i, chap) ==
    /\ e \in Directories /\ Grown(d, e)
    /\ Pointer(e, i) \in 1 .. Len(e) /\ chap \in e[Pointer(e, i)].chaps
    /\ \A o \in 1 .. Len(e), y \in Arrows : \A t :
           Joined(e, o, y, t) <=> o \in 1 .. Len(d) /\ Joined(d, o, y, t)

LEMMA AppendText ==
    ASSUME NEW d \in Directories, NEW i \in Items, NEW chap \in Chapters, NEW seq \in BOOLEAN
    PROVE  TextAdded(d, AppendTextToDirectory(d, i, chap, seq), i, chap)
<1>0. PICK e : e = AppendTextToDirectory(d, i, chap, seq) OBVIOUS
<1> DEFINE p == Pointer(d, i)
<1>1. d \in Seq(Node) /\ Tidy(d) BY DEF Directories
<1>2. p \in 0 .. Len(d) /\ (p # 0 => IsNodeOf(d[p], i)) BY <1>1, PointerFinds
<1>3. e = IF p = 0 THEN Append(d, NewNode(i, chap, seq))
                   ELSE [d EXCEPT ![p].seq = @ \/ seq, ![p].chaps = @ \cup {chap}]
  BY <1>0 DEF AppendTextToDirectory
<1> HIDE DEF p
<1>4. CASE p = 0
  <2> DEFINE n == NewNode(i, chap, seq)
  <2>1. n \in Node /\ IsNodeOf(n, i) /\ chap \in n.chaps /\ \A y \in Arrows : n.links[y] = <<>>
    BY DEF NewNode, Node, Texts, Classes, IsNodeOf
  <2> HIDE DEF n
  <2>2. /\ e \in Seq(Node) /\ Len(e) = Len(d) + 1 /\ e[Len(e)] = n
        /\ \A o \in 1 .. Len(d) : e[o] = d[o]
    BY <1>1, <1>3, <1>4, <2>1 DEF n
  <2>3. \A o \in 1 .. Len(e) : o \in 1 .. Len(d) \/ o = Len(e) BY <1>1, <2>2
  <2>4. Len(e) \notin 1 .. Len(d) /\ Len(e) \in 1 .. Len(e) BY <1>1, <2>2
  <2>5. Grown(d, e)
    <3>1. Grown(d, d) BY <1>1, GrownIsReflexive
    <3> QED BY <1>1, <2>2, <3>1 DEF Grown
  <2>6. ASSUME NEW o \in 1 .. Len(e), NEW y \in Arrows, NEW t
        PROVE  Joined(e, o, y, t) <=> o \in 1 .. Len(d) /\ Joined(d, o, y, t)
    <3>1. CASE o \in 1 .. Len(d) BY <2>2, <3>1 DEF Joined
    <3>2. CASE o = Len(e)
      <4>1. e[o].links[y] = <<>> BY <2>1, <2>2, <3>2
      <4> QED BY <2>4, <3>2, <4>1 DEF Joined, LinksTo
    <3> QED BY <2>3, <3>1, <3>2
  <2>7. Tidy(e)
    <3>1. ASSUME NEW o \in 1 .. Len(e), NEW y \in Arrows PROVE OneEach(e[o].links[y])
      <4>1. CASE o \in 1 .. Len(d) BY <1>1, <2>2, <4>1 DEF Tidy
      <4>2. CASE o = Len(e)
        <5>1. e[o].links[y] = <<>> BY <2>1, <2>2, <4>2
        <5> QED BY <5>1 DEF OneEach
      <4> QED BY <2>3, <4>1, <4>2
    <3>2. ASSUME NEW o \in 1 .. Len(e), NEW y \in Arrows, NEW t, LinksTo(e[o].links[y], t)
          PROVE  t \in 0 .. Len(e) /\ (y # Empty => t # Nowhere)
      <4>1. o \in 1 .. Len(d) /\ LinksTo(d[o].links[y], t) BY <2>6, <3>2 DEF Joined
      <4>2. t \in 0 .. Len(d) /\ (y # Empty => t # Nowhere) BY <1>1, <4>1 DEF Tidy
      <4> QED BY <1>1, <2>2, <4>2
    <3> QED BY <3>1, <3>2 DEF Tidy
  <2>8. Pointer(e, i) \in 1 .. Len(e) /\ chap \in e[Pointer(e, i)].chaps
    <3>1. Pointer(e, i) \in 1 .. Len(e) /\ IsNodeOf(e[Pointer(e, i)], i)
      BY <2>1, <2>2, <2>4, PointerFinds
    <3>2. Pointer(e, i) = Len(e)
      <4>1. \A o \in 1 .. Len(d) : ~ IsNodeOf(d[o], i) BY <1>1, <1>4, PointerFinds DEF p
      <4> QED BY <2>2, <2>3, <3>1, <4>1
    <3> QED BY <2>1, <2>2, <3>1, <3>2
  <2>9. e \in Directories BY <2>2, <2>7 DEF Directories
  <2> QED BY <1>0, <2>5, <2>6, <2>8, <2>9 DEF TextAdded
<1>5. CASE p # 0
  <2> DEFINE n == [d[p] EXCEPT !.seq = @ \/ seq, !.chaps = @ \cup {chap}]
  <2>1. p \in 1 .. Len(d) BY <1>1, <1>2, <1>5
  <2>2. d[p] \in Node BY <1>1, <2>1
  <2>3. /\ n \in Node /\ n.text = d[p].text /\ n.storage = d[p].storage /\ n.links = d[p].links
        /\ d[p].chaps \subseteq n.chaps /\ chap \in n.chaps /\ (d[p].seq => n.seq)
    BY <2>2 DEF Node
  <2>4. e = [d EXCEPT ![p] = n] BY <1>3, <1>5, <2>1
  <2> HIDE DEF n
  <2>5. /\ e \in Seq(Node) /\ Len(e) = Len(d) /\ e[p] = n
        /\ \A o \in 1 .. Len(d) : o # p => e[o] = d[o]
    BY <1>1, <2>1, <2>3, <2>4
  <2>6. \A o \in 1 .. Len(d) : e[o].links = d[o].links BY <2>3, <2>5
  <2>7. Grown(d, e)
    <3>1. Grown(d, d) BY <1>1, GrownIsReflexive
    <3>2. \A x \in Arrows : ListKept(d[p].links[x], n.links[x])
      BY <2>1, <2>3, <3>1 DEF Grown, Kept
    <3>3. Kept(d[p], n) BY <2>3, <3>2 DEF Kept
    <3> QED BY <1>1, <2>5, <3>1, <3>3 DEF Grown
  <2>8. Pointer(e, i) = p BY <1>1, <1>5, <2>5, <2>7, PointerIsStable DEF p
  <2>9. Tidy(e) BY <1>1, <2>5, <2>6 DEF Tidy
  <2>10. \A o \in 1 .. Len(e), y \in Arrows : \A t :
            Joined(e, o, y, t) <=> o \in 1 .. Len(d) /\ Joined(d, o, y, t)
    BY <2>5, <2>6 DEF Joined
  <2>11. e \in Directories BY <2>5, <2>9 DEF Directories
  <2>12. Pointer(e, i) \in 1 .. Len(e) /\ chap \in e[Pointer(e, i)].chaps
    BY <2>1, <2>3, <2>5, <2>8
  <2> QED BY <1>0, <2>7, <2>10, <2>11, <2>12 DEF TextAdded
<1> QED BY <1>4, <1>5

-----------------------------------------------------------------------------
(* The folds of the memory as runs: r[k] is the value after k elements.    *)
(* A fold whose steps stay in X stays in X.                                *)

LEMMA AnnotationsStayIn ==
    ASSUME NEW X, NEW d \in X, NEW i, NEW chap, NEW frags,
           NEW n \in Nat, DOMAIN Marks[i] = 1 .. n,
           \A e \in X, k \in 1 .. n : Annotated(e, i, Marks[i][k], chap, frags) \in X
    PROVE  AddBackAnnotations(d, i, chap, frags) \in X
<1> DEFINE F == [x \in X \X (1 .. n) |-> Annotated(x[1], i, Marks[i][x[2]], chap, frags)]
           Def(g) == g = [s \in SUBSET (1 .. n) |->
                            IF s = {} THEN d
                            ELSE LET x == Max(s)
                                 IN Annotated(g[s \ {x}], i, Marks[i][x], chap, frags)]
           iter == CHOOSE g : Def(g)
           r == [k \in 0 .. n |-> iter[1 .. k]]
<1>1. AddBackAnnotations(d, i, chap, frags) = iter[1 .. n]
  BY Zenon DEF AddBackAnnotations, FoldLeft, MapThenFoldSet
<1>2. F \in [X \X (1 .. n) -> X] OBVIOUS
<1>3. \A e \in X, k \in 1 .. n : F[e, k] = Annotated(e, i, Marks[i][k], chap, frags)
  OBVIOUS
<1>4. PICK g \in [SUBSET (1 .. n) -> X] : IsFold(g, d, n, F)
  <2> HIDE DEF F
  <2> QED BY <1>2, FoldExists
<1>5. Def(g)
  <2> HIDE DEF F
  <2>1. ASSUME NEW s \in SUBSET (1 .. n), s # {}
        PROVE  g[s] = Annotated(g[s \ {Max(s)}], i, Marks[i][Max(s)], chap, frags)
    <3>1. g[s] = F[g[s \ {Max(s)}], Max(s)] BY <1>4, <2>1 DEF IsFold
    <3>2. s \ {Max(s)} \in SUBSET (1 .. n) /\ Max(s) \in 1 .. n BY <2>1, GreatestExists
    <3> QED BY <1>3, <3>1, <3>2
  <2>2. {} \in SUBSET (1 .. n) /\ g[{}] = d BY <1>4 DEF IsFold
  <2> QED BY <2>1, <2>2
<1>6. Def(iter)
  <2> HIDE DEF Def
  <2> QED BY <1>5
<1> HIDE DEF iter, F
<1>7. iter[1 .. 0] = d
  <2>1. 1 .. 0 = {} /\ {} \in SUBSET (1 .. n) OBVIOUS
  <2> QED BY <1>6, <2>1
<1>8. ASSUME NEW k \in 1 .. n
      PROVE  iter[1 .. k] = Annotated(iter[1 .. (k - 1)], i, Marks[i][k], chap, frags)
  <2>1. 1 .. k \in SUBSET (1 .. n) /\ 1 .. k # {} /\ Max(1 .. k) = k
          /\ (1 .. k) \ {k} = 1 .. (k - 1)
    BY Intervals
  <2> QED BY <1>6, <2>1
<1>9. /\ r[0] = d /\ r[n] = AddBackAnnotations(d, i, chap, frags)
      /\ \A k \in 1 .. n : r[k] = Annotated(r[k - 1], i, Marks[i][k], chap, frags)
  <2>1. 0 \in 0 .. n /\ n \in 0 .. n /\ \A k \in 1 .. n : k \in 0 .. n /\ k - 1 \in 0 .. n
    OBVIOUS
  <2>2. \A k \in 0 .. n : r[k] = iter[1 .. k] OBVIOUS
  <2> HIDE DEF r
  <2> QED BY <1>1, <1>7, <1>8, <2>1, <2>2
<1> HIDE DEF r, Def
<1>10. Passes(r, d, n, X, F)
  <2>1. ASSUME NEW k \in 1 .. n, r[k - 1] \in X PROVE r[k] = F[r[k - 1], k]
    <3>1. F[r[k - 1], k] = Annotated(r[k - 1], i, Marks[i][k], chap, frags) BY <1>3, <2>1
    <3> QED BY <1>9, <3>1
  <2> QED BY <1>9, <2>1 DEF Passes
<1>11. \A k \in 0 .. n : r[k] \in X BY <1>2, <1>10, PassesIsRun
<1>12. r \in [0 .. n -> X] BY <1>11 DEF r
<1>13. n \in 0 .. n OBVIOUS
<1> QED BY <1>9, <1>11, <1>13

ClosingRun(r, n, d, node, arrow, pairs) ==
    /\ r[0] = d /\ r[n] = CloseOne(d, node, arrow)
    /\ \A k \in 1 .. n : r[k] = LinkPair(r[k - 1], arrow, pairs[k])

LEMMA ClosingRuns ==
    ASSUME NEW X, NEW d \in X, NEW node, NEW arrow, NEW pairs,
           pairs = Pairs(Destinations(node, arrow)),
           NEW n \in Nat, DOMAIN pairs = 1 .. n,
           \A e \in X, k \in 1 .. n : LinkPair(e, arrow, pairs[k]) \in X
    PROVE  \E r \in [0 .. n -> X] : ClosingRun(r, n, d, node, arrow, pairs)
<1> DEFINE F == [x \in X \X (1 .. n) |-> LinkPair(x[1], arrow, pairs[x[2]])]
           Def(g) == g = [s \in SUBSET (1 .. n) |->
                            IF s = {} THEN d
                            ELSE LET x == Max(s) IN LinkPair(g[s \ {x}], arrow, pairs[x])]
           iter == CHOOSE g : Def(g)
           r == [k \in 0 .. n |-> iter[1 .. k]]
<1>1. CloseOne(d, node, arrow) = iter[1 .. n]
  BY Zenon DEF CloseOne, FoldLeft, MapThenFoldSet
<1>2. F \in [X \X (1 .. n) -> X] OBVIOUS
<1>3. \A e \in X, k \in 1 .. n : F[e, k] = LinkPair(e, arrow, pairs[k])
  OBVIOUS
<1>4. PICK g \in [SUBSET (1 .. n) -> X] : IsFold(g, d, n, F)
  <2> HIDE DEF F
  <2> QED BY <1>2, FoldExists
<1>5. Def(g)
  <2> HIDE DEF F
  <2>1. ASSUME NEW s \in SUBSET (1 .. n), s # {}
        PROVE  g[s] = LinkPair(g[s \ {Max(s)}], arrow, pairs[Max(s)])
    <3>1. g[s] = F[g[s \ {Max(s)}], Max(s)] BY <1>4, <2>1 DEF IsFold
    <3>2. s \ {Max(s)} \in SUBSET (1 .. n) /\ Max(s) \in 1 .. n BY <2>1, GreatestExists
    <3> QED BY <1>3, <3>1, <3>2
  <2>2. {} \in SUBSET (1 .. n) /\ g[{}] = d BY <1>4 DEF IsFold
  <2> QED BY <2>1, <2>2
<1>6. Def(iter)
  <2> HIDE DEF Def
  <2> QED BY <1>5
<1> HIDE DEF iter, F
<1>7. iter[1 .. 0] = d
  <2>1. 1 .. 0 = {} /\ {} \in SUBSET (1 .. n) OBVIOUS
  <2> QED BY <1>6, <2>1
<1>8. ASSUME NEW k \in 1 .. n
      PROVE  iter[1 .. k] = LinkPair(iter[1 .. (k - 1)], arrow, pairs[k])
  <2>1. 1 .. k \in SUBSET (1 .. n) /\ 1 .. k # {} /\ Max(1 .. k) = k
          /\ (1 .. k) \ {k} = 1 .. (k - 1)
    BY Intervals
  <2> QED BY <1>6, <2>1
<1>9. /\ r[0] = d /\ r[n] = CloseOne(d, node, arrow)
      /\ \A k \in 1 .. n : r[k] = LinkPair(r[k - 1], arrow, pairs[k])
  <2>1. 0 \in 0 .. n /\ n \in 0 .. n /\ \A k \in 1 .. n : k \in 0 .. n /\ k - 1 \in 0 .. n
    OBVIOUS
  <2>2. \A k \in 0 .. n : r[k] = iter[1 .. k] OBVIOUS
  <2> HIDE DEF r
  <2> QED BY <1>1, <1>7, <1>8, <2>1, <2>2
<1> HIDE DEF r, Def
<1>10. Passes(r, d, n, X, F)
  <2>1. ASSUME NEW k \in 1 .. n, r[k - 1] \in X PROVE r[k] = F[r[k - 1], k]
    <3>1. F[r[k - 1], k] = LinkPair(r[k - 1], arrow, pairs[k]) BY <1>3, <2>1
    <3> QED BY <1>9, <3>1
  <2> QED BY <1>9, <2>1 DEF Passes
<1>11. \A k \in 0 .. n : r[k] \in X BY <1>2, <1>10, PassesIsRun
<1>12. r \in [0 .. n -> X] BY <1>11 DEF r
<1> QED BY <1>9, <1>12 DEF ClosingRun

ClosenessRun(r, n, d, node, near) ==
    /\ r[0] = d /\ r[n] = CompleteCloseness(d, node)
    /\ \A k \in 1 .. n : r[k] = CloseOne(r[k - 1], node, near[k])

LEMMA ClosenessRuns ==
    ASSUME NEW X, NEW d \in X, NEW node, NEW near,
           near = SetToSeq(Near),
           NEW n \in Nat, DOMAIN near = 1 .. n,
           \A e \in X, k \in 1 .. n : CloseOne(e, node, near[k]) \in X
    PROVE  \E r \in [0 .. n -> X] : ClosenessRun(r, n, d, node, near)
<1> DEFINE F == [x \in X \X (1 .. n) |-> CloseOne(x[1], node, near[x[2]])]
           Def(g) == g = [s \in SUBSET (1 .. n) |->
                            IF s = {} THEN d
                            ELSE LET x == Max(s) IN CloseOne(g[s \ {x}], node, near[x])]
           iter == CHOOSE g : Def(g)
           r == [k \in 0 .. n |-> iter[1 .. k]]
<1>1. CompleteCloseness(d, node) = iter[1 .. n]
  BY Zenon DEF CompleteCloseness, FoldLeft, MapThenFoldSet
<1>2. F \in [X \X (1 .. n) -> X] OBVIOUS
<1>3. \A e \in X, k \in 1 .. n : F[e, k] = CloseOne(e, node, near[k])
  OBVIOUS
<1>4. PICK g \in [SUBSET (1 .. n) -> X] : IsFold(g, d, n, F)
  <2> HIDE DEF F
  <2> QED BY <1>2, FoldExists
<1>5. Def(g)
  <2> HIDE DEF F
  <2>1. ASSUME NEW s \in SUBSET (1 .. n), s # {}
        PROVE  g[s] = CloseOne(g[s \ {Max(s)}], node, near[Max(s)])
    <3>1. g[s] = F[g[s \ {Max(s)}], Max(s)] BY <1>4, <2>1 DEF IsFold
    <3>2. s \ {Max(s)} \in SUBSET (1 .. n) /\ Max(s) \in 1 .. n BY <2>1, GreatestExists
    <3> QED BY <1>3, <3>1, <3>2
  <2>2. {} \in SUBSET (1 .. n) /\ g[{}] = d BY <1>4 DEF IsFold
  <2> QED BY <2>1, <2>2
<1>6. Def(iter)
  <2> HIDE DEF Def
  <2> QED BY <1>5
<1> HIDE DEF iter, F
<1>7. iter[1 .. 0] = d
  <2>1. 1 .. 0 = {} /\ {} \in SUBSET (1 .. n) OBVIOUS
  <2> QED BY <1>6, <2>1
<1>8. ASSUME NEW k \in 1 .. n
      PROVE  iter[1 .. k] = CloseOne(iter[1 .. (k - 1)], node, near[k])
  <2>1. 1 .. k \in SUBSET (1 .. n) /\ 1 .. k # {} /\ Max(1 .. k) = k
          /\ (1 .. k) \ {k} = 1 .. (k - 1)
    BY Intervals
  <2> QED BY <1>6, <2>1
<1>9. /\ r[0] = d /\ r[n] = CompleteCloseness(d, node)
      /\ \A k \in 1 .. n : r[k] = CloseOne(r[k - 1], node, near[k])
  <2>1. 0 \in 0 .. n /\ n \in 0 .. n /\ \A k \in 1 .. n : k \in 0 .. n /\ k - 1 \in 0 .. n
    OBVIOUS
  <2>2. \A k \in 0 .. n : r[k] = iter[1 .. k] OBVIOUS
  <2> HIDE DEF r
  <2> QED BY <1>1, <1>7, <1>8, <2>1, <2>2
<1> HIDE DEF r, Def
<1>10. Passes(r, d, n, X, F)
  <2>1. ASSUME NEW k \in 1 .. n, r[k - 1] \in X PROVE r[k] = F[r[k - 1], k]
    <3>1. F[r[k - 1], k] = CloseOne(r[k - 1], node, near[k]) BY <1>3, <2>1
    <3> QED BY <1>9, <3>1
  <2> QED BY <1>9, <2>1 DEF Passes
<1>11. \A k \in 0 .. n : r[k] \in X BY <1>2, <1>10, PassesIsRun
<1>12. r \in [0 .. n -> X] BY <1>11 DEF r
<1> QED BY <1>9, <1>12 DEF ClosenessRun

LEMMA HopsStayIn ==
    ASSUME NEW X, NEW d, NEW p, NEW node, NEW path,
           [at |-> p, node |-> node] \in X,
           NEW n \in Nat, DOMAIN path = 1 .. n,
           \A e \in X, k \in 1 .. n : Hop(d, e, path[k]) \in X
    PROVE  \E x \in X : NodePointedTo(d, p, node, path) = x.at
<1> DEFINE F == [x \in X \X (1 .. n) |-> Hop(d, x[1], path[x[2]])]
           Def(g) == g = [s \in SUBSET (1 .. n) |->
                            IF s = {} THEN [at |-> p, node |-> node]
                            ELSE LET x == Max(s) IN Hop(d, g[s \ {x}], path[x])]
           iter == CHOOSE g : Def(g)
           r == [k \in 0 .. n |-> iter[1 .. k]]
<1>1. NodePointedTo(d, p, node, path) = iter[1 .. n].at
  BY Zenon DEF NodePointedTo, FoldLeft, MapThenFoldSet
<1>2. F \in [X \X (1 .. n) -> X] OBVIOUS
<1>3. \A e \in X, k \in 1 .. n : F[e, k] = Hop(d, e, path[k])
  OBVIOUS
<1>4. PICK g \in [SUBSET (1 .. n) -> X] : IsFold(g, [at |-> p, node |-> node], n, F)
  <2> HIDE DEF F
  <2> QED BY <1>2, FoldExists
<1>5. Def(g)
  <2> HIDE DEF F
  <2>1. ASSUME NEW s \in SUBSET (1 .. n), s # {}
        PROVE  g[s] = Hop(d, g[s \ {Max(s)}], path[Max(s)])
    <3>1. g[s] = F[g[s \ {Max(s)}], Max(s)] BY <1>4, <2>1 DEF IsFold
    <3>2. s \ {Max(s)} \in SUBSET (1 .. n) /\ Max(s) \in 1 .. n BY <2>1, GreatestExists
    <3> QED BY <1>3, <3>1, <3>2
  <2>2. {} \in SUBSET (1 .. n) /\ g[{}] = [at |-> p, node |-> node] BY <1>4 DEF IsFold
  <2> QED BY <2>1, <2>2
<1>6. Def(iter)
  <2> HIDE DEF Def
  <2> QED BY <1>5
<1> HIDE DEF iter, F
<1>7. iter[1 .. 0] = [at |-> p, node |-> node]
  <2>1. 1 .. 0 = {} /\ {} \in SUBSET (1 .. n) OBVIOUS
  <2> QED BY <1>6, <2>1
<1>8. ASSUME NEW k \in 1 .. n
      PROVE  iter[1 .. k] = Hop(d, iter[1 .. (k - 1)], path[k])
  <2>1. 1 .. k \in SUBSET (1 .. n) /\ 1 .. k # {} /\ Max(1 .. k) = k
          /\ (1 .. k) \ {k} = 1 .. (k - 1)
    BY Intervals
  <2> QED BY <1>6, <2>1
<1>9. /\ r[0] = [at |-> p, node |-> node] /\ r[n].at = NodePointedTo(d, p, node, path)
      /\ \A k \in 1 .. n : r[k] = Hop(d, r[k - 1], path[k])
  <2>1. 0 \in 0 .. n /\ n \in 0 .. n /\ \A k \in 1 .. n : k \in 0 .. n /\ k - 1 \in 0 .. n
    OBVIOUS
  <2>2. \A k \in 0 .. n : r[k] = iter[1 .. k] OBVIOUS
  <2> HIDE DEF r
  <2> QED BY <1>1, <1>7, <1>8, <2>1, <2>2
<1> HIDE DEF r, Def
<1>10. Passes(r, [at |-> p, node |-> node], n, X, F)
  <2>1. ASSUME NEW k \in 1 .. n, r[k - 1] \in X PROVE r[k] = F[r[k - 1], k]
    <3>1. F[r[k - 1], k] = Hop(d, r[k - 1], path[k]) BY <1>3, <2>1
    <3> QED BY <1>9, <3>1
  <2> QED BY <1>9, <2>1 DEF Passes
<1>11. \A k \in 0 .. n : r[k] \in X BY <1>2, <1>10, PassesIsRun
<1>12. r \in [0 .. n -> X] BY <1>11 DEF r
<1>13. n \in 0 .. n OBVIOUS
<1> QED BY <1>9, <1>11, <1>13

LEMMA SequencesStayIn ==
    ASSUME NEW X, NEW d \in X, NEW p, NEW node,
           NEW n \in Nat, DOMAIN Closures = 1 .. n,
           \A e \in X, k \in 1 .. n : Concluded(e, p, node, Closures[k]) \in X
    PROVE  CompleteSequences(d, p, node) \in X
<1> DEFINE F == [x \in X \X (1 .. n) |-> Concluded(x[1], p, node, Closures[x[2]])]
           Def(g) == g = [s \in SUBSET (1 .. n) |->
                            IF s = {} THEN d
                            ELSE LET x == Max(s) IN Concluded(g[s \ {x}], p, node, Closures[x])]
           iter == CHOOSE g : Def(g)
           r == [k \in 0 .. n |-> iter[1 .. k]]
<1>1. CompleteSequences(d, p, node) = iter[1 .. n]
  BY Zenon DEF CompleteSequences, FoldLeft, MapThenFoldSet
<1>2. F \in [X \X (1 .. n) -> X] OBVIOUS
<1>3. \A e \in X, k \in 1 .. n : F[e, k] = Concluded(e, p, node, Closures[k])
  OBVIOUS
<1>4. PICK g \in [SUBSET (1 .. n) -> X] : IsFold(g, d, n, F)
  <2> HIDE DEF F
  <2> QED BY <1>2, FoldExists
<1>5. Def(g)
  <2> HIDE DEF F
  <2>1. ASSUME NEW s \in SUBSET (1 .. n), s # {}
        PROVE  g[s] = Concluded(g[s \ {Max(s)}], p, node, Closures[Max(s)])
    <3>1. g[s] = F[g[s \ {Max(s)}], Max(s)] BY <1>4, <2>1 DEF IsFold
    <3>2. s \ {Max(s)} \in SUBSET (1 .. n) /\ Max(s) \in 1 .. n BY <2>1, GreatestExists
    <3> QED BY <1>3, <3>1, <3>2
  <2>2. {} \in SUBSET (1 .. n) /\ g[{}] = d BY <1>4 DEF IsFold
  <2> QED BY <2>1, <2>2
<1>6. Def(iter)
  <2> HIDE DEF Def
  <2> QED BY <1>5
<1> HIDE DEF iter, F
<1>7. iter[1 .. 0] = d
  <2>1. 1 .. 0 = {} /\ {} \in SUBSET (1 .. n) OBVIOUS
  <2> QED BY <1>6, <2>1
<1>8. ASSUME NEW k \in 1 .. n
      PROVE  iter[1 .. k] = Concluded(iter[1 .. (k - 1)], p, node, Closures[k])
  <2>1. 1 .. k \in SUBSET (1 .. n) /\ 1 .. k # {} /\ Max(1 .. k) = k
          /\ (1 .. k) \ {k} = 1 .. (k - 1)
    BY Intervals
  <2> QED BY <1>6, <2>1
<1>9. /\ r[0] = d /\ r[n] = CompleteSequences(d, p, node)
      /\ \A k \in 1 .. n : r[k] = Concluded(r[k - 1], p, node, Closures[k])
  <2>1. 0 \in 0 .. n /\ n \in 0 .. n /\ \A k \in 1 .. n : k \in 0 .. n /\ k - 1 \in 0 .. n
    OBVIOUS
  <2>2. \A k \in 0 .. n : r[k] = iter[1 .. k] OBVIOUS
  <2> HIDE DEF r
  <2> QED BY <1>1, <1>7, <1>8, <2>1, <2>2
<1> HIDE DEF r, Def
<1>10. Passes(r, d, n, X, F)
  <2>1. ASSUME NEW k \in 1 .. n, r[k - 1] \in X PROVE r[k] = F[r[k - 1], k]
    <3>1. F[r[k - 1], k] = Concluded(r[k - 1], p, node, Closures[k]) BY <1>3, <2>1
    <3> QED BY <1>9, <3>1
  <2> QED BY <1>9, <2>1 DEF Passes
<1>11. \A k \in 0 .. n : r[k] \in X BY <1>2, <1>10, PassesIsRun
<1>12. r \in [0 .. n -> X] BY <1>11 DEF r
<1>13. n \in 0 .. n OBVIOUS
<1> QED BY <1>9, <1>11, <1>13

InferencesRun(r, n, d, order) ==
    /\ r[0] = d /\ r[n] = CompleteInferences(d)
    /\ \A k \in 1 .. n : r[k] = CompleteNode(r[k - 1], order[k])

LEMMA InferencesRuns ==
    ASSUME NEW X, NEW d \in X, NEW order,
           order = InferenceOrder(d),
           NEW n \in Nat, DOMAIN order = 1 .. n,
           \A e \in X, k \in 1 .. n : CompleteNode(e, order[k]) \in X
    PROVE  \E r \in [0 .. n -> X] : InferencesRun(r, n, d, order)
<1> DEFINE F == [x \in X \X (1 .. n) |-> CompleteNode(x[1], order[x[2]])]
           Def(g) == g = [s \in SUBSET (1 .. n) |->
                            IF s = {} THEN d
                            ELSE LET x == Max(s) IN CompleteNode(g[s \ {x}], order[x])]
           iter == CHOOSE g : Def(g)
           r == [k \in 0 .. n |-> iter[1 .. k]]
<1>1. CompleteInferences(d) = iter[1 .. n]
  BY Zenon DEF CompleteInferences, FoldLeft, MapThenFoldSet
<1>2. F \in [X \X (1 .. n) -> X] OBVIOUS
<1>3. \A e \in X, k \in 1 .. n : F[e, k] = CompleteNode(e, order[k])
  OBVIOUS
<1>4. PICK g \in [SUBSET (1 .. n) -> X] : IsFold(g, d, n, F)
  <2> HIDE DEF F
  <2> QED BY <1>2, FoldExists
<1>5. Def(g)
  <2> HIDE DEF F
  <2>1. ASSUME NEW s \in SUBSET (1 .. n), s # {}
        PROVE  g[s] = CompleteNode(g[s \ {Max(s)}], order[Max(s)])
    <3>1. g[s] = F[g[s \ {Max(s)}], Max(s)] BY <1>4, <2>1 DEF IsFold
    <3>2. s \ {Max(s)} \in SUBSET (1 .. n) /\ Max(s) \in 1 .. n BY <2>1, GreatestExists
    <3> QED BY <1>3, <3>1, <3>2
  <2>2. {} \in SUBSET (1 .. n) /\ g[{}] = d BY <1>4 DEF IsFold
  <2> QED BY <2>1, <2>2
<1>6. Def(iter)
  <2> HIDE DEF Def
  <2> QED BY <1>5
<1> HIDE DEF iter, F
<1>7. iter[1 .. 0] = d
  <2>1. 1 .. 0 = {} /\ {} \in SUBSET (1 .. n) OBVIOUS
  <2> QED BY <1>6, <2>1
<1>8. ASSUME NEW k \in 1 .. n
      PROVE  iter[1 .. k] = CompleteNode(iter[1 .. (k - 1)], order[k])
  <2>1. 1 .. k \in SUBSET (1 .. n) /\ 1 .. k # {} /\ Max(1 .. k) = k
          /\ (1 .. k) \ {k} = 1 .. (k - 1)
    BY Intervals
  <2> QED BY <1>6, <2>1
<1>9. /\ r[0] = d /\ r[n] = CompleteInferences(d)
      /\ \A k \in 1 .. n : r[k] = CompleteNode(r[k - 1], order[k])
  <2>1. 0 \in 0 .. n /\ n \in 0 .. n /\ \A k \in 1 .. n : k \in 0 .. n /\ k - 1 \in 0 .. n
    OBVIOUS
  <2>2. \A k \in 0 .. n : r[k] = iter[1 .. k] OBVIOUS
  <2> HIDE DEF r
  <2> QED BY <1>1, <1>7, <1>8, <2>1, <2>2
<1> HIDE DEF r, Def
<1>10. Passes(r, d, n, X, F)
  <2>1. ASSUME NEW k \in 1 .. n, r[k - 1] \in X PROVE r[k] = F[r[k - 1], k]
    <3>1. F[r[k - 1], k] = CompleteNode(r[k - 1], order[k]) BY <1>3, <2>1
    <3> QED BY <1>9, <3>1
  <2> QED BY <1>9, <2>1 DEF Passes
<1>11. \A k \in 0 .. n : r[k] \in X BY <1>2, <1>10, PassesIsRun
<1>12. r \in [0 .. n -> X] BY <1>11 DEF r
<1> QED BY <1>9, <1>12 DEF InferencesRun

-----------------------------------------------------------------------------
(* Reading a text. *)

SameStories(d, e) ==
    \A p \in 1 .. Len(e) : \A q :
        Joined(e, p, Then, q) => p \in 1 .. Len(d) /\ Joined(d, p, Then, q)

(* What every reading of a text does to a directory, but for the link that *)
(* a story adds.                                                           *)
Noted(d, e) ==
    /\ e \in Directories /\ Grown(d, e)
    /\ Mutual /\ Mirrored(d) => Mirrored(e)
    /\ StoriesApart => SameStories(d, e)

LEMMA NotedIsReflexive ==
    ASSUME NEW d \in Directories
    PROVE  Noted(d, d)
BY GrownIsReflexive DEF Noted, SameStories, Directories

LEMMA NotedIsTransitive ==
    ASSUME NEW d \in Directories, NEW e, NEW f, Noted(d, e), Noted(e, f)
    PROVE  Noted(d, f)
<1>1. Grown(d, f) BY GrownIsTransitive DEF Noted, Directories
<1>2. StoriesApart => SameStories(d, f) BY DEF Noted, SameStories
<1> QED BY <1>1, <1>2 DEF Noted

LEMMA TextIsNoted ==
    ASSUME NEW d \in Directories, NEW e, NEW i, NEW chap, TextAdded(d, e, i, chap)
    PROVE  Noted(d, e)
<1>1. ASSUME Mirrored(d) PROVE Mirrored(e)
  <2> SUFFICES ASSUME NEW p \in 1 .. Len(e), NEW x \in Arrows \ {Empty}, NEW q,
                      Joined(e, p, x, q)
               PROVE  Joined(e, q, InverseOf[x], p)
    BY DEF Mirrored
  <2>1. p \in 1 .. Len(d) /\ Joined(d, p, x, q) BY DEF TextAdded
  <2>2. InverseOf[x] \in Arrows BY NoteMemoryAssumption
  <2>3. Joined(d, q, InverseOf[x], p) BY <1>1, <2>1 DEF Mirrored
  <2>4. q \in 0 .. Len(d) /\ q # Nowhere BY <2>1 DEF Directories, Tidy, Joined
  <2>5. q \in 1 .. Len(d) BY <2>4 DEF Nowhere, Directories
  <2>6. q \in 1 .. Len(e) BY <2>5 DEF TextAdded, Grown, Directories
  <2> QED BY <2>2, <2>3, <2>5, <2>6 DEF TextAdded
<1>2. SameStories(d, e) BY NoteMemoryAssumption DEF TextAdded, SameStories
<1> QED BY <1>1, <1>2 DEF TextAdded, Noted

LEMMA LinksAreNoted ==
    ASSUME NEW d \in Directories, NEW e, NEW p, NEW x \in Arrows, NEW q, LinksAdded(d, e, p, x, q),
           StoriesApart => x # Then /\ InverseOf[x] # Then
    PROVE  Noted(d, e)
<1>1. ASSUME StoriesApart PROVE SameStories(d, e)
  <2> SUFFICES ASSUME NEW o \in 1 .. Len(e), NEW t, Joined(e, o, Then, t)
               PROVE  o \in 1 .. Len(d) /\ Joined(d, o, Then, t)
    BY DEF SameStories
  <2>1. o \in 1 .. Len(d) /\ Then \in Arrows BY NoteMemoryAssumption DEF LinksAdded
  <2> QED BY <1>1, <2>1 DEF LinksAdded
<1> QED BY <1>1 DEF LinksAdded, Noted

LEMMA EmptyLinkIsNoted ==
    ASSUME NEW d \in Directories, NEW e, NEW p, NEW q, LinkAdded(d, e, p, Empty, q)
    PROVE  Noted(d, e)
<1>0. Empty \in Arrows /\ Then \in Arrows /\ InverseOf \in [Arrows -> Arrows]
  BY NoteMemoryAssumption
<1>1. ASSUME StoriesApart PROVE SameStories(d, e)
  BY <1>0, <1>1 DEF LinkAdded, SameStories, StoriesApart
<1>2. ASSUME Mirrored(d) PROVE Mirrored(e)
  <2> SUFFICES ASSUME NEW o \in 1 .. Len(d), NEW x \in Arrows \ {Empty}, NEW t,
                      Joined(e, o, x, t)
               PROVE  Joined(e, t, InverseOf[x], o)
    BY DEF Mirrored, LinkAdded
  <2>1. Joined(d, o, x, t) BY <1>0 DEF LinkAdded
  <2>2. Joined(d, t, InverseOf[x], o) BY <1>2, <2>1 DEF Mirrored
  <2>4. t \in 0 .. Len(d) /\ t # Nowhere BY <2>1 DEF Directories, Tidy, Joined
  <2>5. t \in 1 .. Len(d) BY <2>4 DEF Nowhere, Directories
  <2> QED BY <1>0, <2>2, <2>5 DEF LinkAdded
<1> QED BY <1>1, <1>2 DEF LinkAdded, Noted

(* The node of a text stays where it is and in its chapters. *)
LEMMA NodeStays ==
    ASSUME NEW d \in Directories, NEW e \in Directories, Grown(d, e), NEW i,
           Pointer(d, i) \in 1 .. Len(d)
    PROVE  /\ Pointer(e, i) = Pointer(d, i) /\ Pointer(e, i) \in 1 .. Len(e)
           /\ d[Pointer(d, i)].chaps \subseteq e[Pointer(e, i)].chaps
<1>1. Pointer(d, i) # 0 /\ Pointer(d, i) \in 1 .. Len(e) BY DEF Grown, Directories
<1>2. Pointer(e, i) = Pointer(d, i) BY <1>1, PointerIsStable DEF Directories
<1> QED BY <1>1, <1>2 DEF Grown, Kept

LEMMA LabelIsTags ==
    ASSUME NEW x \in SUBSET Fragments
    PROVE  Label(x) \in SUBSET Tags
BY DEF Label, Tags

(* AddBackAnnotations: each step links two nodes of the directory. *)
LEMMA AnnotationsAreNoted ==
    ASSUME NEW d \in Directories, NEW i \in Items, NEW chap \in Chapters,
           NEW frags \in SUBSET Fragments, Pointer(d, i) \in 1 .. Len(d)
    PROVE  Noted(d, AddBackAnnotations(d, i, chap, frags))
<1> DEFINE X == {e \in Directories : Noted(d, e)}
<1>1. PICK n \in Nat : n = Len(Marks[i]) BY NoteMemoryAssumption
<1>2. DOMAIN Marks[i] = 1 .. n /\ \A k \in 1 .. n : Marks[i][k] \in Arrows \X Items
  BY <1>1, NoteMemoryAssumption
<1>3. d \in X BY NotedIsReflexive
<1>4. ASSUME NEW e \in X, NEW k \in 1 .. n PROVE Annotated(e, i, Marks[i][k], chap, frags) \in X
  <2>1. PICK m \in Arrows \X Items : m = Marks[i][k] BY <1>2
  <2>2. m[1] \in Arrows /\ m[2] \in Items BY <2>1
  <2>3. StoriesApart => m[1] # Then /\ InverseOf[m[1]] # Then
    <3>1. k \in DOMAIN Marks[i] BY <1>2
    <3>2. m \in Range(Marks[i]) BY <2>1, <3>1 DEF Range
    <3>3. m[1] \in Named BY <3>2 DEF Named
    <3> QED BY <3>3 DEF StoriesApart
  <2>4. PICK f : f = AppendTextToDirectory(e, m[2], chap, FALSE) OBVIOUS
  <2>5. e \in Directories /\ Noted(d, e) OBVIOUS
  <2>6. TextAdded(e, f, m[2], chap) BY <2>2, <2>4, <2>5, AppendText
  <2>7. f \in Directories /\ Noted(e, f) /\ Pointer(f, m[2]) \in 1 .. Len(f)
    BY <2>5, <2>6, TextIsNoted DEF TextAdded
  <2>8. Noted(d, f) BY <2>5, <2>7, NotedIsTransitive
  <2>9. Pointer(f, i) \in 1 .. Len(f) BY <2>7, <2>8, NodeStays DEF Noted
  <2>10. PICK g : g = AddBothWays(f, Pointer(f, i), m[1], Label(frags), Pointer(f, m[2]), frags)
    OBVIOUS
  <2>11. LinksAdded(f, g, Pointer(f, i), m[1], Pointer(f, m[2]))
    <3>1. Label(frags) \in SUBSET Tags BY LabelIsTags
    <3> QED BY <2>2, <2>7, <2>9, <2>10, <3>1, AddLinks
  <2>12. Noted(f, g) BY <2>2, <2>3, <2>7, <2>11, LinksAreNoted
  <2>13. Noted(d, g) BY <2>8, <2>12, NotedIsTransitive
  <2>14. Annotated(e, i, m, chap, frags) = g BY <2>4, <2>10 DEF Annotated
  <2> QED BY <2>1, <2>13, <2>14 DEF Noted
<1> HIDE DEF X
<1>5. \A e \in X, k \in 1 .. n : Annotated(e, i, Marks[i][k], chap, frags) \in X BY <1>4
<1>6. AddBackAnnotations(d, i, chap, frags) \in X BY <1>2, <1>3, <1>5, AnnotationsStayIn
<1> QED BY <1>6 DEF X

LEMMA HandleNodeNotes ==
    ASSUME NEW d \in Directories, NEW i \in Items, NEW chap \in Chapters,
           NEW frags \in SUBSET Fragments, NEW e, e = HandleNode(d, i, chap, frags)
    PROVE  Noted(d, e) /\ Pointer(e, i) \in 1 .. Len(e)
<1>1. PICK a : a = AppendTextToDirectory(d, i, chap, FALSE) OBVIOUS
<1>2. TextAdded(d, a, i, chap) BY <1>1, AppendText
<1>3. Noted(d, a) /\ a \in Directories /\ Pointer(a, i) \in 1 .. Len(a)
  BY <1>2, TextIsNoted DEF TextAdded
<1>4. PICK b : b = AddBackAnnotations(a, i, chap, frags) OBVIOUS
<1>5. Noted(a, b) BY <1>3, <1>4, AnnotationsAreNoted
<1>6. b \in Directories /\ Grown(a, b) BY <1>5 DEF Noted
<1>7. Pointer(b, i) \in 1 .. Len(b) BY <1>3, <1>6, NodeStays
<1>8. e = AppendLinkToNode(b, Pointer(b, i), Empty, Label(frags), Nowhere)
  BY <1>1, <1>4 DEF HandleNode
<1>9. LinkAdded(b, e, Pointer(b, i), Empty, Nowhere)
  <2>1. Label(frags) \in SUBSET Tags BY LabelIsTags
  <2>2. Nowhere \in 0 .. Len(b) BY <1>6 DEF Nowhere, Directories
  <2>3. Empty \in Arrows BY NoteMemoryAssumption
  <2> QED BY <1>6, <1>7, <1>8, <2>1, <2>2, <2>3, AppendLink
<1>10. Noted(b, e) BY <1>6, <1>9, EmptyLinkIsNoted
<1>11. Noted(a, e) BY <1>3, <1>5, <1>10, NotedIsTransitive
<1>12. Noted(d, e) BY <1>3, <1>11, NotedIsTransitive
<1>13. Pointer(e, i) \in 1 .. Len(e) BY <1>6, <1>7, <1>10, NodeStays DEF Noted
<1> QED BY <1>12, <1>13

-----------------------------------------------------------------------------
(* Inference. *)

(* The links of a node lead to nodes of d. *)
Grounded(d, node) ==
    /\ node \in Node
    /\ \A x \in Arrows : \A q : LinksTo(node.links[x], q) =>
           q \in 0 .. Len(d) /\ (x # Empty => q # Nowhere)

(* What inference does to a directory: links are added, one way. *)
Inferred(d, e) ==
    /\ e \in Directories /\ Len(e) = Len(d) /\ Grown(d, e)
    /\ StoriesApart => SameStories(d, e)

LEMMA NodesAreGrounded ==
    ASSUME NEW d \in Directories, NEW p \in 1 .. Len(d)
    PROVE  Grounded(d, d[p])
BY NodeTypes DEF Grounded, Directories, Tidy

LEMMA InferredIsReflexive ==
    ASSUME NEW d \in Directories
    PROVE  Inferred(d, d)
BY GrownIsReflexive DEF Inferred, SameStories, Directories

LEMMA InferredIsTransitive ==
    ASSUME NEW d \in Directories, NEW e, NEW f, Inferred(d, e), Inferred(e, f)
    PROVE  Inferred(d, f)
<1>1. Grown(d, f) BY GrownIsTransitive DEF Inferred, Directories
<1>2. StoriesApart => SameStories(d, f) BY DEF Inferred, SameStories
<1> QED BY <1>1, <1>2 DEF Inferred

LEMMA LinkIsInferred ==
    ASSUME NEW d \in Directories, NEW e, NEW p, NEW x \in Arrows, NEW q, LinkAdded(d, e, p, x, q),
           StoriesApart => x # Then
    PROVE  Inferred(d, e)
<1>1. ASSUME StoriesApart PROVE SameStories(d, e)
  BY <1>1, NoteMemoryAssumption DEF LinkAdded, SameStories
<1> QED BY <1>1 DEF LinkAdded, Inferred

LEMMA RunGrows ==
    ASSUME NEW n \in Nat, NEW r \in [0 .. n -> Directories],
           \A k \in 1 .. n : Grown(r[k - 1], r[k]), NEW k \in 0 .. n
    PROVE  Grown(r[k], r[n])
<1> DEFINE S == {j \in 0 .. n : k <= j => Grown(r[k], r[j])}
<1>0. \A j \in 0 .. n : r[j] \in Directories /\ r[j] \in Seq(Node) BY DEF Directories
<1>1. Grown(r[k], r[k]) BY <1>0, GrownIsReflexive
<1>2. 0 \in S
  <2>1. 0 \in 0 .. n OBVIOUS
  <2>2. k <= 0 => k = 0 OBVIOUS
  <2> QED BY <1>1, <2>1, <2>2
<1>3. ASSUME NEW j \in 1 .. n, j - 1 \in S PROVE j \in S
  <2>1. j \in 0 .. n /\ j - 1 \in 0 .. n BY <1>3
  <2>2. CASE k <= j - 1
    <3>1. Grown(r[k], r[j - 1]) BY <1>3, <2>2
    <3>2. Grown(r[j - 1], r[j]) OBVIOUS
    <3>3. Grown(r[k], r[j]) BY <1>0, <2>1, <3>1, <3>2, GrownIsTransitive
    <3> QED BY <2>1, <3>3
  <2>3. CASE k = j BY <1>1, <2>1, <2>3
  <2>4. CASE ~ (k <= j) BY <2>1, <2>4
  <2> QED BY <2>1, <2>2, <2>3, <2>4
<1> HIDE DEF S
<1>4. S \in SUBSET (0 .. n) BY DEF S
<1>5. S = 0 .. n BY <1>2, <1>3, <1>4, InductionOnSteps
<1>6. n \in S BY <1>5
<1> QED BY <1>6 DEF S

(* The pairs of a sequence, each with the earlier element first. *)
LEMMA PairsElements ==
    ASSUME NEW S, NEW s \in Seq(S)
    PROVE  /\ Pairs(s) \in Seq(S \X S)
           /\ \A k, j \in 1 .. Len(s) : k < j => Holds(Pairs(s), <<s[k], s[j]>>)
<1> DEFINE row(n) == [o \in 1 .. (Len(s) - n) |-> <<s[n], s[n + o]>>]
           ss == [n \in DOMAIN s |-> row(n)]
<1>1. ASSUME NEW n \in 1 .. Len(s)
      PROVE  /\ row(n) \in Seq(S \X S) /\ Len(row(n)) = Len(s) - n
             /\ \A o \in 1 .. (Len(s) - n) : row(n)[o] = <<s[n], s[n + o]>>
  <2>1. Len(s) - n \in Nat OBVIOUS
  <2>2. \A o \in 1 .. (Len(s) - n) : n + o \in 1 .. Len(s) OBVIOUS
  <2>3. \A o \in 1 .. (Len(s) - n) : <<s[n], s[n + o]>> \in S \X S BY <2>2
  <2>4. row(n) \in [1 .. (Len(s) - n) -> S \X S] BY <2>3
  <2>5. row(n) \in Seq(S \X S) /\ Len(row(n)) = Len(s) - n
    <3> HIDE DEF row
    <3> QED BY <2>1, <2>4
  <2> QED BY <2>5
<1>2. ss \in Seq(Seq(S \X S)) /\ Len(ss) = Len(s) /\ \A n \in 1 .. Len(s) : ss[n] = row(n)
  <2>1. ss = [n \in 1 .. Len(s) |-> row(n)] /\ Len(s) \in Nat OBVIOUS
  <2> HIDE DEF ss, row
  <2>2. ss \in [1 .. Len(s) -> Seq(S \X S)] /\ \A n \in 1 .. Len(s) : ss[n] = row(n)
    BY <1>1, <2>1
  <2> QED BY <2>1, <2>2
<1>3. Pairs(s) = FlattenSeq(ss) BY DEF Pairs
<1> HIDE DEF ss, row
<1>4. /\ FlattenSeq(ss) \in Seq(S \X S)
      /\ \A x : Holds(FlattenSeq(ss), x) <=> \E k \in 1 .. Len(ss) : Holds(ss[k], x)
  BY <1>2, FlattenElements
<1>5. ASSUME NEW k \in 1 .. Len(s), NEW j \in 1 .. Len(s), k < j
      PROVE  Holds(Pairs(s), <<s[k], s[j]>>)
  <2>1. j - k \in 1 .. (Len(s) - k) /\ k + (j - k) = j BY <1>5
  <2>2. row(k)[j - k] = <<s[k], s[j]>> /\ j - k \in 1 .. Len(row(k)) BY <1>1, <2>1
  <2>3. Holds(row(k), <<s[k], s[j]>>) BY <2>2 DEF Holds
  <2> QED BY <1>2, <1>3, <1>4, <2>3
<1> QED BY <1>3, <1>4, <1>5

(* x leads from the earlier destinations of the list to the later ones. *)
Closed(e, x, list) ==
    \A k, j \in 1 .. Len(list) : k < j => Joined(e, list[k].dst, x, list[j].dst)

LEMMA ClosedStays ==
    ASSUME NEW d \in Directories, NEW e, Inferred(d, e), NEW x \in Arrows, NEW list,
           \A k \in 1 .. Len(list) : list[k].dst \in 1 .. Len(d), Closed(d, x, list)
    PROVE  Closed(e, x, list)
<1>1. e \in Directories /\ Grown(d, e) BY DEF Inferred
<1>2. d \in Seq(Node) /\ e \in Seq(Node) BY <1>1 DEF Directories
<1>3. ASSUME NEW k \in 1 .. Len(list), NEW j \in 1 .. Len(list), k < j
      PROVE  Joined(e, list[k].dst, x, list[j].dst)
  <2>1. Joined(d, list[k].dst, x, list[j].dst) BY <1>3 DEF Closed
  <2> QED BY <1>1, <1>2, <2>1, JoinedIsKept
<1> QED BY <1>3 DEF Closed

LEMMA DestinationsAreNodes ==
    ASSUME NEW d \in Directories, NEW node, Grounded(d, node), NEW x \in Arrows \ {Empty}
    PROVE  /\ node.links[x] \in Seq(Link)
           /\ \A k \in 1 .. Len(node.links[x]) : node.links[x][k].dst \in 1 .. Len(d)
           /\ Destinations(node, x) \in Seq(1 .. Len(d))
           /\ Len(Destinations(node, x)) = Len(node.links[x])
           /\ \A k \in 1 .. Len(node.links[x]) : Destinations(node, x)[k] = node.links[x][k].dst
<1>1. node.links[x] \in Seq(Link) BY DEF Grounded, Node
<1>2. ASSUME NEW k \in 1 .. Len(node.links[x]) PROVE node.links[x][k].dst \in 1 .. Len(d)
  <2>1. LinksTo(node.links[x], node.links[x][k].dst) BY DEF LinksTo
  <2>2. node.links[x][k].dst \in 0 .. Len(d) /\ node.links[x][k].dst # 0
    BY <2>1 DEF Grounded, Nowhere
  <2> QED BY <2>2 DEF Directories
<1> DEFINE list == node.links[x]
<1>3. Destinations(node, x) = [k \in 1 .. Len(list) |-> list[k].dst] BY <1>1 DEF Destinations
<1>4. list \in Seq(Link) /\ \A k \in 1 .. Len(list) : list[k].dst \in 1 .. Len(d) BY <1>1, <1>2
<1>5. Len(list) \in Nat BY <1>1
<1> HIDE DEF list
<1>6. /\ Destinations(node, x) \in Seq(1 .. Len(d)) /\ Len(Destinations(node, x)) = Len(list)
      /\ \A k \in 1 .. Len(list) : Destinations(node, x)[k] = list[k].dst
  BY <1>3, <1>4, <1>5
<1> QED BY <1>4, <1>6 DEF list

LEMMA ClosingInfers ==
    ASSUME NEW d \in Directories, NEW node, Grounded(d, node), NEW x \in Near
    PROVE  Inferred(d, CloseOne(d, node, x)) /\ Closed(CloseOne(d, node, x), x, node.links[x])
<1>0. x \in Arrows /\ x # Empty /\ (StoriesApart => x # Then)
  BY NoteMemoryAssumption DEF StoriesApart, Named
<1> DEFINE D == 1 .. Len(d)
           X == {e \in Directories : Inferred(d, e)}
<1>1. PICK pairs : pairs = Pairs(Destinations(node, x)) OBVIOUS
<1>2. PICK s : s = Destinations(node, x) OBVIOUS
<1>3. s \in Seq(D) BY <1>0, <1>2, DestinationsAreNodes
<1>4. pairs \in Seq(D \X D) /\ \A k, j \in 1 .. Len(s) : k < j => Holds(pairs, <<s[k], s[j]>>)
  <2> HIDE DEF D
  <2> QED BY <1>1, <1>2, <1>3, PairsElements
<1>5. PICK n \in Nat : n = Len(pairs) BY <1>4
<1>6. DOMAIN pairs = 1 .. n /\ \A k \in 1 .. n : pairs[k] \in D \X D BY <1>4, <1>5
<1>7. ASSUME NEW e \in X, NEW k \in 1 .. n
      PROVE  /\ LinkPair(e, x, pairs[k]) \in X /\ Grown(e, LinkPair(e, x, pairs[k]))
             /\ Joined(LinkPair(e, x, pairs[k]), pairs[k][1], x, pairs[k][2])
  <2>1. PICK p \in D, q \in D : pairs[k] = <<p, q>> BY <1>6
  <2>2. e \in Directories /\ Inferred(d, e) /\ Len(e) = Len(d) BY DEF Inferred
  <2>3. p \in 1 .. Len(e) /\ q \in 0 .. Len(e) /\ q # Nowhere
    BY <2>2 DEF Nowhere, Directories
  <2>4. PICK f : f = LinkPair(e, x, pairs[k]) OBVIOUS
  <2>5. f = AppendLinkToNode(e, p, x, {}, q) BY <2>1, <2>4 DEF LinkPair
  <2>6. {} \in SUBSET Tags OBVIOUS
  <2>7. LinkAdded(e, f, p, x, q) BY <1>0, <2>2, <2>3, <2>5, <2>6, AppendLink
  <2>8. Inferred(e, f) BY <1>0, <2>2, <2>7, LinkIsInferred
  <2>9. Inferred(d, f) BY <2>2, <2>8, InferredIsTransitive
  <2>10. Joined(f, p, x, q) BY <1>0, <2>3, <2>7 DEF LinkAdded
  <2> QED BY <2>1, <2>4, <2>8, <2>9, <2>10 DEF Inferred
<1>8. d \in X BY InferredIsReflexive
<1> HIDE DEF X
<1>9. PICK r \in [0 .. n -> X] : ClosingRun(r, n, d, node, x, pairs)
  <2>1. \A e \in X, k \in 1 .. n : LinkPair(e, x, pairs[k]) \in X BY <1>7
  <2> QED BY <1>1, <1>6, <1>8, <2>1, ClosingRuns
<1>10. r[n] = CloseOne(d, node, x) BY <1>9 DEF ClosingRun
<1>11. ASSUME NEW k \in 1 .. n
       PROVE  /\ k \in 0 .. n /\ Grown(r[k - 1], r[k])
              /\ Joined(r[k], pairs[k][1], x, pairs[k][2])
  <2>1. k - 1 \in 0 .. n /\ k \in 0 .. n OBVIOUS
  <2>2. r[k - 1] \in X BY <2>1
  <2>3. r[k] = LinkPair(r[k - 1], x, pairs[k]) BY <1>9 DEF ClosingRun
  <2> QED BY <1>7, <2>1, <2>2, <2>3
<1>12. r \in [0 .. n -> Directories] /\ n \in 0 .. n BY DEF X
<1>13. ASSUME NEW k \in 1 .. n PROVE Joined(r[n], pairs[k][1], x, pairs[k][2])
  <2>1. Grown(r[k], r[n]) /\ k \in 0 .. n BY <1>11, <1>12, RunGrows
  <2>2. r[k] \in Directories /\ r[n] \in Directories /\ Inferred(d, r[k])
    BY <1>12, <2>1 DEF X
  <2>3. pairs[k][1] \in 1 .. Len(r[k]) BY <1>6, <2>2 DEF Inferred
  <2>4. r[k] \in Seq(Node) /\ r[n] \in Seq(Node) BY <2>2 DEF Directories
  <2> QED BY <1>0, <1>11, <2>1, <2>3, <2>4, JoinedIsKept
<1>14. Inferred(d, r[n]) BY <1>12 DEF X
<1>15. Closed(r[n], x, node.links[x])
  <2> SUFFICES ASSUME NEW k \in 1 .. Len(node.links[x]), NEW j \in 1 .. Len(node.links[x]), k < j
               PROVE  Joined(r[n], node.links[x][k].dst, x, node.links[x][j].dst)
    BY DEF Closed
  <2>1. /\ Len(s) = Len(node.links[x])
        /\ s[k] = node.links[x][k].dst /\ s[j] = node.links[x][j].dst
    BY <1>0, <1>2, DestinationsAreNodes
  <2>2. Holds(pairs, <<s[k], s[j]>>) BY <1>4, <2>1
  <2>3. PICK o \in 1 .. n : pairs[o] = <<s[k], s[j]>> BY <1>5, <2>2 DEF Holds
  <2>4. pairs[o][1] = s[k] /\ pairs[o][2] = s[j] BY <2>3
  <2> QED BY <1>13, <2>1, <2>4
<1> QED BY <1>10, <1>14, <1>15

LEMMA GroundedStays ==
    ASSUME NEW d, NEW e, Len(e) = Len(d), NEW node, Grounded(d, node)
    PROVE  Grounded(e, node)
BY DEF Grounded

LEMMA ClosenessInfers ==
    ASSUME NEW d \in Directories, NEW node, Grounded(d, node)
    PROVE  /\ Inferred(d, CompleteCloseness(d, node))
           /\ \A x \in Near : Closed(CompleteCloseness(d, node), x, node.links[x])
<1> DEFINE X == {e \in Directories : Inferred(d, e)}
<1>1. PICK near : near = SetToSeq(Near) OBVIOUS
<1>2. near \in Seq(Near) /\ \A x \in Near : Holds(near, x)
  BY <1>1, NoteMemoryAssumption, SetToSeqElements
<1>3. PICK n \in Nat : n = Len(near) BY <1>2
<1>4. DOMAIN near = 1 .. n /\ \A k \in 1 .. n : near[k] \in Near BY <1>2, <1>3
<1>5. ASSUME NEW e \in X, NEW k \in 1 .. n
      PROVE  /\ CloseOne(e, node, near[k]) \in X /\ Grown(e, CloseOne(e, node, near[k]))
             /\ Closed(CloseOne(e, node, near[k]), near[k], node.links[near[k]])
  <2>1. e \in Directories /\ Inferred(d, e) /\ Len(e) = Len(d) BY DEF Inferred
  <2>2. Grounded(e, node) BY <2>1, GroundedStays
  <2>3. PICK x \in Near : x = near[k] BY <1>4
  <2>4. Inferred(e, CloseOne(e, node, x)) /\ Closed(CloseOne(e, node, x), x, node.links[x])
    BY <2>1, <2>2, ClosingInfers
  <2>5. Inferred(d, CloseOne(e, node, x)) BY <2>1, <2>4, InferredIsTransitive
  <2> QED BY <2>3, <2>4, <2>5 DEF Inferred
<1>6. d \in X BY InferredIsReflexive
<1> HIDE DEF X
<1>7. PICK r \in [0 .. n -> X] : ClosenessRun(r, n, d, node, near)
  <2>1. \A e \in X, k \in 1 .. n : CloseOne(e, node, near[k]) \in X BY <1>5
  <2> QED BY <1>1, <1>4, <1>6, <2>1, ClosenessRuns
<1>8. r[n] = CompleteCloseness(d, node) BY <1>7 DEF ClosenessRun
<1>9. ASSUME NEW k \in 1 .. n
      PROVE  k \in 0 .. n /\ Grown(r[k - 1], r[k]) /\ Closed(r[k], near[k], node.links[near[k]])
  <2>1. k - 1 \in 0 .. n /\ k \in 0 .. n OBVIOUS
  <2>2. r[k - 1] \in X BY <2>1
  <2>3. r[k] = CloseOne(r[k - 1], node, near[k]) BY <1>7 DEF ClosenessRun
  <2> QED BY <1>5, <2>1, <2>2, <2>3
<1>10. r \in [0 .. n -> Directories] /\ n \in 0 .. n BY DEF X
<1>11. Inferred(d, r[n]) BY <1>10 DEF X
<1>12. ASSUME NEW x \in Near PROVE Closed(r[n], x, node.links[x])
  <2>0. x \in Arrows \ {Empty} BY NoteMemoryAssumption
  <2>1. PICK k \in 1 .. n : near[k] = x BY <1>2, <1>3 DEF Holds
  <2>2. Grown(r[k], r[n]) /\ k \in 0 .. n BY <1>9, <1>10, RunGrows
  <2>3. r[k] \in Directories /\ r[n] \in Directories /\ Inferred(d, r[k]) /\ Len(r[k]) = Len(d)
    BY <1>10, <2>2 DEF X, Inferred
  <2>4. Closed(r[k], x, node.links[x]) BY <1>9, <2>1
  <2>5. \A o \in 1 .. Len(node.links[x]) : node.links[x][o].dst \in 1 .. Len(r[k])
    BY <2>0, <2>3, DestinationsAreNodes
  <2>6. r[k] \in Seq(Node) /\ r[n] \in Seq(Node) BY <2>3 DEF Directories
  <2> SUFFICES ASSUME NEW a \in 1 .. Len(node.links[x]), NEW b \in 1 .. Len(node.links[x]), a < b
               PROVE  Joined(r[n], node.links[x][a].dst, x, node.links[x][b].dst)
    BY DEF Closed
  <2>7. Joined(r[k], node.links[x][a].dst, x, node.links[x][b].dst) BY <2>4 DEF Closed
  <2>8. node.links[x][a].dst \in 1 .. Len(r[k]) BY <2>5
  <2> QED BY <2>0, <2>2, <2>6, <2>7, <2>8, JoinedIsKept
<1> QED BY <1>8, <1>11, <1>12

(* A path of arrows leads to a node or nowhere. *)
LEMMA PathLeadsToNode ==
    ASSUME NEW d \in Directories, NEW p \in 0 .. Len(d), NEW node, Grounded(d, node),
           NEW path \in Seq(Arrows)
    PROVE  NodePointedTo(d, p, node, path) \in 0 .. Len(d)
<1> DEFINE M == {m \in Node : Grounded(d, m)}
           X == [at : 0 .. Len(d), node : M]
<1>1. PICK n \in Nat : n = Len(path) OBVIOUS
<1>2. DOMAIN path = 1 .. n /\ \A k \in 1 .. n : path[k] \in Arrows BY <1>1
<1>3. [at |-> p, node |-> node] \in X BY DEF Grounded
<1>4. ASSUME NEW e \in X, NEW k \in 1 .. n PROVE Hop(d, e, path[k]) \in X
  <2>1. PICK x \in Arrows : x = path[k] BY <1>2
  <2>2. e.at \in 0 .. Len(d) /\ e.node \in Node /\ Grounded(d, e.node) OBVIOUS
  <2> DEFINE list == IF e.at = Nowhere THEN <<>> ELSE e.node.links[x]
             to == IF list = <<>> THEN Nowhere ELSE Last(list).dst
  <2>3. to \in 0 .. Len(d)
    <3>1. CASE list = <<>> BY <3>1 DEF Nowhere, Directories
    <3>2. CASE list # <<>>
      <4>1. list = e.node.links[x] /\ list \in Seq(Link) BY <2>2, <3>2 DEF Node
      <4> HIDE DEF list
      <4>2. Len(list) \in 1 .. Len(list) /\ Last(list) = list[Len(list)]
        BY <3>2, <4>1 DEF Last
      <4>3. LinksTo(list, Last(list).dst) BY <4>2 DEF LinksTo
      <4>4. Last(list).dst \in 0 .. Len(d) BY <2>2, <4>1, <4>3 DEF Grounded
      <4> QED BY <3>2, <4>4
    <3> QED BY <3>1, <3>2
  <2>4. Hop(d, e, x) = [at |-> to, node |-> IF to = Nowhere THEN e.node ELSE d[to]]
    BY DEF Hop
  <2> HIDE DEF to
  <2>5. to # Nowhere => d[to] \in M
    <3>1. to # Nowhere => to \in 1 .. Len(d) BY <2>3 DEF Nowhere
    <3> QED BY <3>1, NodesAreGrounded DEF Grounded
  <2>6. (IF to = Nowhere THEN e.node ELSE d[to]) \in M BY <2>2, <2>5
  <2> QED BY <2>1, <2>3, <2>4, <2>6
<1> HIDE DEF X
<1>5. \A e \in X, k \in 1 .. n : Hop(d, e, path[k]) \in X BY <1>4
<1>6. PICK x \in X : NodePointedTo(d, p, node, path) = x.at BY <1>2, <1>3, <1>5, HopsStayIn
<1> QED BY <1>6 DEF X

LEMMA SequencesInfer ==
    ASSUME NEW d \in Directories, NEW p \in 1 .. Len(d), NEW node, Grounded(d, node)
    PROVE  Inferred(d, CompleteSequences(d, p, node))
<1> DEFINE X == {e \in Directories : Inferred(d, e)}
<1>1. PICK n \in Nat : n = Len(Closures) BY NoteMemoryAssumption
<1>2. DOMAIN Closures = 1 .. n /\ \A k \in 1 .. n : Closures[k] \in Seq(Arrows) \X Arrows
  BY <1>1, NoteMemoryAssumption
<1>3. ASSUME NEW e \in X, NEW k \in 1 .. n PROVE Concluded(e, p, node, Closures[k]) \in X
  <2>1. PICK path \in Seq(Arrows), x \in Arrows : Closures[k] = <<path, x>> BY <1>2
  <2>2. e \in Directories /\ Inferred(d, e) /\ Len(e) = Len(d) BY DEF Inferred
  <2>3. PICK to : to = NodePointedTo(e, p, node, path) OBVIOUS
  <2>4. to \in 0 .. Len(e)
    <3>1. Grounded(e, node) /\ p \in 0 .. Len(e) BY <2>2, GroundedStays
    <3> QED BY <2>2, <2>3, <3>1, PathLeadsToNode
  <2>5. Concluded(e, p, node, Closures[k])
            = IF to = Nowhere THEN e ELSE AppendLinkToNode(e, to, x, {}, p)
    BY <2>1, <2>3 DEF Concluded
  <2>6. CASE to = Nowhere BY <2>2, <2>5, <2>6
  <2>7. CASE to # Nowhere
    <3>1. to \in 1 .. Len(e) /\ p \in 0 .. Len(e) /\ p # Nowhere BY <2>2, <2>4, <2>7 DEF Nowhere
    <3>2. PICK f : f = AppendLinkToNode(e, to, x, {}, p) OBVIOUS
    <3>3. {} \in SUBSET Tags OBVIOUS
    <3>4. LinkAdded(e, f, to, x, p) BY <2>2, <3>1, <3>2, <3>3, AppendLink
    <3>5. StoriesApart => x # Then
      <4>1. k \in DOMAIN Closures /\ Closures[k][2] = x BY <1>2, <2>1
      <4>2. x \in Named BY <4>1 DEF Named, Range
      <4> QED BY <4>2 DEF StoriesApart
    <3>6. Inferred(e, f) BY <2>2, <3>4, <3>5, LinkIsInferred
    <3>7. Inferred(d, f) BY <2>2, <3>6, InferredIsTransitive
    <3> QED BY <2>5, <2>7, <3>2, <3>7 DEF Inferred
  <2> QED BY <2>6, <2>7
<1>4. d \in X BY InferredIsReflexive
<1> HIDE DEF X
<1>5. \A e \in X, k \in 1 .. n : Concluded(e, p, node, Closures[k]) \in X BY <1>3
<1>6. CompleteSequences(d, p, node) \in X BY <1>2, <1>4, <1>5, SequencesStayIn
<1> QED BY <1>6 DEF X

LEMMA NodeInfers ==
    ASSUME NEW d \in Directories, NEW p \in 1 .. Len(d)
    PROVE  /\ Inferred(d, CompleteNode(d, p))
           /\ \A x \in Near : Closed(CompleteNode(d, p), x, d[p].links[x])
<1>1. Grounded(d, d[p]) BY NodesAreGrounded
<1>2. PICK e : e = CompleteCloseness(d, d[p]) OBVIOUS
<1>3. Inferred(d, e) /\ \A x \in Near : Closed(e, x, d[p].links[x])
  BY <1>1, <1>2, ClosenessInfers
<1>4. e \in Directories /\ Len(e) = Len(d) BY <1>3 DEF Inferred
<1>5. PICK f : f = CompleteSequences(e, p, d[p]) OBVIOUS
<1>6. Inferred(e, f)
  <2>1. Grounded(e, d[p]) /\ p \in 1 .. Len(e) BY <1>1, <1>4, GroundedStays
  <2> QED BY <1>4, <1>5, <2>1, SequencesInfer
<1>7. CompleteNode(d, p) = f BY <1>2, <1>5 DEF CompleteNode
<1>8. Inferred(d, f) BY <1>3, <1>6, InferredIsTransitive
<1>9. ASSUME NEW x \in Near PROVE Closed(f, x, d[p].links[x])
  <2>1. x \in Arrows \ {Empty} BY NoteMemoryAssumption
  <2>2. \A k \in 1 .. Len(d[p].links[x]) : d[p].links[x][k].dst \in 1 .. Len(e)
    BY <1>1, <1>4, <2>1, DestinationsAreNodes
  <2>3. Closed(e, x, d[p].links[x]) BY <1>3
  <2> QED BY <1>4, <1>6, <2>1, <2>2, <2>3, ClosedStays
<1> QED BY <1>7, <1>8, <1>9

(* Every node has its turn. *)
LEMMA OrderElements ==
    ASSUME NEW d \in Directories
    PROVE  /\ InferenceOrder(d) \in Seq(1 .. Len(d))
           /\ \A p \in 1 .. Len(d) : Holds(InferenceOrder(d), p)
<1> DEFINE D == 1 .. Len(d)
           one(c, p) == IF d[p].storage[1] = c THEN <<p>> ELSE <<>>
           ones(c) == [p \in DOMAIN d |-> one(c, p)]
           row(c) == FlattenSeq(ones(c))
           ss == [c \in 1 .. 6 |-> row(c)]
<1>0. PICK n \in Nat : n = Len(d) /\ DOMAIN d = 1 .. n BY DEF Directories
<1>1. InferenceOrder(d) = FlattenSeq(ss) BY DEF InferenceOrder
<1>2. ASSUME NEW c, NEW p \in D
      PROVE  one(c, p) \in Seq(D) /\ (d[p].storage[1] = c => Holds(one(c, p), p))
  <2>1. <<p>> \in Seq(D) /\ <<>> \in Seq(D) /\ 1 \in 1 .. Len(<<p>>) /\ <<p>>[1] = p OBVIOUS
  <2> QED BY <2>1 DEF Holds
<1> HIDE DEF one
<1>3. ASSUME NEW c
      PROVE  ones(c) \in Seq(Seq(D)) /\ Len(ones(c)) = n /\ \A p \in D : ones(c)[p] = one(c, p)
  <2>1. ones(c) \in [1 .. n -> Seq(D)] BY <1>0, <1>2
  <2>2. \A p \in D : ones(c)[p] = one(c, p) BY <1>0
  <2> HIDE DEF ones
  <2> QED BY <2>1, <2>2
<1> HIDE DEF ones
<1>4. ASSUME NEW c
      PROVE  row(c) \in Seq(D) /\ \A p \in D : d[p].storage[1] = c => Holds(row(c), p)
  <2>1. /\ row(c) \in Seq(D)
        /\ \A x : Holds(row(c), x) <=> \E k \in 1 .. Len(ones(c)) : Holds(ones(c)[k], x)
    <3> HIDE DEF D
    <3> QED BY <1>3, FlattenElements
  <2>2. ASSUME NEW p \in D, d[p].storage[1] = c PROVE Holds(row(c), p)
    <3>1. p \in 1 .. Len(ones(c)) BY <1>0, <1>3
    <3> QED BY <1>2, <1>3, <2>1, <2>2, <3>1
  <2> QED BY <2>1, <2>2
<1> HIDE DEF row
<1>5. ss \in Seq(Seq(D)) /\ Len(ss) = 6 /\ \A c \in 1 .. 6 : ss[c] = row(c)
  <2>1. PICK classes \in Nat : classes = 6 OBVIOUS
  <2>2. ss \in [1 .. classes -> Seq(D)] /\ \A c \in 1 .. classes : ss[c] = row(c)
    BY <1>4, <2>1
  <2> HIDE DEF ss, D
  <2>3. ss \in Seq(Seq(D)) /\ Len(ss) = classes BY <2>2
  <2> QED BY <2>1, <2>2, <2>3
<1> HIDE DEF ss
<1>6. /\ FlattenSeq(ss) \in Seq(D)
      /\ \A x : Holds(FlattenSeq(ss), x) <=> \E k \in 1 .. Len(ss) : Holds(ss[k], x)
  <2> HIDE DEF D
  <2> QED BY <1>5, FlattenElements
<1>7. ASSUME NEW p \in D PROVE Holds(FlattenSeq(ss), p)
  <2>1. d[p].storage \in Classes BY NodeTypes DEF Directories
  <2>2. PICK c \in 1 .. 6 : c = d[p].storage[1] BY <2>1, NoteMemoryAssumption DEF Classes
  <2>3. Holds(ss[c], p) /\ c \in 1 .. Len(ss) BY <1>4, <1>5, <2>2
  <2> QED BY <1>6, <2>3
<1> QED BY <1>1, <1>6, <1>7

(* The inferences keep what was noted and close every triangle. *)
LEMMA InferencesInfer ==
    ASSUME NEW d \in Directories, NEW e, e = CompleteInferences(d)
    PROVE  /\ Inferred(d, e)
           /\ \A p \in 1 .. Len(d), x \in Near : Closed(e, x, d[p].links[x])
<1> DEFINE X == {f \in Directories : Inferred(d, f)}
<1>1. PICK order : order = InferenceOrder(d) OBVIOUS
<1>2. order \in Seq(1 .. Len(d)) /\ \A p \in 1 .. Len(d) : Holds(order, p)
  BY <1>1, OrderElements
<1>3. PICK n \in Nat : n = Len(order) BY <1>2
<1>4. DOMAIN order = 1 .. n /\ \A k \in 1 .. n : order[k] \in 1 .. Len(d) BY <1>2, <1>3
<1>5. ASSUME NEW f \in X, NEW k \in 1 .. n
      PROVE  /\ CompleteNode(f, order[k]) \in X /\ Grown(f, CompleteNode(f, order[k]))
             /\ \A x \in Near : Closed(CompleteNode(f, order[k]), x, f[order[k]].links[x])
  <2>1. f \in Directories /\ Inferred(d, f) /\ Len(f) = Len(d) BY DEF Inferred
  <2>2. order[k] \in 1 .. Len(f) BY <1>4, <2>1
  <2>3. /\ Inferred(f, CompleteNode(f, order[k]))
        /\ \A x \in Near : Closed(CompleteNode(f, order[k]), x, f[order[k]].links[x])
    BY <2>1, <2>2, NodeInfers
  <2>4. Inferred(d, CompleteNode(f, order[k])) BY <2>1, <2>3, InferredIsTransitive
  <2> QED BY <2>3, <2>4 DEF Inferred
<1>6. d \in X BY InferredIsReflexive
<1> HIDE DEF X
<1>7. PICK r \in [0 .. n -> X] : InferencesRun(r, n, d, order)
  <2>1. \A f \in X, k \in 1 .. n : CompleteNode(f, order[k]) \in X BY <1>5
  <2> QED BY <1>1, <1>4, <1>6, <2>1, InferencesRuns
<1>8. r[n] = e BY <1>7 DEF InferencesRun
<1>9. ASSUME NEW k \in 1 .. n
      PROVE  /\ k \in 0 .. n /\ k - 1 \in 0 .. n /\ Grown(r[k - 1], r[k])
             /\ \A x \in Near : Closed(r[k], x, r[k - 1][order[k]].links[x])
  <2>1. k - 1 \in 0 .. n /\ k \in 0 .. n OBVIOUS
  <2>2. r[k - 1] \in X BY <2>1
  <2>3. r[k] = CompleteNode(r[k - 1], order[k]) BY <1>7 DEF InferencesRun
  <2> QED BY <1>5, <2>1, <2>2, <2>3
<1>10. r \in [0 .. n -> Directories] /\ n \in 0 .. n BY DEF X
<1>11. Inferred(d, e) BY <1>8, <1>10 DEF X
<1>12. ASSUME NEW p \in 1 .. Len(d), NEW x \in Near PROVE Closed(e, x, d[p].links[x])
  <2>0. x \in Arrows \ {Empty} BY NoteMemoryAssumption
  <2>1. PICK k \in 1 .. n : order[k] = p BY <1>2, <1>3 DEF Holds
  <2>2. Grown(r[k], r[n]) /\ k \in 0 .. n /\ k - 1 \in 0 .. n BY <1>9, <1>10, RunGrows
  <2>3. PICK a \in Directories : a = r[k - 1] BY <1>10, <2>2
  <2>4. PICK b \in Directories : b = r[k] BY <1>10, <2>2
  <2>5. Inferred(d, a) /\ Inferred(d, b) /\ e \in Directories /\ Grown(b, e)
    BY <1>8, <1>10, <2>2, <2>3, <2>4 DEF X
  <2>6. Len(a) = Len(d) /\ Len(b) = Len(d) /\ Grown(d, a) BY <2>5 DEF Inferred
  <2>7. Closed(b, x, a[p].links[x]) BY <1>9, <2>1, <2>3, <2>4
  <2>8. \A o \in 1 .. Len(a[p].links[x]) : a[p].links[x][o].dst \in 1 .. Len(b)
    <3>1. Grounded(a, a[p]) BY <2>6, NodesAreGrounded
    <3> QED BY <2>0, <2>6, <3>1, DestinationsAreNodes
  <2>9. ListKept(d[p].links[x], a[p].links[x]) BY <2>0, <2>6 DEF Grown, Kept
  <2> SUFFICES ASSUME NEW k1 \in 1 .. Len(d[p].links[x]), NEW k2 \in 1 .. Len(d[p].links[x]),
                      k1 < k2
               PROVE  Joined(e, d[p].links[x][k1].dst, x, d[p].links[x][k2].dst)
    BY DEF Closed
  <2>10. d[p].links[x] \in Seq(Link) /\ a[p].links[x] \in Seq(Link)
    BY <2>0, <2>6, NodeTypes DEF Directories
  <2>11. /\ k1 \in 1 .. Len(a[p].links[x]) /\ k2 \in 1 .. Len(a[p].links[x])
         /\ a[p].links[x][k1].dst = d[p].links[x][k1].dst
         /\ a[p].links[x][k2].dst = d[p].links[x][k2].dst
    <3> DEFINE old == d[p].links[x]
               new == a[p].links[x]
    <3>1. old \in Seq(Link) /\ new \in Seq(Link) /\ ListKept(old, new)
            /\ k1 \in 1 .. Len(old) /\ k2 \in 1 .. Len(old)
      BY <2>9, <2>10
    <3> HIDE DEF old, new
    <3>2. /\ k1 \in 1 .. Len(new) /\ k2 \in 1 .. Len(new)
          /\ new[k1].dst = old[k1].dst /\ new[k2].dst = old[k2].dst
      BY <3>1 DEF ListKept
    <3> QED BY <3>2 DEF old, new
  <2>12. Joined(b, d[p].links[x][k1].dst, x, d[p].links[x][k2].dst)
    BY <2>7, <2>11 DEF Closed
  <2>13. d[p].links[x][k1].dst \in 1 .. Len(b) BY <2>8, <2>11
  <2>14. b \in Seq(Node) /\ e \in Seq(Node) BY <2>5 DEF Directories
  <2> QED BY <2>0, <2>5, <2>12, <2>13, <2>14, JoinedIsKept
<1> QED BY <1>11, <1>12

-----------------------------------------------------------------------------
(* Lines and pages. *)

States == {"blank", "section", "=", "+", "-", "alias", "relation", "event", "lookup"}
Reln == [arr : Written \cap Arrows, ctx : SUBSET Tags]
Step == [arr : Arrows, dst : Nat]
Line == [state : States, items : Seq(Items), relns : Seq(Reln), refs : Seq(Nat),
         alias : Aliases \cup {NoAlias}, path : Seq(Step)]
Page == [chap : Chapters, alias : Aliases \cup {NoAlias}, ctx : SUBSET Tags,
         path : Seq(Step), refs : Seq(Nat)]
Story == [mode : BOOLEAN, start : BOOLEAN, last : Items \cup {NoItem}]

(* The path can be replayed over the items' nodes, see PagesReplayLines. *)
Replayed(d, refs, path) ==
    /\ refs \in Seq(1 .. Len(d)) /\ path \in Seq(Step)
    /\ path = <<>> <=> refs = <<>>
    /\ path # <<>> => path[1].dst = refs[1]
    /\ Len(path) <= Len(refs)
    /\ Len(path) = Len(refs) =>
           \A k \in 2 .. Len(path) :
               path[k].dst = refs[k] /\ Joined(d, refs[k - 1], path[k].arr, refs[k])

LEMMA ReplayedStays ==
    ASSUME NEW d \in Directories, NEW e \in Directories, Grown(d, e), NEW refs, NEW path,
           Replayed(d, refs, path)
    PROVE  Replayed(e, refs, path)
<1>1. refs \in Seq(1 .. Len(d)) /\ path \in Seq(Step) BY DEF Replayed
<1>2. refs \in Seq(1 .. Len(e))
  <2>1. \A q \in 1 .. Len(d) : q \in 1 .. Len(e) BY DEF Grown, Directories
  <2>2. \A k \in 1 .. Len(refs) : refs[k] \in 1 .. Len(e) BY <1>1, <2>1
  <2>3. refs \in [1 .. Len(refs) -> 1 .. Len(e)] /\ Len(refs) \in Nat BY <1>1, <2>2
  <2> QED BY <2>3
<1>3. ASSUME Len(path) = Len(refs), NEW k \in 2 .. Len(path)
      PROVE  path[k].dst = refs[k] /\ Joined(e, refs[k - 1], path[k].arr, refs[k])
  <2>1. path[k].dst = refs[k] /\ Joined(d, refs[k - 1], path[k].arr, refs[k])
    BY <1>3 DEF Replayed
  <2>2. k - 1 \in 1 .. Len(refs) /\ k \in 1 .. Len(path) BY <1>1, <1>3
  <2>3. refs[k - 1] \in 1 .. Len(d) BY <1>1, <2>2
  <2>4. path[k].arr \in Arrows
    <3>1. path[k] \in Step BY <1>1, <2>2
    <3> QED BY <3>1 DEF Step
  <2>5. d \in Seq(Node) /\ e \in Seq(Node) BY DEF Directories
  <2> QED BY <2>1, <2>3, <2>4, <2>5, JoinedIsKept
<1> QED BY <1>1, <1>2, <1>3 DEF Replayed

LEMMA ReplayedWithItem ==
    ASSUME NEW d \in Directories, NEW refs, NEW path, Replayed(d, refs, path),
           NEW p \in 1 .. Len(d)
    PROVE  /\ Replayed(d, Append(refs, p), Begun(path, p)) /\ Append(refs, p) # <<>>
           /\ Begun(path, p) \in Seq(Step) /\ Begun(path, p) # <<>>
           /\ Begun(path, p)[1].dst = Append(refs, p)[1]
<1>0. d \in Seq(Node) /\ p \in Nat BY DEF Directories
<1>1. refs \in Seq(1 .. Len(d)) /\ path \in Seq(Step) /\ Len(path) <= Len(refs) BY DEF Replayed
<1>2. Append(refs, p) \in Seq(1 .. Len(d)) /\ Len(Append(refs, p)) = Len(refs) + 1
        /\ Append(refs, p) # <<>>
  <2> DEFINE D == 1 .. Len(d)
  <2>1. refs \in Seq(D) /\ p \in D BY <1>1
  <2> HIDE DEF D
  <2>2. Append(refs, p) \in Seq(D) /\ Len(Append(refs, p)) = Len(refs) + 1 BY <2>1
  <2>3. Append(refs, p) # <<>> BY <2>1, <2>2
  <2> QED BY <2>2, <2>3 DEF D
<1>3. CASE path = <<>>
  <2>1. refs = <<>> BY <1>3 DEF Replayed
  <2> DEFINE step == [arr |-> Empty, dst |-> p]
  <2>2. step \in Step /\ step.dst = p BY <1>0, NoteMemoryAssumption DEF Step
  <2>3. Begun(path, p) = <<step>> BY <1>3 DEF Begun
  <2> HIDE DEF step
  <2>4. /\ <<step>> \in Seq(Step) /\ <<step>> # <<>> /\ Len(<<step>>) = 1
        /\ <<step>>[1] = step
    BY <2>2
  <2>5. Append(refs, p) = <<p>> /\ Len(<<p>>) = 1 /\ <<p>>[1] = p BY <2>1
  <2>6. 2 .. 1 = {} OBVIOUS
  <2> QED BY <1>2, <2>2, <2>3, <2>4, <2>5, <2>6 DEF Replayed
<1>4. CASE path # <<>>
  <2>1. Begun(path, p) = path BY <1>4 DEF Begun
  <2>2. refs # <<>> /\ path[1].dst = refs[1] BY <1>4 DEF Replayed
  <2>3. Append(refs, p)[1] = refs[1] BY <1>1, <2>2
  <2>4. Len(path) <= Len(Append(refs, p)) /\ Len(path) # Len(Append(refs, p)) BY <1>1, <1>2
  <2> QED BY <1>1, <1>2, <1>4, <2>1, <2>2, <2>3, <2>4 DEF Replayed
<1> QED BY <1>3, <1>4

LEMMA ReplayedWithLink ==
    ASSUME NEW d \in Directories, NEW refs, NEW path, Replayed(d, refs, path), refs # <<>>,
           NEW p \in 1 .. Len(d), NEW x \in Arrows, Joined(d, refs[Len(refs)], x, p)
    PROVE  Replayed(d, Append(refs, p), Append(Begun(path, p), [arr |-> x, dst |-> p]))
<1>0. d \in Seq(Node) /\ p \in Nat BY DEF Directories
<1>1. refs \in Seq(1 .. Len(d)) /\ path \in Seq(Step) /\ path # <<>> /\ Len(path) <= Len(refs)
        /\ path[1].dst = refs[1]
  BY DEF Replayed
<1>2. Begun(path, p) = path BY <1>1 DEF Begun
<1> DEFINE step == [arr |-> x, dst |-> p]
<1>3. step \in Step /\ step.dst = p /\ step.arr = x BY <1>0 DEF Step
<1> HIDE DEF step
<1> DEFINE new == Append(refs, p)
           steps == Append(path, step)
<1>4. /\ new \in Seq(1 .. Len(d)) /\ Len(new) = Len(refs) + 1 /\ new # <<>>
      /\ new[Len(new)] = p /\ \A k \in 1 .. Len(refs) : new[k] = refs[k]
  BY <1>1
<1>5. /\ steps \in Seq(Step) /\ Len(steps) = Len(path) + 1 /\ steps # <<>>
      /\ steps[Len(steps)] = step /\ \A k \in 1 .. Len(path) : steps[k] = path[k]
  BY <1>1, <1>3
<1> HIDE DEF new, steps
<1>6. 1 \in 1 .. Len(refs) /\ 1 \in 1 .. Len(path) BY <1>1
<1>7. steps[1].dst = new[1] BY <1>1, <1>4, <1>5, <1>6
<1>8. ASSUME Len(steps) = Len(new), NEW k \in 2 .. Len(steps)
      PROVE  steps[k].dst = new[k] /\ Joined(d, new[k - 1], steps[k].arr, new[k])
  <2>1. Len(path) = Len(refs) BY <1>1, <1>4, <1>5, <1>8
  <2>2. CASE k = Len(steps)
    <3>1. k - 1 = Len(refs) /\ k - 1 \in 1 .. Len(refs) BY <1>1, <1>5, <2>1, <2>2
    <3>2. new[k - 1] = refs[Len(refs)] /\ new[k] = p /\ steps[k] = step
      BY <1>4, <1>5, <1>8, <2>2, <3>1
    <3> QED BY <1>3, <3>2
  <2>3. CASE k # Len(steps)
    <3>1. k \in 2 .. Len(path) /\ k \in 1 .. Len(refs) /\ k - 1 \in 1 .. Len(refs)
            /\ k \in 1 .. Len(path)
      BY <1>1, <1>5, <1>8, <2>1, <2>3
    <3>2. path[k].dst = refs[k] /\ Joined(d, refs[k - 1], path[k].arr, refs[k])
      BY <2>1, <3>1 DEF Replayed
    <3>3. new[k] = refs[k] /\ new[k - 1] = refs[k - 1] /\ steps[k] = path[k]
      BY <1>4, <1>5, <3>1
    <3> QED BY <3>2, <3>3
  <2> QED BY <2>2, <2>3
<1>9. Len(steps) <= Len(new) BY <1>1, <1>4, <1>5
<1>10. Replayed(d, new, steps) BY <1>4, <1>5, <1>7, <1>8, <1>9 DEF Replayed
<1> QED BY <1>2, <1>10 DEF new, steps, step

-----------------------------------------------------------------------------
(* Stories. *)

(* A link of a story from p to q is added, if any. *)
StoryAdded(d, e, p, q) ==
    /\ e \in Directories /\ Grown(d, e)
    /\ Mutual /\ Mirrored(d) => Mirrored(e)
    /\ StoriesApart =>
           \A o \in 1 .. Len(e) : \A t :
               Joined(e, o, Then, t) =>
                   \/ o \in 1 .. Len(d) /\ Joined(d, o, Then, t)
                   \/ o = p /\ t = q

LEMMA StoryGoesOn ==
    ASSUME section \in Chapters, context \in SUBSET Fragments, story.last \in Items,
           story.start \in BOOLEAN,
           NEW d \in Directories, NEW i \in Items, Follows(i),
           NEW g, g = StoryLinked(d, i)
    PROVE  /\ StoryAdded(d, g, Pointer(g, story.last), Pointer(g, i))
           /\ Pointer(g, i) \in 1 .. Len(g) /\ section \in g[Pointer(g, i)].chaps
<1>1. PICK e : e = AppendTextToDirectory(d, story.last, section, story.start) OBVIOUS
<1>2. PICK f : f = AppendTextToDirectory(e, i, section, FALSE) OBVIOUS
<1>3. g = AddBothWays(f, Pointer(f, story.last), Then, Label(context), Pointer(f, i), context)
  BY <1>1, <1>2 DEF StoryLinked
<1>4. TextAdded(d, e, story.last, section) BY <1>1, AppendText
<1>5. e \in Directories /\ Noted(d, e) /\ Pointer(e, story.last) \in 1 .. Len(e)
  BY <1>4, TextIsNoted DEF TextAdded
<1>6. TextAdded(e, f, i, section) BY <1>2, <1>5, AppendText
<1>7. /\ f \in Directories /\ Noted(e, f) /\ Pointer(f, i) \in 1 .. Len(f)
      /\ section \in f[Pointer(f, i)].chaps
  BY <1>5, <1>6, TextIsNoted DEF TextAdded
<1>8. Noted(d, f) BY <1>5, <1>7, NotedIsTransitive
<1>9. Pointer(f, story.last) \in 1 .. Len(f) BY <1>5, <1>7, NodeStays DEF Noted
<1> DEFINE p == Pointer(f, story.last)
           q == Pointer(f, i)
<1>10. LinksAdded(f, g, p, Then, q)
  <2>1. Label(context) \in SUBSET Tags /\ Then \in Arrows BY LabelIsTags, NoteMemoryAssumption
  <2> QED BY <1>3, <1>7, <1>9, <2>1, AddLinks
<1>11. g \in Directories /\ Grown(f, g) BY <1>10 DEF LinksAdded
<1>12. Pointer(g, story.last) = p BY <1>7, <1>9, <1>11, NodeStays
<1>13. Pointer(g, i) = q /\ Pointer(g, i) \in 1 .. Len(g) /\ section \in g[Pointer(g, i)].chaps
  <2>1. /\ Pointer(g, i) = q /\ Pointer(g, i) \in 1 .. Len(g)
        /\ f[q].chaps \subseteq g[Pointer(g, i)].chaps
    BY <1>7, <1>11, NodeStays
  <2> QED BY <1>7, <2>1
<1>14. Grown(d, g)
  <2>1. d \in Seq(Node) /\ f \in Seq(Node) /\ g \in Seq(Node) BY <1>7, <1>11 DEF Directories
  <2>2. Grown(d, f) BY <1>8 DEF Noted
  <2> QED BY <1>11, <2>1, <2>2, GrownIsTransitive
<1>15. Mutual /\ Mirrored(d) => Mirrored(g) BY <1>8, <1>10 DEF Noted, LinksAdded
<1>16. ASSUME StoriesApart, NEW o \in 1 .. Len(g), NEW t, Joined(g, o, Then, t)
       PROVE  (o \in 1 .. Len(d) /\ Joined(d, o, Then, t)) \/ (o = p /\ t = q)
  <2>1. o \in 1 .. Len(f) /\ Then \in Arrows /\ InverseOf[Then] # Then
    BY <1>10, <1>16, NoteMemoryAssumption DEF LinksAdded, StoriesApart
  <2>2. Joined(f, o, Then, t) \/ (o = p /\ t = q) BY <1>10, <1>16, <2>1 DEF LinksAdded
  <2>3. Joined(f, o, Then, t) => o \in 1 .. Len(d) /\ Joined(d, o, Then, t)
    BY <1>8, <1>16, <2>1 DEF Noted, SameStories
  <2> QED BY <2>2, <2>3
<1> QED BY <1>11, <1>12, <1>13, <1>14, <1>15, <1>16 DEF StoryAdded

-----------------------------------------------------------------------------
(* The invariant. *)

TypeOK ==
    /\ line \in Line /\ prev \in Seq(Items) /\ labelled \in [Aliases -> Seq(Items)]
    /\ section \in Chapters /\ context \in SUBSET Fragments /\ story \in Story
    /\ dir \in Directories /\ pages \in Seq(Page)

LineOK ==
    /\ line.state = "relation" => line.relns # <<>>
    /\ Len(line.refs) <= Len(line.items)
    /\ Replayed(dir, line.refs, line.path)

PagesOK ==
    \A n \in 1 .. Len(pages) :
        pages[n].refs # <<>> /\ Replayed(dir, pages[n].refs, pages[n].path)

(* p is the node of an item of a page of the chapter. *)
OnPage(p, chap) ==
    \E n \in 1 .. Len(pages) : pages[n].chap = chap /\ Holds(pages[n].refs, p)

(* The last item of the story is on the current line or on a page. *)
StoryOK ==
    /\ section = NoSection => story.last = NoItem
    /\ story.last # NoItem =>
           /\ Pointer(dir, story.last) \in 1 .. Len(dir)
           /\ \/ Holds(line.refs, Pointer(dir, story.last))
              \/ OnPage(Pointer(dir, story.last), section)

StoryLinksOK ==
    StoriesApart =>
        \A p \in 1 .. Len(dir) : \A q :
            Joined(dir, p, Then, q) => \E chap \in dir[q].chaps : OnPage(p, chap)

MirrorOK == Mutual /\ status # "done" => Mirrored(dir)

Inv == TypeOK /\ LineOK /\ PagesOK /\ StoryOK /\ StoryLinksOK /\ MirrorOK

LEMMA InitInv == Init => Inv
<1> SUFFICES ASSUME Init PROVE Inv OBVIOUS
<1>1. dir \in Directories /\ Len(dir) = 0 /\ 1 .. Len(dir) = {}
  BY DEF Init, Directories, Tidy
<1>2. BlankLine \in Line /\ NoStory \in Story
  BY DEF BlankLine, NoStory, Line, Story, States
<1>3. TypeOK BY <1>1, <1>2 DEF Init, TypeOK, Chapters
<1>4. line.refs = <<>> /\ line.path = <<>> /\ line.items = <<>> /\ line.state = "blank"
  BY DEF Init, BlankLine
<1>5. Replayed(dir, <<>>, <<>>)
  <2>1. Len(<<>>) = 0 /\ <<>> \in Seq(1 .. Len(dir)) /\ <<>> \in Seq(Step) OBVIOUS
  <2>2. 2 .. 0 = {} OBVIOUS
  <2> QED BY <2>1, <2>2 DEF Replayed
<1>6. LineOK BY <1>4, <1>5 DEF LineOK
<1>7. pages = <<>> /\ story.last = NoItem BY DEF Init, NoStory
<1>8. PagesOK /\ StoryOK BY <1>7 DEF PagesOK, StoryOK
<1>9. StoryLinksOK /\ MirrorOK BY <1>1 DEF StoryLinksOK, MirrorOK, Mirrored
<1> QED BY <1>3, <1>6, <1>8, <1>9 DEF Inv

(* A step that writes no item: the line keeps its refs and its path. *)
LEMMA QuietStep ==
    ASSUME Inv, TypeOK', dir' = dir, pages' = pages, status # "done",
           line'.refs = line.refs, line'.path = line.path, Len(line'.items) >= Len(line.items),
           line'.state = "relation" => line'.relns # <<>>,
           section' = section \/ section = NoSection,
           story'.last \in {story.last, NoItem}
    PROVE  Inv'
<1>1. LineOK'
  <2>1. Len(line'.refs) <= Len(line'.items)
    BY DEF Inv, TypeOK, Line, LineOK
  <2>2. Replayed(dir', line'.refs, line'.path) BY DEF Inv, LineOK
  <2> QED BY <2>1, <2>2 DEF LineOK
<1>2. PagesOK' BY DEF Inv, PagesOK
<1>3. StoryOK'
  <2>1. section' = NoSection => story'.last = NoItem BY DEF Inv, StoryOK
  <2>2. CASE story'.last = NoItem BY <2>1, <2>2 DEF StoryOK
  <2>3. CASE story'.last # NoItem
    <3>1. story'.last = story.last /\ section' = section BY <2>3 DEF Inv, StoryOK
    <3>2. /\ Pointer(dir, story.last) \in 1 .. Len(dir)
          /\ \/ Holds(line.refs, Pointer(dir, story.last))
             \/ OnPage(Pointer(dir, story.last), section)
      BY <2>3, <3>1 DEF Inv, StoryOK
    <3> QED BY <2>1, <3>1, <3>2 DEF StoryOK, OnPage
  <2> QED BY <2>2, <2>3
<1>4. StoryLinksOK' BY DEF Inv, StoryLinksOK, OnPage
<1>5. MirrorOK' BY DEF Inv, MirrorOK
<1> QED BY <1>1, <1>2, <1>3, <1>4, <1>5 DEF Inv

LEMMA LeaveStep ==
    ASSUME Inv, NEW how, Leave(how), status # "done"
    PROVE  Inv'
<1>1. TypeOK' BY DEF Inv, TypeOK, Leave
<1>2. line.state = "relation" => line.relns # <<>> BY DEF Inv, LineOK
<1>3. Len(line.items) >= Len(line.items) BY DEF Inv, TypeOK, Line
<1> QED BY <1>1, <1>2, <1>3, QuietStep DEF Leave

(* The line with another state keeps its fields. *)
LEMMA LineFields ==
    ASSUME line \in Line, NEW s \in States
    PROVE  LET new == [line EXCEPT !.state = s]
           IN /\ new \in Line /\ new.state = s /\ new.items = line.items
              /\ new.relns = line.relns /\ new.refs = line.refs /\ new.path = line.path
BY DEF Line

LEMMA ContextTypes ==
    ASSUME context \in SUBSET Fragments, NEW x \in SUBSET Fragments, NEW op \in {"=", "+", "-"}
    PROVE  ContextAfter(op, x) \in SUBSET Fragments
BY DEF ContextAfter

LEMMA NewFileStep == Inv /\ NewFile => Inv'
<1> SUFFICES ASSUME Inv, NewFile PROVE Inv' OBVIOUS
<1>1. /\ line' = BlankLine /\ story'.last = NoItem /\ dir' = dir /\ pages' = pages
      /\ story' \in Story /\ status # "done"
  BY DEF NewFile, NoStory, Story, Inv, TypeOK
<1>2. BlankLine \in Line /\ BlankLine.refs = <<>> /\ BlankLine.path = <<>>
        /\ BlankLine.items = <<>> /\ BlankLine.state = "blank"
  BY DEF BlankLine, Line, States
<1>3. TypeOK' BY <1>1, <1>2, NotesAssumption DEF Inv, TypeOK, NewFile, Chapters
<1>4. Replayed(dir, <<>>, <<>>)
  <2>1. Len(<<>>) = 0 /\ <<>> \in Seq(1 .. Len(dir)) /\ <<>> \in Seq(Step) OBVIOUS
  <2>2. 2 .. 0 = {} OBVIOUS
  <2> QED BY <2>1, <2>2 DEF Replayed
<1>5. LineOK' BY <1>1, <1>2, <1>4 DEF LineOK
<1>6. PagesOK' BY <1>1 DEF Inv, PagesOK
<1>7. StoryOK' BY <1>1 DEF StoryOK
<1>8. StoryLinksOK' BY <1>1 DEF Inv, StoryLinksOK, OnPage
<1>9. MirrorOK' BY <1>1 DEF Inv, MirrorOK
<1> QED BY <1>3, <1>5, <1>6, <1>7, <1>8, <1>9 DEF Inv

LEMMA SectionStep == ASSUME Inv, NEW s \in Sections, Section(s) PROVE Inv'
<1>1. line \in Line /\ line' = [line EXCEPT !.state = "section"] /\ status # "done"
  BY DEF Inv, TypeOK, Section, Token
<1>2. "section" \in States BY DEF States
<1>3. /\ line' \in Line /\ line'.items = line.items /\ line'.refs = line.refs
      /\ line'.path = line.path /\ line'.state = "section"
  BY <1>1, <1>2, LineFields
<1>4. story' \in Story /\ story'.last = story.last BY DEF Inv, TypeOK, Section, Story
<1>5. TypeOK' BY <1>3, <1>4 DEF Inv, TypeOK, Section, Chapters
<1>6. Len(line'.items) >= Len(line.items) BY <1>1, <1>3 DEF Line
<1>7. section = NoSection /\ dir' = dir /\ pages' = pages BY DEF Section
<1> QED BY <1>1, <1>3, <1>4, <1>5, <1>6, <1>7, QuietStep

LEMMA ContextStep ==
    ASSUME Inv, NEW op \in {"=", "+", "-"}, NEW x \in Expressions, Context(op, x)
    PROVE  Inv'
<1>0. status # "done" BY DEF Context, Token
<1>1. CASE section = NoSection BY <1>0, <1>1, LeaveStep DEF Context
<1>2. CASE section # NoSection
  <2>1. line \in Line /\ line' = [line EXCEPT !.state = op] BY <1>2 DEF Inv, TypeOK, Context
  <2>2. op \in States BY DEF States
  <2>3. /\ line' \in Line /\ line'.items = line.items /\ line'.refs = line.refs
        /\ line'.path = line.path /\ line'.state # "relation"
    BY <2>1, <2>2, LineFields
  <2>4. story' \in Story /\ story'.last \in {story.last, NoItem}
    <3>1. story \in Story /\ story' = StoryAfter(op, x) BY <1>2 DEF Inv, TypeOK, Context
    <3>2. CASE SequenceTag \notin x BY <3>1, <3>2 DEF StoryAfter
    <3>3. CASE SequenceTag \in x /\ op = "-" BY <3>1, <3>3 DEF StoryAfter, Story
    <3>4. CASE SequenceTag \in x /\ op # "-" BY <3>1, <3>4 DEF StoryAfter, Story
    <3> QED BY <3>2, <3>3, <3>4
  <2>5. context' \in SUBSET Fragments
    <3>1. x \in SUBSET Fragments BY NotesAssumption
    <3>2. context \in SUBSET Fragments /\ context' = ContextAfter(op, x)
      BY <1>2 DEF Inv, TypeOK, Context
    <3> QED BY <3>1, <3>2, ContextTypes
  <2>6. TypeOK' BY <1>2, <2>3, <2>4, <2>5 DEF Inv, TypeOK, Context
  <2>7. Len(line'.items) >= Len(line.items) BY <2>1, <2>3 DEF Line
  <2>8. section' = section /\ dir' = dir /\ pages' = pages BY <1>2 DEF Context
  <2> QED BY <1>0, <2>3, <2>4, <2>6, <2>7, <2>8, QuietStep
<1> QED BY <1>1, <1>2

LEMMA PlusTextStep == Inv /\ PlusText => Inv'
<1> SUFFICES ASSUME Inv, PlusText PROVE Inv' OBVIOUS
<1>1. line \in Line /\ line' = [line EXCEPT !.state = "+"] /\ status # "done"
  BY DEF Inv, TypeOK, PlusText, Token
<1>2. "+" \in States BY DEF States
<1>3. /\ line' \in Line /\ line'.items = line.items /\ line'.refs = line.refs
      /\ line'.path = line.path /\ line'.state = "+"
  BY <1>1, <1>2, LineFields
<1>4. TypeOK' BY <1>3 DEF Inv, TypeOK, PlusText
<1>5. Len(line'.items) >= Len(line.items) BY <1>1, <1>3 DEF Line
<1>6. section' = section /\ story' = story /\ dir' = dir /\ pages' = pages BY DEF PlusText
<1> QED BY <1>1, <1>3, <1>4, <1>5, <1>6, QuietStep

LEMMA LineLabelStep == ASSUME Inv, NEW a \in Aliases, LineLabel(a) PROVE Inv'
<1>1. line \in Line /\ line' = [line EXCEPT !.state = "alias", !.alias = a] /\ status # "done"
  BY DEF Inv, TypeOK, LineLabel, Token
<1>2. /\ line' \in Line /\ line'.items = line.items /\ line'.refs = line.refs
      /\ line'.path = line.path /\ line'.state = "alias"
  BY <1>1 DEF Line, States
<1>3. TypeOK' BY <1>2 DEF Inv, TypeOK, LineLabel
<1>4. Len(line'.items) >= Len(line.items) BY <1>1, <1>2 DEF Line
<1>5. section' = section /\ story' = story /\ dir' = dir /\ pages' = pages BY DEF LineLabel
<1> QED BY <1>1, <1>2, <1>3, <1>4, <1>5, QuietStep

LEMMA RelationStep ==
    ASSUME Inv, NEW arrow \in Written, NEW extra \in {{}} \cup Expressions, Relation(arrow, extra)
    PROVE  Inv'
<1>0. status # "done" BY DEF Relation, Token
<1>1. CASE line.state = "relation" \/ arrow \notin Arrows
  BY <1>0, <1>1, LeaveStep DEF Relation
<1>2. CASE ~ (line.state = "relation" \/ arrow \notin Arrows)
  <2> DEFINE r == [arr |-> arrow, ctx |-> Label(context \cup extra)]
  <2>1. line \in Line /\ line' = [line EXCEPT !.state = "relation", !.relns = Append(@, r)]
    BY <1>2 DEF Inv, TypeOK, Relation
  <2>2. r \in Reln
    <3>1. context \cup extra \in SUBSET Fragments BY NotesAssumption DEF Inv, TypeOK
    <3>2. Label(context \cup extra) \in SUBSET Tags BY <3>1, LabelIsTags
    <3> QED BY <1>2, <3>2 DEF Reln
  <2> HIDE DEF r
  <2>3. Append(line.relns, r) \in Seq(Reln) /\ Append(line.relns, r) # <<>>
    BY <2>1, <2>2 DEF Line
  <2>4. /\ line' \in Line /\ line'.items = line.items /\ line'.refs = line.refs
        /\ line'.path = line.path /\ line'.relns # <<>>
    BY <2>1, <2>3 DEF Line, States
  <2>5. TypeOK' BY <1>2, <2>4 DEF Inv, TypeOK, Relation
  <2>6. Len(line'.items) >= Len(line.items) BY <2>1, <2>4 DEF Line
  <2>7. section' = section /\ story' = story /\ dir' = dir /\ pages' = pages
    BY <1>2 DEF Relation
  <2> QED BY <1>0, <2>4, <2>5, <2>6, <2>7, QuietStep
<1> QED BY <1>1, <1>2

-----------------------------------------------------------------------------
(* Steps that write an item. *)

LEMMA PagesStay ==
    ASSUME Inv, dir' \in Directories, Grown(dir, dir'), pages' = pages
    PROVE  PagesOK'
<1> SUFFICES ASSUME NEW n \in 1 .. Len(pages)
             PROVE  pages[n].refs # <<>> /\ Replayed(dir', pages[n].refs, pages[n].path)
  BY DEF PagesOK
<1>1. pages[n].refs # <<>> /\ Replayed(dir, pages[n].refs, pages[n].path)
  BY DEF Inv, PagesOK
<1>2. dir \in Directories BY DEF Inv, TypeOK
<1> QED BY <1>1, <1>2, ReplayedStays

LEMMA StoryLinksStay ==
    ASSUME Inv, dir' \in Directories, Grown(dir, dir'), StoriesApart => SameStories(dir, dir'),
           \A p, chap : OnPage(p, chap) => OnPage(p, chap)'
    PROVE  StoryLinksOK'
<1> SUFFICES ASSUME StoriesApart, NEW p \in 1 .. Len(dir'), NEW q, Joined(dir', p, Then, q)
             PROVE  \E chap \in dir'[q].chaps : OnPage(p, chap)'
  BY DEF StoryLinksOK
<1>1. dir \in Directories /\ Then \in Arrows /\ Then # Empty
  BY NoteMemoryAssumption DEF Inv, TypeOK, StoriesApart
<1>2. p \in 1 .. Len(dir) /\ Joined(dir, p, Then, q) BY DEF SameStories
<1>3. PICK chap \in dir[q].chaps : OnPage(p, chap) BY <1>2 DEF Inv, StoryLinksOK
<1>4. q \in 0 .. Len(dir) /\ q # Nowhere BY <1>1, <1>2 DEF Directories, Tidy, Joined
<1>5. q \in 1 .. Len(dir) BY <1>4 DEF Nowhere
<1>6. chap \in dir'[q].chaps BY <1>3, <1>5 DEF Grown, Kept
<1> QED BY <1>3, <1>6

(* The last item of the story stays on its line or page. *)
LEMMA StoryStays ==
    ASSUME Inv, dir' \in Directories, Grown(dir, dir'), story'.last = story.last,
           section' = section, pages' = pages,
           \A p : Holds(line.refs, p) => Holds(line'.refs, p)
    PROVE  StoryOK'
<1>1. section' = NoSection => story'.last = NoItem BY DEF Inv, StoryOK
<1>2. CASE story.last = NoItem BY <1>1, <1>2 DEF StoryOK
<1>3. CASE story.last # NoItem
  <2>1. /\ Pointer(dir, story.last) \in 1 .. Len(dir)
        /\ \/ Holds(line.refs, Pointer(dir, story.last))
           \/ OnPage(Pointer(dir, story.last), section)
    BY <1>3 DEF Inv, StoryOK
  <2>2. dir \in Directories BY DEF Inv, TypeOK
  <2>3. Pointer(dir', story.last) = Pointer(dir, story.last)
          /\ Pointer(dir', story.last) \in 1 .. Len(dir')
    BY <2>1, <2>2, NodeStays
  <2>4. \/ Holds(line'.refs, Pointer(dir, story.last))
        \/ OnPage(Pointer(dir, story.last), section)
    BY <2>1
  <2> QED BY <1>1, <2>3, <2>4 DEF StoryOK, OnPage
<1> QED BY <1>2, <1>3

LEMMA StoredTypes ==
    ASSUME labelled \in [Aliases -> Seq(Items)], line \in Line, NEW i \in Items, NEW stored
    PROVE  StoreAlias(i, stored) \in [Aliases -> Seq(Items)]
<1>1. CASE stored /\ line.alias # NoAlias
  <2>1. line.alias \in Aliases BY <1>1 DEF Line
  <2>2. Append(labelled[line.alias], i) \in Seq(Items) BY <2>1
  <2> QED BY <1>1, <2>1, <2>2 DEF StoreAlias
<1>2. CASE ~ (stored /\ line.alias # NoAlias) BY <1>2 DEF StoreAlias
<1> QED BY <1>1, <1>2

LEMMA LineWithTypes ==
    ASSUME line \in Line, NEW i \in Items, NEW s \in States, NEW refs \in Seq(Nat),
           NEW path \in Seq(Step), NEW new, new = LineWith(i, s, refs, path)
    PROVE  /\ new \in Line /\ new.state = s /\ new.refs = refs /\ new.path = path
           /\ Len(new.items) = Len(line.items) + 1
<1>1. line.items \in Seq(Items) BY DEF Line
<1>2. Append(line.items, i) \in Seq(Items) /\ Len(Append(line.items, i)) = Len(line.items) + 1
  BY <1>1
<1> QED BY <1>2 DEF LineWith, Line

LEMMA AppendHolds ==
    ASSUME NEW S, NEW q \in Seq(S), NEW p \in S
    PROVE  /\ Holds(Append(q, p), p)
           /\ \A x : Holds(q, x) => Holds(Append(q, p), x)
<1>1. /\ Len(Append(q, p)) = Len(q) + 1 /\ Append(q, p)[Len(q) + 1] = p
      /\ \A k \in 1 .. Len(q) : Append(q, p)[k] = q[k]
  OBVIOUS
<1>2. Len(q) + 1 \in 1 .. Len(Append(q, p)) /\ \A k \in 1 .. Len(q) : k \in 1 .. Len(Append(q, p))
  BY <1>1
<1> QED BY <1>1, <1>2 DEF Holds

LEMMA LinkedItemStep ==
    ASSUME Inv, status # "done", NEW i \in Items, NEW s \in {"event", "lookup"}, NEW stored,
           LinkedItem(i, s, stored)
    PROVE  Inv' /\ Grown(dir, dir') /\ pages' = pages
<1> DEFINE n == Len(line.items)
           d == HandleNode(dir, i, section, context)
           p == Pointer(d, i)
           r == Last(line.relns)
<1>1. /\ line \in Line /\ dir \in Directories /\ section \in Chapters
      /\ context \in SUBSET Fragments /\ line.state = "relation" /\ line.relns # <<>>
      /\ Len(line.refs) <= Len(line.items) /\ Replayed(dir, line.refs, line.path)
  BY DEF Inv, TypeOK, LineOK, LinkedItem
<1>2. line.items \in Seq(Items) /\ line.refs \in Seq(Nat) /\ line.relns \in Seq(Reln)
  BY <1>1 DEF Line
<1>3. Grown(dir, dir) BY <1>1, GrownIsReflexive DEF Directories
<1>4. ASSUME NEW how, Leave(how) PROVE Inv' /\ Grown(dir, dir') /\ pages' = pages
  BY <1>3, <1>4, LeaveStep DEF Leave
<1>5. CASE n = 0 BY <1>2, <1>4, <1>5 DEF LinkedItem
<1>6. CASE n > Len(line.refs) BY <1>2, <1>4, <1>6 DEF LinkedItem
<1>7. CASE n \in DOMAIN line.refs /\ line.items[n] = i BY <1>2, <1>4, <1>7 DEF LinkedItem
<1>8. CASE ~ (n = 0) /\ ~ (n > Len(line.refs)) /\ ~ (n \in DOMAIN line.refs /\ line.items[n] = i)
  <2>1. /\ dir' = AddBothWays(d, line.refs[n], r.arr, r.ctx, p, context)
        /\ line' = LineWith(i, s, Append(line.refs, p),
                            Append(Begun(line.path, p), [arr |-> r.arr, dst |-> p]))
        /\ labelled' = StoreAlias(i, stored)
        /\ UNCHANGED <<status, prev, section, context, story, pages>>
    BY <1>8 DEF LinkedItem
  <2>2. Noted(dir, d) /\ p \in 1 .. Len(d) BY <1>1, HandleNodeNotes
  <2>3. d \in Directories /\ Grown(dir, d) BY <2>2 DEF Noted
  <2>4. r \in Reln
    <3>1. Len(line.relns) \in 1 .. Len(line.relns) BY <1>1, <1>2
    <3> QED BY <1>2, <3>1 DEF Last
  <2>5. /\ r.arr \in Arrows /\ r.ctx \in SUBSET Tags
        /\ StoriesApart => r.arr # Then /\ InverseOf[r.arr] # Then
    <3>1. r.arr \in Written \cap Arrows /\ r.ctx \in SUBSET Tags BY <2>4 DEF Reln
    <3>2. r.arr \in Named BY <3>1 DEF Named
    <3> QED BY <3>1, <3>2 DEF StoriesApart
  <2>6. n = Len(line.refs) /\ line.refs # <<>> BY <1>1, <1>2, <1>8
  <2> HIDE DEF d, p, r, n
  <2>7. Replayed(d, line.refs, line.path) BY <1>1, <2>3, ReplayedStays
  <2>8. line.refs[n] \in 1 .. Len(d)
    <3>1. line.refs \in Seq(1 .. Len(d)) BY <2>7 DEF Replayed
    <3>2. n \in 1 .. Len(line.refs) BY <1>2, <2>6
    <3> QED BY <3>1, <3>2
  <2>9. LinksAdded(d, dir', line.refs[n], r.arr, p)
    BY <1>1, <2>1, <2>2, <2>3, <2>5, <2>8, AddLinks
  <2>10. dir' \in Directories /\ Grown(d, dir') /\ Len(dir') = Len(d) BY <2>9 DEF LinksAdded
  <2>11. Joined(dir', line.refs[n], r.arr, p) BY <2>5, <2>8, <2>9 DEF LinksAdded
  <2>12. Grown(dir, dir')
    <3>1. dir \in Seq(Node) /\ d \in Seq(Node) /\ dir' \in Seq(Node)
      BY <1>1, <2>3, <2>10 DEF Directories
    <3> QED BY <2>3, <2>10, <3>1, GrownIsTransitive
  <2>13. Noted(dir, dir')
    <3>1. Noted(d, dir') BY <2>3, <2>5, <2>9, LinksAreNoted
    <3> QED BY <1>1, <2>2, <3>1, NotedIsTransitive
  <2>14. p \in 1 .. Len(dir') /\ p \in Nat BY <2>2, <2>3, <2>10 DEF Directories
  <2> DEFINE step == [arr |-> r.arr, dst |-> p]
             refs == Append(line.refs, p)
             path == Append(Begun(line.path, p), step)
  <2>15. Replayed(dir', refs, path)
    <3>1. Replayed(dir', line.refs, line.path) BY <1>1, <2>10, <2>12, ReplayedStays
    <3>2. Joined(dir', line.refs[Len(line.refs)], r.arr, p) BY <2>6, <2>11
    <3> QED BY <2>5, <2>6, <2>10, <2>14, <3>1, <3>2, ReplayedWithLink
  <2>16. /\ line' \in Line /\ line'.state = s /\ line'.refs = refs /\ line'.path = path
         /\ Len(line'.items) = Len(line.items) + 1
    <3>1. refs \in Seq(Nat) BY <1>2, <2>14
    <3>2. path \in Seq(Step) BY <2>15 DEF Replayed
    <3>3. s \in States BY DEF States
    <3>4. line' = LineWith(i, s, refs, path) BY <2>1
    <3> HIDE DEF refs, path
    <3> QED BY <1>1, <3>1, <3>2, <3>3, <3>4, LineWithTypes
  <2>17. TypeOK'
    <3>1. labelled' \in [Aliases -> Seq(Items)] BY <1>1, <2>1, StoredTypes DEF Inv, TypeOK
    <3> QED BY <2>1, <2>10, <2>16, <3>1 DEF Inv, TypeOK
  <2>18. LineOK'
    <3>1. Len(refs) = Len(line.refs) + 1 BY <1>2, <2>14
    <3>2. Len(line'.refs) <= Len(line'.items) BY <1>1, <1>2, <2>16, <3>1
    <3>3. line'.state # "relation" BY <2>16
    <3> QED BY <2>15, <2>16, <3>2, <3>3 DEF LineOK
  <2>19. \A q : Holds(line.refs, q) => Holds(line'.refs, q)
    <3>1. \A q : Holds(line.refs, q) => Holds(Append(line.refs, p), q)
      BY <1>2, <2>14, AppendHolds
    <3> QED BY <2>16, <3>1
  <2>20. PagesOK' BY <2>1, <2>10, <2>12, PagesStay
  <2>21. StoryOK' BY <2>1, <2>10, <2>12, <2>19, StoryStays
  <2>22. StoryLinksOK'
    <3>1. \A o, chap : OnPage(o, chap) => OnPage(o, chap)' BY <2>1 DEF OnPage
    <3> QED BY <2>10, <2>12, <2>13, <3>1, StoryLinksStay DEF Noted
  <2>23. MirrorOK' BY <2>1, <2>13 DEF Inv, MirrorOK, Noted
  <2> QED BY <2>1, <2>12, <2>17, <2>18, <2>20, <2>21, <2>22, <2>23 DEF Inv
<1> QED BY <1>5, <1>6, <1>7, <1>8

LEMMA ContextItemStep ==
    ASSUME Inv, status # "done", NEW i \in Items, NEW s \in {"event", "lookup"}, NEW stored,
           ContextItem(i, s, stored)
    PROVE  Inv' /\ Grown(dir, dir') /\ pages' = pages
<1>0. /\ line \in Line /\ dir \in Directories /\ context \in SUBSET Fragments
      /\ Replayed(dir, line.refs, line.path) /\ labelled \in [Aliases -> Seq(Items)]
  BY DEF Inv, TypeOK, LineOK
<1>1. Grown(dir, dir) BY <1>0, GrownIsReflexive DEF Directories
<1>2. CASE section = NoSection BY <1>1, <1>2, LeaveStep DEF ContextItem, Leave
<1>3. CASE section # NoSection
  <2>1. /\ context' = ContextAfter(line.state, {i}) /\ line.state \in {"=", "+", "-"}
        /\ line' = LineWith(i, s, line.refs, line.path)
        /\ labelled' = StoreAlias(i, stored)
        /\ UNCHANGED <<status, prev, section, story, dir, pages>>
    BY <1>3 DEF ContextItem
  <2>2. context' \in SUBSET Fragments
    <3>1. {i} \in SUBSET Fragments BY NotesAssumption
    <3> QED BY <1>0, <2>1, <3>1, ContextTypes
  <2>3. /\ line' \in Line /\ line'.state = s /\ line'.refs = line.refs /\ line'.path = line.path
        /\ Len(line'.items) = Len(line.items) + 1
    <3>1. line.refs \in Seq(Nat) /\ line.path \in Seq(Step) /\ s \in States
      BY <1>0 DEF Line, States
    <3> QED BY <1>0, <2>1, <3>1, LineWithTypes
  <2>4. labelled' \in [Aliases -> Seq(Items)] BY <1>0, <2>1, StoredTypes
  <2>5. TypeOK' BY <2>1, <2>2, <2>3, <2>4 DEF Inv, TypeOK
  <2>6. Len(line'.items) >= Len(line.items) BY <1>0, <2>3 DEF Line
  <2>7. line'.state # "relation" BY <2>3
  <2>8. dir' = dir /\ pages' = pages /\ section' = section /\ story' = story BY <2>1
  <2> QED BY <1>1, <2>3, <2>5, <2>6, <2>7, <2>8, QuietStep
<1> QED BY <1>2, <1>3

LEMMA PlainItemStep ==
    ASSUME Inv, status # "done", NEW i \in Items, NEW s \in {"event", "lookup"}, NEW stored,
           PlainItem(i, s, stored)
    PROVE  Inv' /\ Grown(dir, dir') /\ pages' = pages
<1> DEFINE d == HandleNode(dir, i, section, context)
           p == Pointer(d, i)
<1>1. /\ line \in Line /\ dir \in Directories /\ section \in Chapters
      /\ context \in SUBSET Fragments /\ labelled \in [Aliases -> Seq(Items)] /\ story \in Story
      /\ Len(line.refs) <= Len(line.items) /\ Replayed(dir, line.refs, line.path)
  BY DEF Inv, TypeOK, LineOK
<1>2. line.items \in Seq(Items) /\ line.refs \in Seq(Nat) BY <1>1 DEF Line
<1>3. Grown(dir, dir) BY <1>1, GrownIsReflexive DEF Directories
<1>4. CASE section = NoSection BY <1>3, <1>4, LeaveStep DEF PlainItem, Leave
<1>5. CASE section # NoSection
  <2>1. /\ dir' = StoryLinked(d, i)
        /\ story' = IF story.mode THEN [story EXCEPT !.last = i, !.start = @ /\ ~ Follows(i)]
                                  ELSE story
        /\ line' = LineWith(i, s, Append(line.refs, p), Begun(line.path, p))
        /\ labelled' = StoreAlias(i, stored)
        /\ UNCHANGED <<status, prev, section, context, pages>>
    BY <1>5 DEF PlainItem
  <2>2. Noted(dir, d) /\ p \in 1 .. Len(d) BY <1>1, HandleNodeNotes
  <2>3. d \in Directories /\ Grown(dir, d) BY <2>2 DEF Noted
  <2> HIDE DEF d
  <2>4. /\ dir' \in Directories /\ Grown(d, dir')
        /\ Mutual /\ Mirrored(d) => Mirrored(dir')
    <3>1. CASE Follows(i)
      <4>1. story.last \in Items /\ story.start \in BOOLEAN BY <1>1, <3>1 DEF Follows, Story
      <4> QED BY <1>1, <2>1, <2>3, <3>1, <4>1, StoryGoesOn DEF StoryAdded
    <3>2. CASE ~ Follows(i)
      <4>1. dir' = d BY <2>1, <3>2 DEF StoryLinked
      <4> QED BY <2>3, <4>1, GrownIsReflexive DEF Directories
    <3> QED BY <3>1, <3>2
  <2>5. p = Pointer(dir', i) /\ p \in 1 .. Len(dir') BY <2>2, <2>3, <2>4, NodeStays
  <2> HIDE DEF p
  <2>6. Grown(dir, dir')
    <3>1. dir \in Seq(Node) /\ d \in Seq(Node) /\ dir' \in Seq(Node)
      BY <1>1, <2>3, <2>4 DEF Directories
    <3> QED BY <2>3, <2>4, <3>1, GrownIsTransitive
  <2>7. p \in Nat BY <2>4, <2>5 DEF Directories
  <2> DEFINE refs == Append(line.refs, p)
             path == Begun(line.path, p)
  <2>8. Replayed(dir', refs, path) /\ path \in Seq(Step)
    <3>1. Replayed(dir', line.refs, line.path) BY <1>1, <2>4, <2>6, ReplayedStays
    <3> QED BY <2>4, <2>5, <3>1, ReplayedWithItem
  <2>9. Len(refs) = Len(line.refs) + 1 /\ refs \in Seq(Nat) BY <1>2, <2>7
  <2>10. Holds(refs, p) /\ \A q : Holds(line.refs, q) => Holds(refs, q)
    BY <1>2, <2>7, AppendHolds
  <2>11. line' = LineWith(i, s, refs, path) BY <2>1
  <2> HIDE DEF refs, path
  <2>12. /\ line' \in Line /\ line'.state = s /\ line'.refs = refs /\ line'.path = path
         /\ Len(line'.items) = Len(line.items) + 1
    <3>1. s \in States BY DEF States
    <3> QED BY <1>1, <2>8, <2>9, <2>11, <3>1, LineWithTypes
  <2>13. story' \in Story /\ story'.last = IF story.mode THEN i ELSE story.last
    <3>1. Follows(i) \in BOOLEAN BY DEF Follows
    <3>2. CASE story.mode BY <1>1, <2>1, <3>1, <3>2 DEF Story
    <3>3. CASE ~ story.mode BY <1>1, <2>1, <3>3
    <3> QED BY <3>2, <3>3
  <2>14. TypeOK'
    <3>1. labelled' \in [Aliases -> Seq(Items)] BY <1>1, <2>1, StoredTypes
    <3> QED BY <2>1, <2>4, <2>12, <2>13, <3>1 DEF Inv, TypeOK
  <2>15. LineOK'
    <3>1. Len(line'.refs) <= Len(line'.items) BY <1>1, <1>2, <2>9, <2>12
    <3>2. line'.state # "relation" BY <2>12
    <3> QED BY <2>8, <2>12, <3>1, <3>2 DEF LineOK
  <2>16. PagesOK' BY <2>1, <2>4, <2>6, PagesStay
  <2>17. StoryOK'
    <3>1. CASE story.mode
      <4>1. story'.last = i /\ section' # NoSection BY <1>5, <2>1, <2>13, <3>1
      <4>2. Holds(line'.refs, Pointer(dir', i)) BY <2>5, <2>10, <2>12
      <4> QED BY <2>5, <4>1, <4>2 DEF StoryOK
    <3>2. CASE ~ story.mode
      <4>1. story'.last = story.last /\ \A q : Holds(line.refs, q) => Holds(line'.refs, q)
        BY <2>10, <2>12, <2>13, <3>2
      <4> QED BY <2>1, <2>4, <2>6, <4>1, StoryStays
    <3> QED BY <3>1, <3>2
  <2>18. StoryLinksOK'
    <3>1. \A o, chap : OnPage(o, chap) => OnPage(o, chap)' BY <2>1 DEF OnPage
    <3>2. CASE ~ Follows(i)
      <4>1. dir' = d BY <2>1, <3>2 DEF StoryLinked
      <4> QED BY <2>2, <2>4, <2>6, <3>1, <4>1, StoryLinksStay DEF Noted
    <3>3. CASE Follows(i)
      <4>1. story.last \in Items /\ story.start \in BOOLEAN BY <1>1, <3>3 DEF Follows, Story
      <4>2. /\ StoryAdded(d, dir', Pointer(dir', story.last), Pointer(dir', i))
            /\ section \in dir'[Pointer(dir', i)].chaps
        BY <1>1, <2>1, <2>3, <3>3, <4>1, StoryGoesOn
      <4>3. OnPage(Pointer(dir', story.last), section)
        <5>1. story.last # NoItem /\ line.items = <<>> BY <3>3 DEF Follows
        <5>2. Len(line.refs) = 0 BY <1>1, <1>2, <5>1
        <5>3. ~ Holds(line.refs, Pointer(dir, story.last)) BY <5>2 DEF Holds
        <5>4. Pointer(dir, story.last) \in 1 .. Len(dir)
                /\ OnPage(Pointer(dir, story.last), section)
          BY <5>1, <5>3 DEF Inv, StoryOK
        <5>5. Pointer(dir', story.last) = Pointer(dir, story.last)
          BY <1>1, <2>4, <2>6, <5>4, NodeStays
        <5> QED BY <5>4, <5>5
      <4> SUFFICES ASSUME StoriesApart, NEW o \in 1 .. Len(dir'), NEW t, Joined(dir', o, Then, t)
                   PROVE  \E chap \in dir'[t].chaps : OnPage(o, chap)'
        BY DEF StoryLinksOK
      <4>4. CASE o = Pointer(dir', story.last) /\ t = Pointer(dir', i)
        BY <3>1, <4>2, <4>3, <4>4
      <4>5. CASE o \in 1 .. Len(d) /\ Joined(d, o, Then, t)
        <5>1. o \in 1 .. Len(dir) /\ Joined(dir, o, Then, t)
          BY <2>2, <4>5 DEF Noted, SameStories
        <5>2. PICK chap \in dir[t].chaps : OnPage(o, chap) BY <5>1 DEF Inv, StoryLinksOK
        <5>3. Then \in Arrows /\ Then # Empty BY NoteMemoryAssumption DEF StoriesApart
        <5>4. t \in 0 .. Len(dir) /\ t # Nowhere BY <1>1, <5>1, <5>3 DEF Directories, Tidy, Joined
        <5>5. t \in 1 .. Len(dir) BY <5>4 DEF Nowhere
        <5>6. chap \in dir'[t].chaps BY <2>6, <5>2, <5>5 DEF Grown, Kept
        <5> QED BY <3>1, <5>2, <5>6
      <4> QED BY <4>2, <4>4, <4>5 DEF StoryAdded
    <3> QED BY <3>2, <3>3
  <2>19. MirrorOK' BY <2>1, <2>2, <2>4 DEF Inv, MirrorOK, Noted
  <2> QED BY <2>1, <2>6, <2>14, <2>15, <2>16, <2>17, <2>18, <2>19 DEF Inv
<1> QED BY <1>4, <1>5

LEMMA WriteStep ==
    ASSUME Inv, status # "done", NEW i \in Items, NEW s \in {"event", "lookup"}, NEW stored,
           Write(i, s, stored)
    PROVE  Inv' /\ Grown(dir, dir') /\ pages' = pages
<1>1. CASE LinkedItem(i, s, stored) BY <1>1, LinkedItemStep
<1>2. CASE ContextItem(i, s, stored) BY <1>2, ContextItemStep
<1>3. CASE PlainItem(i, s, stored) BY <1>3, PlainItemStep
<1> QED BY <1>1, <1>2, <1>3 DEF Write

(* Nothing of the memory changes. *)
LEMMA LeaveKeeps ==
    ASSUME Inv, NEW how, Leave(how), status # "done"
    PROVE  Inv' /\ Grown(dir, dir') /\ pages' = pages
<1>1. dir \in Directories /\ dir' = dir /\ pages' = pages BY DEF Inv, TypeOK, Leave
<1> QED BY <1>1, LeaveStep, GrownIsReflexive DEF Directories

LEMMA ItemStep ==
    ASSUME Inv, NEW i \in Items, Item(i)
    PROVE  Inv' /\ Grown(dir, dir') /\ pages' = pages
<1>1. status # "done" /\ Write(i, "event", TRUE) BY DEF Item, Token
<1> QED BY <1>1, WriteStep

LEMMA DittoStep ==
    ASSUME Inv, Ditto
    PROVE  Inv' /\ Grown(dir, dir') /\ pages' = pages
<1> DEFINE n == Len(line.items) + 1
<1>1. status # "done" BY DEF Ditto, Token
<1>2. CASE n > Len(prev) BY <1>1, <1>2, LeaveKeeps DEF Ditto
<1>3. CASE ~ (n > Len(prev))
  <2>1. prev \in Seq(Items) /\ Len(line.items) \in Nat BY DEF Inv, TypeOK, Line
  <2>2. prev[n] \in Items BY <1>3, <2>1
  <2>3. Write(prev[n], "event", TRUE) BY <1>3 DEF Ditto
  <2> QED BY <1>1, <2>2, <2>3, WriteStep
<1> QED BY <1>2, <1>3

LEMMA ReferenceStep ==
    ASSUME Inv, NEW a \in Aliases \cup {"PREV", "THIS"}, NEW n \in 1 .. 2, Reference(a, n)
    PROVE  Inv' /\ Grown(dir, dir') /\ pages' = pages
<1>1. status # "done" BY DEF Reference, Token
<1>2. CASE n > Len(Labelled(a)) BY <1>1, <1>2, LeaveKeeps DEF Reference
<1>3. CASE ~ (n > Len(Labelled(a)))
  <2>1. Labelled(a) \in Seq(Items) BY DEF Labelled, Inv, TypeOK, Line
  <2>2. Labelled(a)[n] \in Items BY <1>3, <2>1
  <2>3. Write(Labelled(a)[n], "lookup", FALSE) BY <1>3 DEF Reference
  <2> QED BY <1>1, <2>2, <2>3, WriteStep
<1> QED BY <1>2, <1>3

-----------------------------------------------------------------------------
(* Ends of lines and files, and the inferences. *)

(* The row of the line, if it has one, comes after the others. *)
LEMMA PagesGrow ==
    ASSUME Inv
    PROVE  /\ PagesAfter \in Seq(Page) /\ Len(pages) <= Len(PagesAfter)
           /\ \A n \in 1 .. Len(pages) : PagesAfter[n] = pages[n]
           /\ \A n \in 1 .. Len(PagesAfter) :
                  \/ n \in 1 .. Len(pages)
                  \/ /\ line.refs # <<>> /\ PagesAfter[n].refs = line.refs
                     /\ PagesAfter[n].path = line.path
           /\ line.refs # <<>> =>
                  \E n \in 1 .. Len(PagesAfter) :
                      PagesAfter[n].chap = section /\ PagesAfter[n].refs = line.refs
<1>1. /\ pages \in Seq(Page) /\ line \in Line /\ section \in Chapters
      /\ context \in SUBSET Fragments /\ (line.path = <<>> <=> line.refs = <<>>)
  BY DEF Inv, TypeOK, LineOK, Replayed
<1>2. CASE line.path = <<>> BY <1>1, <1>2 DEF PagesAfter
<1>3. CASE line.path # <<>>
  <2> DEFINE g == [chap |-> section, alias |-> line.alias, ctx |-> Label(context),
                   path |-> line.path, refs |-> line.refs]
  <2>1. PagesAfter = Append(pages, g) BY <1>3 DEF PagesAfter
  <2>2. Label(context) \in SUBSET Tags BY <1>1, LabelIsTags
  <2>3. g \in Page BY <1>1, <2>2 DEF Line, Page
  <2>4. g.chap = section /\ g.refs = line.refs /\ g.path = line.path OBVIOUS
  <2> HIDE DEF g
  <2>5. /\ Append(pages, g) \in Seq(Page) /\ Len(Append(pages, g)) = Len(pages) + 1
        /\ Append(pages, g)[Len(pages) + 1] = g
        /\ \A n \in 1 .. Len(pages) : Append(pages, g)[n] = pages[n]
    BY <1>1, <2>3
  <2>6. Len(pages) \in Nat BY <1>1
  <2>7. \A n \in 1 .. Len(PagesAfter) : n \in 1 .. Len(pages) \/ n = Len(pages) + 1
    BY <2>1, <2>5, <2>6
  <2>8. Len(pages) + 1 \in 1 .. Len(PagesAfter) BY <2>1, <2>5, <2>6
  <2> QED BY <1>1, <1>3, <2>1, <2>4, <2>5, <2>6, <2>7, <2>8
<1> QED BY <1>2, <1>3

LEMMA FlushStep ==
    ASSUME Inv, Flush, status # "done", UNCHANGED <<labelled, section, context, story, dir>>
    PROVE  /\ Inv' /\ Len(pages) <= Len(pages')
           /\ \A n \in 1 .. Len(pages) : pages'[n] = pages[n]
<1>1. /\ pages' \in Seq(Page) /\ Len(pages) <= Len(pages')
      /\ \A n \in 1 .. Len(pages) : pages'[n] = pages[n]
      /\ \A n \in 1 .. Len(pages') :
             \/ n \in 1 .. Len(pages)
             \/ line.refs # <<>> /\ pages'[n].refs = line.refs /\ pages'[n].path = line.path
      /\ line.refs # <<>> =>
             \E n \in 1 .. Len(pages') :
                 pages'[n].chap = section /\ pages'[n].refs = line.refs
  BY PagesGrow DEF Flush
<1>2. /\ line' = BlankLine /\ BlankLine \in Line /\ BlankLine.refs = <<>>
      /\ BlankLine.path = <<>> /\ BlankLine.items = <<>> /\ BlankLine.state = "blank"
  BY DEF Flush, BlankLine, Line, States
<1>3. prev' \in Seq(Items) BY DEF Flush, Inv, TypeOK, Line
<1>4. TypeOK' BY <1>1, <1>2, <1>3 DEF Inv, TypeOK
<1>5. Replayed(dir, <<>>, <<>>)
  <2>1. Len(<<>>) = 0 /\ <<>> \in Seq(1 .. Len(dir)) /\ <<>> \in Seq(Step) OBVIOUS
  <2>2. 2 .. 0 = {} OBVIOUS
  <2> QED BY <2>1, <2>2 DEF Replayed
<1>6. LineOK' BY <1>2, <1>5 DEF LineOK
<1>7. PagesOK'
  <2> SUFFICES ASSUME NEW n \in 1 .. Len(pages')
               PROVE  pages'[n].refs # <<>> /\ Replayed(dir, pages'[n].refs, pages'[n].path)
    BY DEF PagesOK
  <2>1. CASE n \in 1 .. Len(pages) BY <1>1, <2>1 DEF Inv, PagesOK
  <2>2. CASE n \notin 1 .. Len(pages) BY <1>1, <2>2 DEF Inv, LineOK
  <2> QED BY <2>1, <2>2
<1>8. \A p, chap : OnPage(p, chap) => OnPage(p, chap)'
  <2> SUFFICES ASSUME NEW p, NEW chap, OnPage(p, chap) PROVE OnPage(p, chap)' OBVIOUS
  <2>1. PICK n \in 1 .. Len(pages) : pages[n].chap = chap /\ Holds(pages[n].refs, p)
    BY DEF OnPage
  <2>2. pages'[n] = pages[n] BY <1>1
  <2>3. n \in 1 .. Len(pages')
    <3>1. Len(pages) \in Nat /\ Len(pages') \in Nat BY <1>1 DEF Inv, TypeOK
    <3> QED BY <1>1, <3>1
  <2> QED BY <2>1, <2>2, <2>3 DEF OnPage
<1>9. \A p : Holds(line.refs, p) => OnPage(p, section)'
  <2> SUFFICES ASSUME NEW p, Holds(line.refs, p) PROVE OnPage(p, section)' OBVIOUS
  <2>1. line.refs # <<>> BY DEF Holds
  <2>2. PICK n \in 1 .. Len(pages') : pages'[n].chap = section /\ pages'[n].refs = line.refs
    BY <1>1, <2>1
  <2> QED BY <2>2 DEF OnPage
<1>10. StoryOK'
  <2>1. section' = NoSection => story'.last = NoItem BY DEF Inv, StoryOK
  <2>2. CASE story.last = NoItem BY <2>1, <2>2 DEF StoryOK
  <2>3. CASE story.last # NoItem
    <3>1. /\ Pointer(dir, story.last) \in 1 .. Len(dir)
          /\ \/ Holds(line.refs, Pointer(dir, story.last))
             \/ OnPage(Pointer(dir, story.last), section)
      BY <2>3 DEF Inv, StoryOK
    <3> DEFINE p == Pointer(dir, story.last)
    <3>2. p' = p OBVIOUS
    <3> HIDE DEF p
    <3>3. OnPage(p, section)' BY <1>8, <1>9, <3>1 DEF p
    <3> QED BY <2>1, <3>1, <3>2, <3>3 DEF StoryOK, p
  <2> QED BY <2>2, <2>3
<1>11. StoryLinksOK' BY <1>8 DEF Inv, StoryLinksOK
<1>12. MirrorOK' BY DEF Inv, MirrorOK
<1> QED BY <1>1, <1>4, <1>6, <1>7, <1>10, <1>11, <1>12 DEF Inv

LEMMA InferStep ==
    ASSUME Inv, Infer
    PROVE  /\ Inv' /\ Grown(dir, dir') /\ pages' = pages
           /\ \A p \in 1 .. Len(dir), x \in Near : Closed(dir', x, dir[p].links[x])
<1>1. /\ dir' = CompleteInferences(dir) /\ status' = "done"
      /\ UNCHANGED <<line, prev, labelled, section, context, story, pages>>
  BY DEF Infer
<1>2. dir \in Directories /\ Replayed(dir, line.refs, line.path)
  BY DEF Inv, TypeOK, LineOK
<1>3. /\ Inferred(dir, dir')
      /\ \A p \in 1 .. Len(dir), x \in Near : Closed(dir', x, dir[p].links[x])
  BY <1>1, <1>2, InferencesInfer
<1>4. dir' \in Directories /\ Grown(dir, dir') /\ (StoriesApart => SameStories(dir, dir'))
  BY <1>3 DEF Inferred
<1>5. TypeOK' BY <1>1, <1>4 DEF Inv, TypeOK
<1>6. Replayed(dir', line.refs, line.path) BY <1>2, <1>4, ReplayedStays
<1>7. LineOK' BY <1>1, <1>6 DEF Inv, LineOK
<1>8. PagesOK' BY <1>1, <1>4, PagesStay
<1>9. StoryOK' BY <1>1, <1>4, StoryStays
<1>10. \A p, chap : OnPage(p, chap) => OnPage(p, chap)' BY <1>1 DEF OnPage
<1>11. StoryLinksOK' BY <1>4, <1>10, StoryLinksStay
<1>12. MirrorOK' BY <1>1 DEF MirrorOK
<1> QED BY <1>1, <1>3, <1>4, <1>5, <1>7, <1>8, <1>9, <1>11, <1>12 DEF Inv

(* What was noted before a step. *)
Remembered ==
    /\ Grown(dir, dir') /\ Len(pages) <= Len(pages')
    /\ \A n \in 1 .. Len(pages) : pages'[n] = pages[n]

LEMMA QuietRemembers ==
    ASSUME Inv, dir' = dir, pages' = pages
    PROVE  Remembered
<1>1. dir \in Seq(Node) /\ pages \in Seq(Page) BY DEF Inv, TypeOK, Directories
<1> QED BY <1>1, GrownIsReflexive DEF Remembered

LEMMA SameRowsRemembered ==
    ASSUME Inv, Grown(dir, dir'), pages' = pages
    PROVE  Remembered
<1>1. pages \in Seq(Page) BY DEF Inv, TypeOK
<1> QED BY <1>1 DEF Remembered

LEMMA FlushRemembers ==
    ASSUME Inv, Flush, status # "done", UNCHANGED <<labelled, section, context, story, dir>>
    PROVE  Inv' /\ Remembered
<1>1. Grown(dir, dir') BY GrownIsReflexive DEF Inv, TypeOK, Directories
<1> QED BY <1>1, FlushStep DEF Remembered

LEMMA EndLineStep ==
    ASSUME Inv, EndLine
    PROVE  Inv' /\ Remembered
<1>1. /\ Flush /\ status # "done" /\ UNCHANGED <<labelled, section, context, story, dir>>
  BY DEF EndLine, Token
<1> QED BY <1>1, FlushRemembers

LEMMA EndFileStep ==
    ASSUME Inv, EndFile
    PROVE  Inv' /\ Remembered
<1>1. status # "done" /\ UNCHANGED <<labelled, section, context, story, dir>>
  BY DEF EndFile
<1>2. CASE Flush BY <1>1, <1>2, FlushRemembers
<1>3. CASE UNCHANGED <<line, prev, pages>>
  <2>1. TypeOK' BY <1>1, <1>3 DEF Inv, TypeOK
  <2>2. line.state = "relation" => line.relns # <<>> BY DEF Inv, LineOK
  <2>3. Len(line.items) >= Len(line.items) BY DEF Inv, TypeOK, Line
  <2>4. Inv' BY <1>1, <1>3, <2>1, <2>2, <2>3, QuietStep
  <2> QED BY <1>1, <1>3, <2>4, QuietRemembers
<1> QED BY <1>2, <1>3 DEF EndFile

LEMMA ContextSame ==
    ASSUME NEW op, NEW x, Context(op, x)
    PROVE  dir' = dir /\ pages' = pages
BY DEF Context, Leave

LEMMA RelationSame ==
    ASSUME NEW arrow, NEW extra, Relation(arrow, extra)
    PROVE  dir' = dir /\ pages' = pages
BY DEF Relation, Leave

(* Every step keeps the invariant and what was noted. *)
LEMMA NextStep == Inv /\ [Next]_vars => Inv' /\ Remembered
<1> SUFFICES ASSUME Inv, [Next]_vars PROVE Inv' /\ Remembered OBVIOUS
<1>1. CASE NewFile BY <1>1, NewFileStep, QuietRemembers DEF NewFile
<1>2. ASSUME NEW s \in Sections, Section(s) PROVE Inv' /\ Remembered
  BY <1>2, SectionStep, QuietRemembers DEF Section
<1>3. ASSUME NEW op \in {"=", "+", "-"}, NEW x \in Expressions, Context(op, x)
      PROVE  Inv' /\ Remembered
  <2>1. dir' = dir /\ pages' = pages BY <1>3, ContextSame
  <2> QED BY <1>3, <2>1, ContextStep, QuietRemembers
<1>4. CASE PlusText BY <1>4, PlusTextStep, QuietRemembers DEF PlusText
<1>5. ASSUME NEW a \in Aliases, LineLabel(a) PROVE Inv' /\ Remembered
  BY <1>5, LineLabelStep, QuietRemembers DEF LineLabel
<1>6. ASSUME NEW arrow \in Written, NEW extra \in {{}} \cup Expressions, Relation(arrow, extra)
      PROVE  Inv' /\ Remembered
  <2>1. dir' = dir /\ pages' = pages BY <1>6, RelationSame
  <2> QED BY <1>6, <2>1, RelationStep, QuietRemembers
<1>7. ASSUME NEW i \in Items, Item(i) PROVE Inv' /\ Remembered
  BY <1>7, ItemStep, SameRowsRemembered
<1>8. CASE Ditto BY <1>8, DittoStep, SameRowsRemembered
<1>9. ASSUME NEW a \in Aliases \cup {"PREV", "THIS"}, NEW n \in 1 .. 2, Reference(a, n)
      PROVE  Inv' /\ Remembered
  BY <1>9, ReferenceStep, SameRowsRemembered
<1>10. CASE EndLine BY <1>10, EndLineStep
<1>11. CASE EndFile BY <1>11, EndFileStep
<1>12. CASE Infer BY <1>12, InferStep, SameRowsRemembered
<1>13. CASE UNCHANGED vars
  <2>1. Inv'
    BY <1>13 DEF vars, Inv, TypeOK, LineOK, PagesOK, StoryOK, StoryLinksOK, MirrorOK, OnPage
  <2> QED BY <1>13, <2>1, QuietRemembers DEF vars
<1> QED
  BY <1>1, <1>2, <1>3, <1>4, <1>5, <1>6, <1>7, <1>8, <1>9, <1>10, <1>11, <1>12, <1>13
  DEF Next

-----------------------------------------------------------------------------
(* Theorems. *)

(* Types, lines, pages, stories and inverse links of every reading.        *)
THEOREM NotesInvariant == Spec => []Inv
<1>1. Init => Inv BY InitInv
<1>2. Inv /\ [Next]_vars => Inv' BY NextStep
<1> QED BY <1>1, <1>2, PTL DEF Spec

(* The lists of links as the properties name them. *)
LEMMA LinksByPlace ==
    ASSUME Inv, NEW p \in DOMAIN dir, NEW x \in Arrows
    PROVE  /\ p \in 1 .. Len(dir) /\ dir[p].links[x] \in Seq(Link)
           /\ DOMAIN dir[p].links[x] = 1 .. Len(dir[p].links[x])
           /\ \A q : Leads(p, x, q) <=> Joined(dir, p, x, q)
<1>1. dir \in Seq(Node) BY DEF Inv, TypeOK, Directories
<1>2. p \in 1 .. Len(dir) BY <1>1
<1>3. dir[p].links[x] \in Seq(Link) BY <1>1, <1>2, NodeTypes
<1>4. DOMAIN dir[p].links[x] = 1 .. Len(dir[p].links[x]) BY <1>3
<1> QED BY <1>2, <1>3, <1>4 DEF Leads, Joined, LinksTo

(* However notes mix relations, marks, ditto marks, references and         *)
(* stories, no node has two links by one arrow to one place, and until     *)
(* inferences are drawn every link can be walked back (AddBackAnnotations, *)
(* IdempAddLink, LinkUpStorySequence, MergeLinkLists), for every directory *)
(* of arrows whose inverses name each other.                               *)
THEOREM NotesKeepInverses == ASSUME Mutual PROVE Spec => []InversesHeld
<1>1. Inv => InversesHeld
  <2> SUFFICES ASSUME Inv, NEW p \in DOMAIN dir, NEW x \in Arrows
               PROVE  /\ \A k, j \in DOMAIN dir[p].links[x] :
                             dir[p].links[x][k].dst = dir[p].links[x][j].dst => k = j
                      /\ status # "done" /\ x # Empty =>
                             \A l \in Range(dir[p].links[x]) : Leads(l.dst, InverseOf[x], p)
    BY DEF InversesHeld
  <2>1. /\ p \in 1 .. Len(dir)
        /\ DOMAIN dir[p].links[x] = 1 .. Len(dir[p].links[x])
    BY LinksByPlace
  <2>2. dir \in Directories /\ (status # "done" => Mirrored(dir)) BY DEF Inv, TypeOK, MirrorOK
  <2>3. OneEach(dir[p].links[x]) BY <2>1, <2>2 DEF Directories, Tidy
  <2>4. ASSUME status # "done", x # Empty, NEW l \in Range(dir[p].links[x])
        PROVE  Leads(l.dst, InverseOf[x], p)
    <3>1. PICK k \in 1 .. Len(dir[p].links[x]) : l = dir[p].links[x][k] BY <2>1 DEF Range
    <3>2. Joined(dir, p, x, l.dst) BY <3>1 DEF Joined, LinksTo
    <3>3. Joined(dir, l.dst, InverseOf[x], p) BY <2>1, <2>2, <2>4, <3>2 DEF Mirrored
    <3>4. l.dst \in 0 .. Len(dir) /\ l.dst # Nowhere
      BY <2>1, <2>2, <2>4, <3>2 DEF Directories, Tidy, Joined
    <3>5. l.dst \in DOMAIN dir BY <2>2, <3>4 DEF Nowhere, Directories
    <3>6. InverseOf[x] \in Arrows BY NoteMemoryAssumption
    <3> QED BY <3>3, <3>5, <3>6, LinksByPlace
  <2> QED BY <2>1, <2>3, <2>4 DEF OneEach
<1> QED BY <1>1, NotesInvariant, PTL

(* A page row can be replayed over the nodes of its line, whatever was     *)
(* noted, merged and inferred since it was written (IdempAddNode and       *)
(* IdempAddLink build the path apart from the links).                      *)
THEOREM NotesReplayPages == Spec => []PagesReplayLines
<1>1. Inv => PagesReplayLines
  <2> SUFFICES ASSUME Inv, NEW g \in Range(pages)
               PROVE  /\ g.refs # <<>> /\ g.path[1].dst = g.refs[1]
                      /\ Len(g.path) <= Len(g.refs)
                      /\ Len(g.path) = Len(g.refs) =>
                             \A k \in 2 .. Len(g.path) :
                                 /\ g.path[k].dst = g.refs[k]
                                 /\ Leads(g.refs[k - 1], g.path[k].arr, g.refs[k])
    BY DEF PagesReplayLines
  <2>1. PICK n \in 1 .. Len(pages) : g = pages[n] BY DEF Range, Inv, TypeOK
  <2>2. g.refs # <<>> /\ Replayed(dir, g.refs, g.path) BY <2>1 DEF Inv, PagesOK
  <2>3. /\ g.refs \in Seq(1 .. Len(dir)) /\ g.path \in Seq(Step)
        /\ g.path[1].dst = g.refs[1] /\ Len(g.path) <= Len(g.refs)
    BY <2>2 DEF Replayed
  <2>4. ASSUME Len(g.path) = Len(g.refs), NEW k \in 2 .. Len(g.path)
        PROVE  g.path[k].dst = g.refs[k] /\ Leads(g.refs[k - 1], g.path[k].arr, g.refs[k])
    <3>1. g.path[k].dst = g.refs[k] /\ Joined(dir, g.refs[k - 1], g.path[k].arr, g.refs[k])
      BY <2>2, <2>4 DEF Replayed
    <3>2. k - 1 \in 1 .. Len(g.refs) /\ k \in 1 .. Len(g.path) BY <2>3, <2>4
    <3>3. g.refs[k - 1] \in DOMAIN dir
      <4>1. \A D : g.refs \in Seq(D) => g.refs[k - 1] \in D BY <3>2
      <4>2. g.refs[k - 1] \in 1 .. Len(dir) BY <2>3, <4>1
      <4> QED BY <4>2 DEF Inv, TypeOK, Directories
    <3>4. g.path[k].arr \in Arrows
      <4>1. g.path[k] \in Step BY <2>3, <3>2
      <4> QED BY <4>1 DEF Step
    <3> QED BY <3>1, <3>3, <3>4, LinksByPlace
  <2> QED BY <2>2, <2>3, <2>4
<1> QED BY <1>1, NotesInvariant, PTL

(* Stories stay in their chapter, over any number of files, sections,      *)
(* contexts and stories, and through the inferences (LinkUpStorySequence   *)
(* with SEQUENCE_MODE, SEQUENCE_START and LAST_IN_SEQUENCE).               *)
THEOREM NotesKeepStories == Spec => []StoriesStayInChapter
<1>1. Inv => StoriesStayInChapter
  <2> SUFFICES ASSUME Inv, StoriesApart, NEW p \in DOMAIN dir, NEW q \in DOMAIN dir,
                      Leads(p, Then, q)
               PROVE  \E g \in Range(pages) : p \in Range(g.refs) /\ g.chap \in dir[q].chaps
    BY DEF StoriesStayInChapter
  <2>1. p \in 1 .. Len(dir) /\ Joined(dir, p, Then, q) BY NoteMemoryAssumption, LinksByPlace
  <2>2. PICK chap \in dir[q].chaps : OnPage(p, chap) BY <2>1 DEF Inv, StoryLinksOK
  <2>3. PICK n \in 1 .. Len(pages) : pages[n].chap = chap /\ Holds(pages[n].refs, p)
    BY <2>2 DEF OnPage
  <2>4. pages \in Seq(Page) /\ pages[n] \in Page BY DEF Inv, TypeOK
  <2>5. pages[n] \in Range(pages) BY <2>4 DEF Range
  <2>6. pages[n].refs \in Seq(Nat) BY <2>4 DEF Page
  <2>7. p \in Range(pages[n].refs) BY <2>3, <2>6 DEF Holds, Range
  <2> QED BY <2>2, <2>3, <2>5, <2>7
<1> QED BY <1>1, NotesInvariant, PTL

(* Nothing that was noted is lost: no step of a reading forgets a node, a  *)
(* chapter, a link, a context or a page row, or moves it to another place. *)
THEOREM NotesForgetNothing == Spec => NothingForgotten
<1> DEFINE Act == /\ \A p \in DOMAIN dir : p \in DOMAIN dir' /\ NoteKept(dir[p], dir'[p])
                  /\ IsPrefix(pages, pages')
<1>1. Inv /\ [Next]_vars => [Act]_vars
  <2> SUFFICES ASSUME Inv, Inv', Remembered PROVE Act BY NextStep
  <2>1. dir \in Seq(Node) /\ dir' \in Seq(Node) /\ pages \in Seq(Page) /\ pages' \in Seq(Page)
    BY DEF Inv, TypeOK, Directories
  <2>2. ASSUME NEW p \in DOMAIN dir
        PROVE  p \in DOMAIN dir' /\ NoteKept(dir[p], dir'[p])
    <3>1. p \in 1 .. Len(dir) /\ p \in 1 .. Len(dir') /\ p \in DOMAIN dir'
      BY <2>1, <2>2 DEF Remembered, Grown
    <3>2. Kept(dir[p], dir'[p]) BY <3>1 DEF Remembered, Grown
    <3>3. ASSUME NEW x \in Arrows, NEW k \in DOMAIN dir[p].links[x]
          PROVE  /\ k \in DOMAIN dir'[p].links[x]
                 /\ dir'[p].links[x][k].dst = dir[p].links[x][k].dst
                 /\ dir[p].links[x][k].ctx \subseteq dir'[p].links[x][k].ctx
      <4> DEFINE old == dir[p].links[x]
                 new == dir'[p].links[x]
      <4>1. old \in Seq(Link) /\ new \in Seq(Link) /\ ListKept(old, new)
        BY <2>1, <3>1, <3>2, NodeTypes DEF Kept
      <4>2. k \in DOMAIN old BY <3>3
      <4> HIDE DEF old, new
      <4>3. k \in 1 .. Len(old) /\ k \in DOMAIN new BY <4>1, <4>2 DEF ListKept
      <4>4. new[k].dst = old[k].dst /\ old[k].ctx \subseteq new[k].ctx
        BY <4>1, <4>3 DEF ListKept
      <4> QED BY <4>3, <4>4 DEF old, new
    <3> QED BY <3>1, <3>2, <3>3 DEF Kept, NoteKept
  <2>3. IsPrefix(pages, pages')
    <3> DEFINE n == Len(pages)
    <3>1. n \in Nat /\ n <= Len(pages') BY <2>1 DEF Remembered
    <3>2. SubSeq(pages, 1, n) = [k \in 1 .. n |-> pages[k]]
            /\ SubSeq(pages', 1, n) = [k \in 1 .. n |-> pages'[k]]
      BY <2>1, <3>1
    <3>3. \A k \in 1 .. n : pages'[k] = pages[k] BY DEF Remembered
    <3> QED BY <3>1, <3>2, <3>3 DEF IsPrefix
  <2> QED BY <2>2, <2>3
<1>2. [][Act]_vars => NothingForgotten BY DEF NothingForgotten
<1> QED BY <1>1, <1>2, NotesInvariant, PTL DEF Spec

(* Only the inferences end a reading. *)
LEMMA OnlyInferEnds == ASSUME Next, status' = "done", status # "done" PROVE Infer
<1>1. ASSUME NEW i, NEW s, NEW stored, Write(i, s, stored)
      PROVE  status' = status \/ status' \in {"exit", "panic"}
  BY <1>1 DEF Write, LinkedItem, ContextItem, PlainItem, Leave
<1>2. ASSUME NEW i \in Items, Item(i) PROVE status' = status \/ status' \in {"exit", "panic"}
  BY <1>1, <1>2 DEF Item
<1>3. Ditto => status' = status \/ status' \in {"exit", "panic"} BY <1>1 DEF Ditto, Leave
<1>4. ASSUME NEW a, NEW n, Reference(a, n)
      PROVE  status' = status \/ status' \in {"exit", "panic"}
  BY <1>1, <1>4 DEF Reference, Leave
<1>5. ASSUME NEW op, NEW x, Context(op, x)
      PROVE  status' = status \/ status' \in {"exit", "panic"}
  BY <1>5 DEF Context, Leave
<1>6. ASSUME NEW arrow, NEW extra, Relation(arrow, extra)
      PROVE  status' = status \/ status' \in {"exit", "panic"}
  BY <1>6 DEF Relation, Leave
<1>7. NewFile \/ EndLine \/ EndFile \/ PlusText => status' # "done"
  BY DEF NewFile, EndLine, EndFile, PlusText, Token
<1>8. ASSUME NEW s, Section(s) PROVE status' = status BY <1>8 DEF Section
<1>9. ASSUME NEW a, LineLabel(a) PROVE status' = status BY <1>9 DEF LineLabel
<1> QED BY <1>2, <1>3, <1>4, <1>5, <1>6, <1>7, <1>8, <1>9 DEF Next

(* Similarity is closed at the end of every reading: the two loops of      *)
(* CompleteCloseness link any two neighbours of any node, whatever         *)
(* CompleteNode did before to the nodes that had their turn, and for every *)
(* number of nodes, near arrows and closures.                              *)
THEOREM NotesCloseNearPairs == Spec => NearPairsClosed
<1> DEFINE Act == status' = "done" /\ status # "done" =>
              \A p \in DOMAIN dir, x \in Near :
                  \A k, j \in DOMAIN dir[p].links[x] :
                      k < j => \E l \in Range(dir'[dir[p].links[x][k].dst].links[x]) :
                                   l.dst = dir[p].links[x][j].dst
<1>1. Inv /\ [Next]_vars => [Act]_vars
  <2> SUFFICES ASSUME Inv, Inv', Next, status' = "done", status # "done",
                      NEW p \in DOMAIN dir, NEW x \in Near,
                      NEW k \in DOMAIN dir[p].links[x], NEW j \in DOMAIN dir[p].links[x], k < j
               PROVE  \E l \in Range(dir'[dir[p].links[x][k].dst].links[x]) :
                          l.dst = dir[p].links[x][j].dst
    BY NextStep DEF vars
  <2> DEFINE to == dir[p].links[x][k].dst
             next == dir[p].links[x][j].dst
  <2>1. x \in Arrows \ {Empty} BY NoteMemoryAssumption
  <2>2. /\ p \in 1 .. Len(dir) /\ k \in 1 .. Len(dir[p].links[x])
        /\ j \in 1 .. Len(dir[p].links[x])
    BY <2>1, LinksByPlace
  <2>3. Infer BY OnlyInferEnds
  <2>4. /\ Grown(dir, dir') /\ Closed(dir', x, dir[p].links[x])
    BY <2>2, <2>3, InferStep
  <2>5. Joined(dir', to, x, next) BY <2>2, <2>4 DEF Closed
  <2>6. to \in 1 .. Len(dir')
    <3>1. Joined(dir, p, x, to) BY <2>2 DEF Joined, LinksTo
    <3>2. to \in 0 .. Len(dir) /\ to # Nowhere
      BY <2>1, <2>2, <3>1 DEF Inv, TypeOK, Directories, Tidy, Joined
    <3> QED BY <2>4, <3>2 DEF Nowhere, Grown, Inv, TypeOK, Directories
  <2> HIDE DEF to, next
  <2>7. dir'[to].links[x] \in Seq(Link)
    <3>1. dir' \in Seq(Node) BY DEF Inv, TypeOK, Directories
    <3> QED BY <2>1, <2>6, <3>1, NodeTypes
  <2>8. PICK m \in 1 .. Len(dir'[to].links[x]) : dir'[to].links[x][m].dst = next
    BY <2>5 DEF Joined, LinksTo
  <2>9. dir'[to].links[x][m] \in Range(dir'[to].links[x]) BY <2>7, <2>8 DEF Range
  <2> QED BY <2>8, <2>9 DEF to, next
<1>2. [][Act]_vars => NearPairsClosed BY DEF NearPairsClosed
<1> QED BY <1>1, <1>2, NotesInvariant, PTL DEF Spec
===============================================================================
