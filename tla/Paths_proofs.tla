---------------------------- MODULE Paths_proofs ----------------------------
(***************************************************************************)
(* Searches for every graph, every set of nodes and arrows and every       *)
(* query.  In this order: what is enumerated and what the waves hold are   *)
(* walks; a right path turned around goes on where a left one ends; the    *)
(* solutions of a search have one length, and the nodes they exchange make *)
(* super nodes; a path enumeration finds every trail once; the layers of   *)
(* a cone are its balls; the waves find where they meet first, and where   *)
(* links have inverses these are the shortest walks; the axis of a story   *)
(* follows its arrow; the orbit of a node shows what its walks lead to.    *)
(* That an arrow has one link type (OrbitsAssumption) is what keeps an     *)
(* enumeration from finding a path twice; the theorems before that one,    *)
(* and those about meetings, shortest walks and stories, do without.       *)
(***************************************************************************)
EXTENDS Orbits, Induction

LEMMA SequenceOf ==
    ASSUME NEW S, NEW n \in Nat, NEW f \in [1 .. n -> S]
    PROVE  f \in Seq(S) /\ Len(f) = n
OBVIOUS

LEMMA HoldsIsElement ==
    ASSUME NEW S, NEW s \in Seq(S), NEW x
    PROVE  /\ Holds(s, x) <=> x \in ToSet(s)
           /\ Holds(s, x) => x \in S
BY DEF Holds, ToSet

-----------------------------------------------------------------------------
(* The links a search may follow. *)

LEMMA QueryIs ==
    ASSUME query \in Queries
    PROVE  /\ query \in Query
           /\ query.starts \in Seq(NodePtrs) /\ query.ends \in Seq(NodePtrs)
           /\ query.sttypes \in Seq(STTypes) /\ query.arrows \subseteq Arrows
           /\ query.depth \in Nat \ {0} /\ query.limit \in Nat /\ query.mindepth \in Nat
           /\ query.kind \in Kinds
BY PathsAssumption DEF Query

(* A slot of a node holds links of the graph. *)
LEMMA SlotIs ==
    ASSUME I \in Graphs, NEW n \in NodePtrs, NEW st \in STTypes
    PROVE  I[n][st] \in Seq(Link)
BY GraphsAssumption

Allowed(l, arrows) == arrows = {} \/ l.arr \in arrows

LEMMA LinksOfSlots ==
    ASSUME I \in Graphs, NEW n \in NodePtrs, NEW sts \in Seq(STTypes), NEW arrows
    PROVE  \E ss \in Seq(Seq(Link)) :
               /\ LinksOf(n, sts, arrows) = FlattenSeq(ss) /\ Len(ss) = Len(sts)
               /\ \A k \in 1 .. Len(sts) : ss[k] = Sieve(I[n][sts[k]], {l \in Link : Allowed(l, arrows)})
<1> DEFINE P == {l \in Link : Allowed(l, arrows)}
           ss == [k \in DOMAIN sts |-> Sieve(I[n][sts[k]], P)]
<1>1. DOMAIN sts = 1 .. Len(sts) /\ Len(sts) \in Nat /\ \A k \in 1 .. Len(sts) : sts[k] \in STTypes
  OBVIOUS
<1>2. \A k \in 1 .. Len(sts) : I[n][sts[k]] \in Seq(Link) BY <1>1, SlotIs
<1>3. \A k \in 1 .. Len(sts) :
         /\ Sieve(I[n][sts[k]], P) \in Seq(Link)
         /\ \A x : Holds(Sieve(I[n][sts[k]], P), x) <=> Holds(I[n][sts[k]], x) /\ x \in P
  <2> HIDE DEF P
  <2> QED BY <1>2, SieveElements
<1>4. ASSUME NEW k \in DOMAIN sts
      PROVE  Those(I[n][sts[k]], LAMBDA l : arrows = {} \/ l.arr \in arrows) = Sieve(I[n][sts[k]], P)
  <2>1. PICK s \in Seq(Link) : s = I[n][sts[k]] BY <1>1, <1>2
  <2>2. \A i \in DOMAIN s : s[i] \in Link BY <2>1
  <2>3. \A i \in DOMAIN s : (arrows = {} \/ s[i].arr \in arrows) <=> s[i] \in P
    BY <2>2 DEF Allowed
  <2> HIDE DEF P
  <2>4. [i \in DOMAIN s |-> IF arrows = {} \/ s[i].arr \in arrows THEN <<s[i]>> ELSE <<>>]
          = [i \in DOMAIN s |-> IF s[i] \in P THEN <<s[i]>> ELSE <<>>]
    BY <2>3
  <2> QED BY <2>1, <2>4 DEF Those, Sieve
<1>5. LinksOf(n, sts, arrows) = FlattenSeq(ss)
  <2>1. [k \in DOMAIN sts |-> Those(I[n][sts[k]], LAMBDA l : arrows = {} \/ l.arr \in arrows)] = ss
    <3> HIDE DEF P
    <3> QED BY <1>4
  <2> HIDE DEF ss
  <2> QED BY <2>1 DEF LinksOf
<1>6. ss \in Seq(Seq(Link)) /\ Len(ss) = Len(sts)
  <2>1. ss \in [1 .. Len(sts) -> Seq(Link)]
    <3> HIDE DEF P
    <3> QED BY <1>1, <1>3
  <2> HIDE DEF ss
  <2> QED BY <1>1, <2>1
<1>7. \A k \in 1 .. Len(sts) : ss[k] = Sieve(I[n][sts[k]], P) BY <1>1
<1> HIDE DEF ss
<1> QED BY <1>5, <1>6, <1>7

LEMMA LinksOfElements ==
    ASSUME I \in Graphs, NEW n \in NodePtrs, NEW sts \in Seq(STTypes), NEW arrows
    PROVE  /\ LinksOf(n, sts, arrows) \in Seq(Link)
           /\ \A l : Holds(LinksOf(n, sts, arrows), l) <=>
                  /\ l \in Link /\ Allowed(l, arrows)
                  /\ \E k \in 1 .. Len(sts) : Holds(I[n][sts[k]], l)
<1> DEFINE P == {l \in Link : Allowed(l, arrows)}
<1>1. PICK ss \in Seq(Seq(Link)) :
          /\ LinksOf(n, sts, arrows) = FlattenSeq(ss) /\ Len(ss) = Len(sts)
          /\ \A k \in 1 .. Len(sts) : ss[k] = Sieve(I[n][sts[k]], P)
  BY LinksOfSlots
<1>2. \A k \in 1 .. Len(sts) : I[n][sts[k]] \in Seq(Link) BY SlotIs
<1>3. \A k \in 1 .. Len(sts) : \A x : Holds(ss[k], x) <=> Holds(I[n][sts[k]], x) /\ x \in P
  <2> SUFFICES ASSUME NEW k \in 1 .. Len(sts)
               PROVE  \A x : Holds(ss[k], x) <=> Holds(I[n][sts[k]], x) /\ x \in P
    OBVIOUS
  <2> HIDE DEF P
  <2>1. PICK s \in Seq(Link) : s = I[n][sts[k]] BY <1>2
  <2>2. ss[k] = Sieve(s, P) BY <1>1, <2>1
  <2> QED BY <2>1, <2>2, SieveElements
<1>4. /\ FlattenSeq(ss) \in Seq(Link)
      /\ \A x : Holds(FlattenSeq(ss), x) <=> \E k \in 1 .. Len(ss) : Holds(ss[k], x)
  BY FlattenElements
<1> QED BY <1>1, <1>3, <1>4

(* Where links have their inverses, the search from the other side follows *)
(* the links whose inverses this side follows.                             *)
LEMMA InverseLinks ==
    ASSUME I \in Graphs, Reversible, NEW sts \in Seq(STTypes), NEW arrows \in SUBSET Arrows,
           NEW n \in NodePtrs, NEW l, l # EmptyLink,
           Holds(LinksOf(n, AdjointSTtype(sts), AdjointArrows(arrows)), l)
    PROVE  Holds(LinksOf(l.dst, sts, arrows), [arr |-> INVERSE_ARROWS[l.arr], dst |-> n])
<1> DEFINE adj == AdjointSTtype(sts)
           back == [arr |-> INVERSE_ARROWS[l.arr], dst |-> n]
<1>1. /\ adj \in Seq(STTypes) /\ Len(adj) = Len(sts)
      /\ \A k \in 1 .. Len(sts) : adj[k] = -sts[Len(sts) + 1 - k]
  <2>1. DOMAIN sts = 1 .. Len(sts) /\ Len(sts) \in Nat OBVIOUS
  <2>2. ASSUME NEW k \in 1 .. Len(sts) PROVE -sts[Len(sts) + 1 - k] \in STTypes
    <3>1. Len(sts) + 1 - k \in 1 .. Len(sts) BY <2>1
    <3>2. sts[Len(sts) + 1 - k] \in STTypes BY <3>1
    <3> QED BY <3>2 DEF STTypes
  <2>3. adj = [k \in 1 .. Len(sts) |-> -sts[Len(sts) + 1 - k]] BY <2>1 DEF AdjointSTtype
  <2> HIDE DEF adj
  <2> QED BY <2>1, <2>2, <2>3
<1> HIDE DEF adj
<1>2. PICK k \in 1 .. Len(sts) : Holds(I[n][adj[k]], l) /\ l \in Link /\ Allowed(l, AdjointArrows(arrows))
  BY <1>1, LinksOfElements DEF adj
<1>3. adj[k] \in STTypes BY <1>1, <1>2
<1>4. l \in ToSet(I[n][adj[k]]) BY <1>2, <1>3, SlotIs, HoldsIsElement
<1>5. back \in ToSet(I[l.dst][-adj[k]]) BY <1>3, <1>4 DEF Reversible
<1>6. PICK j \in 1 .. Len(sts) : sts[j] = -adj[k]
  <2>1. Len(sts) \in Nat /\ Len(sts) + 1 - k \in 1 .. Len(sts) OBVIOUS
  <2>2. sts[Len(sts) + 1 - k] \in Int BY <2>1 DEF STTypes
  <2>3. adj[k] = -sts[Len(sts) + 1 - k] BY <1>1
  <2> QED BY <2>1, <2>2, <2>3
<1>7. sts[j] \in STTypes /\ l.dst \in NodePtrs /\ l.arr \in Arrows BY <1>2 DEF Link
<1>8. Holds(I[l.dst][sts[j]], back) /\ back \in Link
  <2>1. I[l.dst][sts[j]] \in Seq(Link) BY <1>7, SlotIs
  <2>2. back \in ToSet(I[l.dst][sts[j]]) BY <1>5, <1>6
  <2> HIDE DEF back
  <2> QED BY <2>1, <2>2, HoldsIsElement
<1>9. Allowed(back, arrows)
  <2>1. CASE arrows = {} BY <2>1 DEF Allowed
  <2>2. CASE arrows # {}
    <3>1. l.arr \in AdjointArrows(arrows) BY <1>2, <2>2 DEF Allowed, AdjointArrows
    <3>2. PICK a \in arrows : l.arr = INVERSE_ARROWS[a] BY <3>1 DEF AdjointArrows
    <3>3. INVERSE_ARROWS[l.arr] = a BY <3>2, PathsAssumption
    <3> QED BY <3>3 DEF Allowed
  <2> QED BY <2>1, <2>2
<1> HIDE DEF back
<1>10. Holds(LinksOf(l.dst, sts, arrows), back) BY <1>7, <1>8, <1>9, LinksOfElements
<1> QED BY <1>10 DEF back

-----------------------------------------------------------------------------
(* w is a walk from n over these links. *)
Walk(w, n, sts, arrows) ==
    /\ w \in Seq(Link) /\ w # <<>>
    /\ Holds(LinksOf(n, sts, arrows), w[1])
    /\ \A i \in 2 .. Len(w) : Holds(LinksOf(w[i - 1].dst, sts, arrows), w[i])

LEMMA TipIsNode ==
    ASSUME NEW w \in Seq(Link), w # <<>>
    PROVE  Tip(w) \in NodePtrs /\ Len(w) \in 1 .. Len(w) /\ Tip(w) = w[Len(w)].dst
<1>1. Len(w) \in Nat /\ Len(w) # 0 OBVIOUS
<1>2. Len(w) \in 1 .. Len(w) BY <1>1
<1>3. w[Len(w)] \in Link BY <1>2
<1> QED BY <1>2, <1>3 DEF Tip, Last, Link

LEMMA WalkBegins ==
    ASSUME NEW n, NEW sts, NEW arrows, NEW l \in Link, Holds(LinksOf(n, sts, arrows), l)
    PROVE  Walk(<<l>>, n, sts, arrows) /\ Tip(<<l>>) = l.dst
<1>1. <<l>> \in Seq(Link) /\ Len(<<l>>) = 1 /\ <<l>>[1] = l /\ <<l>> # <<>> OBVIOUS
<1>2. 2 .. 1 = {} OBVIOUS
<1> QED BY <1>1, <1>2 DEF Walk, Tip, Last

LEMMA WalkGoesOn ==
    ASSUME NEW n, NEW sts, NEW arrows, NEW w, Walk(w, n, sts, arrows), NEW l \in Link,
           Holds(LinksOf(Tip(w), sts, arrows), l)
    PROVE  Walk(Append(w, l), n, sts, arrows) /\ Tip(Append(w, l)) = l.dst
<1>1. w \in Seq(Link) /\ w # <<>> /\ Len(w) \in Nat /\ Len(w) # 0 BY DEF Walk
<1> DEFINE v == Append(w, l)
<1>2. /\ v \in Seq(Link) /\ Len(v) = Len(w) + 1 /\ v # <<>> /\ v[Len(w) + 1] = l
      /\ \A i \in 1 .. Len(w) : v[i] = w[i]
  BY <1>1
<1> HIDE DEF v
<1>3. Tip(v) = l.dst BY <1>2 DEF Tip, Last
<1>4. v[1] = w[1] BY <1>1, <1>2
<1>5. ASSUME NEW i \in 2 .. Len(v) PROVE Holds(LinksOf(v[i - 1].dst, sts, arrows), v[i])
  <2>1. CASE i = Len(v)
    <3>1. v[i] = l /\ i - 1 = Len(w) /\ v[i - 1] = w[Len(w)] BY <1>1, <1>2, <2>1
    <3>2. v[i - 1].dst = Tip(w) BY <3>1 DEF Tip, Last
    <3> QED BY <3>1, <3>2
  <2>2. CASE i # Len(v)
    <3>1. i \in 2 .. Len(w) /\ i \in 1 .. Len(w) /\ i - 1 \in 1 .. Len(w) BY <1>1, <1>2, <2>2
    <3>2. v[i] = w[i] /\ v[i - 1] = w[i - 1] BY <1>2, <3>1
    <3>3. Holds(LinksOf(w[i - 1].dst, sts, arrows), w[i]) BY <3>1 DEF Walk
    <3> QED BY <3>2, <3>3
  <2> QED BY <2>1, <2>2
<1>6. Holds(LinksOf(n, sts, arrows), v[1]) BY <1>4 DEF Walk
<1> QED BY <1>2, <1>3, <1>5, <1>6 DEF v, Walk

LEMMA WalkCut ==
    ASSUME NEW n, NEW sts, NEW arrows, NEW w, Walk(w, n, sts, arrows), NEW m \in 1 .. Len(w)
    PROVE  Walk(SubSeq(w, 1, m), n, sts, arrows) /\ Len(SubSeq(w, 1, m)) = m
             /\ \A i \in 1 .. m : SubSeq(w, 1, m)[i] = w[i]
<1>1. w \in Seq(Link) /\ w # <<>> /\ Len(w) \in Nat /\ Len(w) # 0 BY DEF Walk
<1> DEFINE v == SubSeq(w, 1, m)
<1>2. v \in Seq(Link) /\ Len(v) = m /\ \A i \in 1 .. m : v[i] = w[i] BY <1>1
<1> HIDE DEF v
<1>3. v # <<>> BY <1>2
<1>4. ASSUME NEW i \in 2 .. Len(v) PROVE Holds(LinksOf(v[i - 1].dst, sts, arrows), v[i])
  <2>1. i \in 2 .. Len(w) /\ i \in 1 .. m /\ i - 1 \in 1 .. m BY <1>2
  <2>2. Holds(LinksOf(w[i - 1].dst, sts, arrows), w[i]) BY <2>1 DEF Walk
  <2> QED BY <1>2, <2>1, <2>2
<1>5. 1 \in 1 .. m OBVIOUS
<1>6. Holds(LinksOf(n, sts, arrows), v[1]) BY <1>2, <1>5 DEF Walk
<1> QED BY <1>2, <1>3, <1>4, <1>6 DEF v, Walk

-----------------------------------------------------------------------------
(* Where the waves meet. *)

LEMMA SearchTypes ==
    ASSUME query \in Queries
    PROVE  /\ LeftTypes \in Seq(STTypes) /\ RightTypes \in Seq(STTypes)
           /\ query.kind = "paths" => LeftTypes # <<>> /\ RightTypes # <<>>
           /\ LeftArrows \in SUBSET Arrows /\ RightArrows \in SUBSET Arrows
<1>1. query.sttypes \in Seq(STTypes) /\ query.arrows \in SUBSET Arrows BY QueryIs
<1>2. DefaultSTtypes \in Seq(STTypes) /\ DefaultSTtypes # <<>> BY DEF DefaultSTtypes, STTypes
<1>3. LeftTypes \in Seq(STTypes) /\ (query.kind = "paths" => LeftTypes # <<>>)
  BY <1>1, <1>2 DEF LeftTypes, SttypesOf
<1> HIDE DEF LeftTypes
<1>4. PICK sts \in Seq(STTypes) : sts = LeftTypes BY <1>3
<1>5. AdjointSTtype(sts) \in Seq(STTypes) /\ Len(AdjointSTtype(sts)) = Len(sts)
  <2>1. DOMAIN sts = 1 .. Len(sts) /\ Len(sts) \in Nat OBVIOUS
  <2>2. ASSUME NEW k \in 1 .. Len(sts) PROVE -sts[Len(sts) + 1 - k] \in STTypes
    <3>1. Len(sts) + 1 - k \in 1 .. Len(sts) BY <2>1
    <3>2. sts[Len(sts) + 1 - k] \in STTypes BY <3>1
    <3> QED BY <3>2 DEF STTypes
  <2>3. AdjointSTtype(sts) = [k \in 1 .. Len(sts) |-> -sts[Len(sts) + 1 - k]]
    BY <2>1 DEF AdjointSTtype
  <2> QED BY <2>1, <2>2, <2>3
<1>6. RightTypes = AdjointSTtype(sts) BY <1>4 DEF RightTypes
<1>7. query.kind = "paths" => RightTypes # <<>> BY <1>3, <1>4, <1>5, <1>6
<1>8. AdjointArrows(query.arrows) \in SUBSET Arrows BY <1>1, PathsAssumption DEF AdjointArrows
<1> QED BY <1>1, <1>3, <1>5, <1>6, <1>7, <1>8 DEF LeftArrows, RightArrows

(* What SplicesAreWalks says of one answer. *)
Follows(p, i) == p[i] \in ToSet(LinksOf(p[i - 1].dst, LeftTypes, LeftArrows))
TurnsBack(p, i) ==
    \E l \in ToSet(LinksOf(p[i].dst, RightTypes, RightArrows)) :
        l.dst = p[i - 1].dst /\ p[i].arr = INVERSE_ARROWS[l.arr]
SpliceSound(p) ==
    /\ \E s \in ToSet(query.starts) : p[1] \in ToSet(LinksOf(s, LeftTypes, LeftArrows))
    /\ \E m \in 1 .. Len(p) : /\ \A i \in 2 .. m : Follows(p, i)
                             /\ \A i \in (m + 1) .. Len(p) : TurnsBack(p, i)
    /\ \E e \in ToSet(query.ends) : Tip(p) \in Hops(e, RightTypes, RightArrows)

LEMMA FollowedLinks ==
    ASSUME I \in Graphs, query \in Queries, NEW n \in NodePtrs, NEW sts \in Seq(STTypes),
           NEW arrows, NEW l, Holds(LinksOf(n, sts, arrows), l)
    PROVE  l \in ToSet(LinksOf(n, sts, arrows)) /\ l.dst \in Hops(n, sts, arrows)
<1>1. LinksOf(n, sts, arrows) \in Seq(Link) BY LinksOfElements
<1>2. l \in ToSet(LinksOf(n, sts, arrows)) BY <1>1, HoldsIsElement
<1> QED BY <1>2 DEF Hops

(* A path of the right wave, turned around, goes on from the node it ends  *)
(* at: the shifted arrows are the inverses of those of its own links.      *)
LEMMA SpliceIsSound ==
    ASSUME I \in Graphs, query \in Queries,
           NEW s \in ToSet(query.starts), NEW e \in ToSet(query.ends),
           NEW L, Walk(L, s, LeftTypes, LeftArrows),
           NEW R, Walk(R, e, RightTypes, RightArrows), Tip(L) = Tip(R)
    PROVE  SpliceSound(L \o Tail(AdjointLinkPath(R)))
<1>1. s \in NodePtrs /\ e \in NodePtrs BY QueryIs DEF ToSet
<1>2. PICK a \in Nat \ {0}, b \in Nat \ {0} : a = Len(L) /\ b = Len(R) BY DEF Walk
<1>3. /\ L \in Seq(Link) /\ R \in Seq(Link) /\ L # <<>> /\ R # <<>>
      /\ \A i \in 1 .. b : R[i] \in Link
  <2>1. L \in Seq(Link) /\ R \in Seq(Link) /\ L # <<>> /\ R # <<>> BY DEF Walk
  <2> QED BY <1>2, <2>1
<1>4. LeftTypes \in Seq(STTypes) /\ RightTypes \in Seq(STTypes) BY SearchTypes
<1> DEFINE A == AdjointLinkPath(R)
           p == L \o Tail(A)
<1>5. /\ A \in Seq(Link) /\ Len(A) = b
      /\ \A j \in 1 .. b : A[j].dst = R[b + 1 - j].dst
      /\ \A j \in 2 .. b : A[j] = [arr |-> INVERSE_ARROWS[R[b + 2 - j].arr], dst |-> R[b + 1 - j].dst]
  <2>1. A = [j \in 1 .. b |-> [arr |-> INVERSE_ARROWS[IF j = 1 THEN INVERSE_ARROWS[FirstArrow]
                                                      ELSE R[b + 2 - j].arr],
                               dst |-> R[b + 1 - j].dst]]
    BY <1>2 DEF AdjointLinkPath
  <2>2. ASSUME NEW j \in 1 .. b
        PROVE  /\ R[b + 1 - j].dst \in NodePtrs
               /\ j # 1 => INVERSE_ARROWS[R[b + 2 - j].arr] \in Arrows
    <3>1. b + 1 - j \in 1 .. b /\ (j # 1 => b + 2 - j \in 1 .. b) BY <1>2
    <3> QED BY <1>3, <3>1, PathsAssumption DEF Link
  <2>3. INVERSE_ARROWS[INVERSE_ARROWS[FirstArrow]] \in Arrows BY PathsAssumption
  <2>4. A \in [1 .. b -> Link]
    <3> HIDE DEF A
    <3> QED BY <2>1, <2>2, <2>3 DEF Link
  <2>5. ASSUME NEW j \in 1 .. b
        PROVE  A[j] = [arr |-> INVERSE_ARROWS[IF j = 1 THEN INVERSE_ARROWS[FirstArrow]
                                              ELSE R[b + 2 - j].arr],
                       dst |-> R[b + 1 - j].dst]
    <3> HIDE DEF A
    <3> QED BY <2>1
  <2> HIDE DEF A
  <2>6. A \in Seq(Link) /\ Len(A) = b
    <3>1. b \in Nat OBVIOUS
    <3>2. A \in Seq(Link) BY <2>4, <3>1
    <3>3. DOMAIN A = 1 .. b BY <2>4
    <3> QED BY <3>1, <3>2, <3>3
  <2>7. ASSUME NEW j \in 1 .. b PROVE A[j].dst = R[b + 1 - j].dst
    <3>1. PICK x : x = INVERSE_ARROWS[IF j = 1 THEN INVERSE_ARROWS[FirstArrow] ELSE R[b + 2 - j].arr]
      OBVIOUS
    <3>2. PICK y : y = R[b + 1 - j].dst OBVIOUS
    <3>3. A[j] = [arr |-> x, dst |-> y] BY <2>5, <3>1, <3>2
    <3> QED BY <3>2, <3>3
  <2>8. ASSUME NEW j \in 2 .. b
        PROVE  A[j] = [arr |-> INVERSE_ARROWS[R[b + 2 - j].arr], dst |-> R[b + 1 - j].dst]
    <3>1. j \in 1 .. b /\ j # 1 BY <1>2
    <3> QED BY <2>5, <3>1
  <2> QED BY <2>6, <2>7, <2>8
<1> HIDE DEF A
<1>6. /\ p \in Seq(Link) /\ Len(p) = a + b - 1
      /\ \A i \in 1 .. a : p[i] = L[i]
      /\ \A j \in 1 .. b - 1 : p[a + j] = A[j + 1]
  <2>1. A # <<>> BY <1>2, <1>5
  <2>2. Tail(A) \in Seq(Link) /\ Len(Tail(A)) = b - 1 /\ \A j \in 1 .. b - 1 : Tail(A)[j] = A[j + 1]
    BY <1>2, <1>5, <2>1
  <2> QED BY <1>2, <1>3, <2>2
<1> HIDE DEF p
<1>8. ASSUME NEW j \in 1 .. b PROVE p[a + j - 1].dst = R[b + 1 - j].dst /\ a + j - 1 \in 1 .. Len(p)
  <2>1. CASE j = 1
    <3>1. a \in 1 .. a /\ p[a] = L[a] BY <1>2, <1>6
    <3>2. L[a].dst = Tip(L) /\ R[b].dst = Tip(R) BY <1>2 DEF Tip, Last
    <3>3. a + j - 1 = a /\ b + 1 - j = b BY <1>2, <2>1
    <3>4. a \in 1 .. Len(p) BY <1>2, <1>6
    <3> QED BY <3>1, <3>2, <3>3, <3>4
  <2>2. CASE j # 1
    <3>1. j - 1 \in 1 .. b - 1 /\ a + (j - 1) = a + j - 1 /\ (j - 1) + 1 = j BY <1>2, <2>2
    <3>2. p[a + j - 1] = A[j] BY <1>6, <3>1
    <3>3. a + j - 1 \in 1 .. Len(p) BY <1>2, <1>6, <3>1
    <3> QED BY <1>5, <3>2, <3>3
  <2> QED BY <2>1, <2>2
<1>9. \E t \in ToSet(query.starts) : p[1] \in ToSet(LinksOf(t, LeftTypes, LeftArrows))
  <2>1. p[1] = L[1] BY <1>2, <1>6
  <2>2. Holds(LinksOf(s, LeftTypes, LeftArrows), L[1]) BY DEF Walk
  <2> QED BY <1>1, <1>4, <2>1, <2>2, FollowedLinks
<1>10. ASSUME NEW i \in 2 .. a PROVE Follows(p, i)
  <2>1. i \in 2 .. Len(L) /\ i \in 1 .. a /\ i - 1 \in 1 .. a BY <1>2
  <2>2. Holds(LinksOf(L[i - 1].dst, LeftTypes, LeftArrows), L[i]) BY <2>1 DEF Walk
  <2>3. L[i - 1].dst \in NodePtrs
    <3>1. L[i - 1] \in Link BY <1>2, <1>3, <2>1
    <3> QED BY <3>1 DEF Link
  <2>4. p[i] = L[i] /\ p[i - 1] = L[i - 1] BY <1>6, <2>1
  <2> QED BY <1>4, <2>2, <2>3, <2>4, FollowedLinks DEF Follows
<1>11. ASSUME NEW i \in (a + 1) .. Len(p) PROVE TurnsBack(p, i)
  <2>1. PICK j \in 1 .. b - 1 : i = a + j
    <3>1. i - a \in 1 .. b - 1 /\ i = a + (i - a) BY <1>2, <1>6
    <3> QED BY <3>1
  <2>2. /\ j \in 1 .. b /\ j + 1 \in 2 .. b /\ a + j - 1 = i - 1
        /\ b + 1 - j \in 2 .. b /\ b + 1 - j \in 1 .. b
        /\ b - j \in 1 .. b /\ (b + 1 - j) - 1 = b - j
        /\ b + 2 - (j + 1) = b + 1 - j /\ b + 1 - (j + 1) = b - j
    BY <1>2, <2>1
  <2>3. p[i - 1].dst = R[b + 1 - j].dst BY <1>8, <2>2
  <2>4. p[i] = [arr |-> INVERSE_ARROWS[R[b + 1 - j].arr], dst |-> R[b - j].dst]
    <3>1. p[i] = A[j + 1] BY <1>6, <2>1
    <3>2. A[j + 1] = [arr |-> INVERSE_ARROWS[R[b + 2 - (j + 1)].arr], dst |-> R[b + 1 - (j + 1)].dst]
      BY <1>5, <2>2
    <3> QED BY <2>2, <3>1, <3>2
  <2>5. Holds(LinksOf(R[b - j].dst, RightTypes, RightArrows), R[b + 1 - j])
    <3>1. b + 1 - j \in 2 .. Len(R) BY <1>2, <2>2
    <3>2. Holds(LinksOf(R[(b + 1 - j) - 1].dst, RightTypes, RightArrows), R[b + 1 - j])
      BY <3>1 DEF Walk
    <3> QED BY <2>2, <3>2
  <2>6. R[b - j].dst \in NodePtrs BY <1>3, <2>2 DEF Link
  <2>7. R[b + 1 - j] \in ToSet(LinksOf(R[b - j].dst, RightTypes, RightArrows))
    BY <1>4, <2>5, <2>6, FollowedLinks
  <2>8. p[i].dst = R[b - j].dst /\ p[i].arr = INVERSE_ARROWS[R[b + 1 - j].arr]
    <3>1. PICK x, y : x = INVERSE_ARROWS[R[b + 1 - j].arr] /\ y = R[b - j].dst OBVIOUS
    <3>2. p[i] = [arr |-> x, dst |-> y] BY <2>4, <3>1
    <3> QED BY <3>1, <3>2
  <2> QED BY <2>3, <2>7, <2>8 DEF TurnsBack
<1>12. Tip(p) \in Hops(e, RightTypes, RightArrows)
  <2>1. Tip(p) = R[1].dst
    <3>1. Len(p) = a + b - 1 /\ b \in 1 .. b /\ b + 1 - b = 1 BY <1>2, <1>6
    <3>2. p[Len(p)].dst = R[1].dst BY <1>8, <3>1
    <3> QED BY <3>2 DEF Tip, Last
  <2>2. Holds(LinksOf(e, RightTypes, RightArrows), R[1]) BY DEF Walk
  <2> QED BY <1>1, <1>4, <2>1, <2>2, FollowedLinks
<1>13. a \in 1 .. Len(p) BY <1>2, <1>6
<1>14. SpliceSound(p) BY <1>9, <1>10, <1>11, <1>12, <1>13 DEF SpliceSound
<1> QED BY <1>14 DEF p, A

-----------------------------------------------------------------------------
(* Enumerations. *)

(* Paths from a start, and the frames that hold one. *)
Found(starts, sts, arrows) ==
    {w \in Seq(Link) : \E n \in ToSet(starts), forward \in BOOLEAN :
                           Walk(w, n, Ranges(sts, forward), arrows)}
FrameAt(f, n, sts, arrows) ==
    IF f.path = <<>> THEN f.nptr = n
    ELSE Walk(f.path, n, Ranges(sts, f.forward), arrows) /\ f.nptr = Tip(f.path)
Frames(starts, sts, arrows) ==
    {f \in [nptr : NodePtrs, path : Seq(Link), forward : BOOLEAN] :
        \E n \in ToSet(starts) : FrameAt(f, n, sts, arrows)}

LEMMA RangesTypes ==
    ASSUME NEW sts \in Seq(STTypes), NEW forward
    PROVE  Ranges(sts, forward) \in Seq(STTypes) /\ (sts # <<>> => Ranges(sts, forward) = sts)
<1>1. <<0, 1, 2, 3>> \in Seq(STTypes) BY DEF STTypes
<1>2. <<-3, -2, -1>> \in Seq(STTypes) BY DEF STTypes
<1> QED BY <1>1, <1>2 DEF Ranges

(* The frames of the calls. *)
Fresh(starts) ==
    {f \in [nptr : NodePtrs, path : Seq(Link), forward : BOOLEAN] : f.path = <<>> /\ f.nptr \in ToSet(starts)}

LEMMA CallsAreFresh ==
    ASSUME NEW starts \in Seq(NodePtrs), NEW orientation
    PROVE  Calls(starts, orientation) \in Seq(Fresh(starts))
<1> DEFINE F == Fresh(starts)
<1>1. DOMAIN starts = 1 .. Len(starts) /\ Len(starts) \in Nat OBVIOUS
<1>2. ASSUME NEW i \in 1 .. Len(starts), NEW forward \in BOOLEAN
      PROVE  Frame(starts[i], <<>>, forward) \in F
  <2> DEFINE f == Frame(starts[i], <<>>, forward)
  <2>1. starts[i] \in NodePtrs /\ starts[i] \in ToSet(starts) BY <1>1 DEF ToSet
  <2>2. PICK n : n = starts[i] OBVIOUS
  <2>3. f = [nptr |-> n, path |-> <<>>, forward |-> forward] BY <2>2 DEF Frame
  <2> HIDE DEF f
  <2>4. <<>> \in Seq(Link) OBVIOUS
  <2>5. f \in [nptr : NodePtrs, path : Seq(Link), forward : BOOLEAN] BY <2>1, <2>2, <2>3, <2>4
  <2>6. f.path = <<>> /\ f.nptr = starts[i] BY <2>2, <2>3
  <2>7. f \in F BY <2>1, <2>5, <2>6 DEF Fresh
  <2> QED BY <2>7 DEF f
<1> HIDE DEF F
<1>3. CASE orientation = "both"
  <2> DEFINE ss == [i \in DOMAIN starts |-> <<Frame(starts[i], <<>>, TRUE), Frame(starts[i], <<>>, FALSE)>>]
  <2>1. ASSUME NEW i \in 1 .. Len(starts)
        PROVE  <<Frame(starts[i], <<>>, TRUE), Frame(starts[i], <<>>, FALSE)>> \in Seq(F)
    <3>1. PICK x \in F : x = Frame(starts[i], <<>>, TRUE) BY <1>2
    <3>2. PICK y \in F : y = Frame(starts[i], <<>>, FALSE) BY <1>2
    <3>3. <<x, y>> \in Seq(F) OBVIOUS
    <3> QED BY <3>1, <3>2, <3>3
  <2>2. ss \in Seq(Seq(F))
    <3>1. ss \in [1 .. Len(starts) -> Seq(F)] BY <1>1, <2>1
    <3> HIDE DEF ss
    <3> QED BY <1>1, <3>1, SequenceOf
  <2>3. Calls(starts, orientation) = FlattenSeq(ss) BY <1>3 DEF Calls
  <2> HIDE DEF ss
  <2> QED BY <2>2, <2>3, FlattenElements DEF F
<1>4. CASE orientation # "both"
  <2> DEFINE s == [i \in DOMAIN starts |-> Frame(starts[i], <<>>, orientation = "fwd")]
  <2>1. (orientation = "fwd") \in BOOLEAN OBVIOUS
  <2>2. \A i \in 1 .. Len(starts) : Frame(starts[i], <<>>, orientation = "fwd") \in F BY <1>2, <2>1
  <2>3. s \in Seq(F) BY <1>1, <2>2
  <2>4. Calls(starts, orientation) = s BY <1>4 DEF Calls
  <2> HIDE DEF s
  <2> QED BY <2>3, <2>4 DEF F
<1> QED BY <1>3, <1>4

LEMMA CallsAreFrames ==
    ASSUME NEW starts \in Seq(NodePtrs), NEW orientation, NEW sts, NEW arrows
    PROVE  Calls(starts, orientation) \in Seq(Frames(starts, sts, arrows))
<1>1. Fresh(starts) \subseteq Frames(starts, sts, arrows) BY DEF Fresh, Frames, FrameAt
<1> QED BY <1>1, CallsAreFresh

(* The links an enumeration extends a frame by. *)
Unvisited(path) == {l \in Link : l.dst \in query.admit /\ l.dst \notin Nodes(path)}

LEMMA ExtensionsSieve ==
    ASSUME I \in Graphs, NEW top \in [nptr : NodePtrs, path : Seq(Link), forward : BOOLEAN],
           EnumTypes \in Seq(STTypes)
    PROVE  \E links \in Seq(Link) :
               /\ links = IF query.loaded THEN LinksOf(top.nptr, Ranges(EnumTypes, top.forward), EnumArrows)
                          ELSE <<>>
               /\ Extensions(top) = Sieve(links, Unvisited(top.path))
<1> DEFINE all == LinksOf(top.nptr, Ranges(EnumTypes, top.forward), EnumArrows)
           links == MemoryLinks(top.nptr, Ranges(EnumTypes, top.forward), EnumArrows)
           P == Unvisited(top.path)
<1>1. all \in Seq(Link) BY RangesTypes, LinksOfElements
<1> HIDE DEF all
<1>2. links = IF query.loaded THEN all ELSE <<>> BY DEF MemoryLinks, all
<1> HIDE DEF links
<1>3. links \in Seq(Link) BY <1>1, <1>2
<1>4. Extensions(top) = Sieve(links, P)
  <2>1. \A i \in DOMAIN links : links[i] \in Link BY <1>3
  <2>2. \A i \in DOMAIN links :
           (links[i].dst \in query.admit /\ links[i].dst \notin Nodes(top.path)) <=> links[i] \in P
    BY <2>1 DEF Unvisited
  <2> HIDE DEF P
  <2>3. [i \in DOMAIN links |-> IF links[i].dst \in query.admit /\ links[i].dst \notin Nodes(top.path)
                                THEN <<links[i]>> ELSE <<>>]
          = [i \in DOMAIN links |-> IF links[i] \in P THEN <<links[i]>> ELSE <<>>]
    BY <2>2
  <2> QED BY <2>3 DEF Extensions, Those, Sieve, links
<1> QED BY <1>2, <1>3, <1>4 DEF all

LEMMA ExtensionsAre ==
    ASSUME I \in Graphs, NEW top \in [nptr : NodePtrs, path : Seq(Link), forward : BOOLEAN],
           EnumTypes \in Seq(STTypes)
    PROVE  /\ Extensions(top) \in Seq(Link)
           /\ \A l : Holds(Extensions(top), l) <=>
                  /\ query.loaded
                  /\ Holds(LinksOf(top.nptr, Ranges(EnumTypes, top.forward), EnumArrows), l)
                  /\ l.dst \in query.admit /\ l.dst \notin Nodes(top.path)
<1> DEFINE all == LinksOf(top.nptr, Ranges(EnumTypes, top.forward), EnumArrows)
           P == Unvisited(top.path)
<1>1. PICK links \in Seq(Link) : links = (IF query.loaded THEN all ELSE <<>>) /\ Extensions(top) = Sieve(links, P)
  BY ExtensionsSieve
<1> HIDE DEF all
<1>2. \A l : Holds(links, l) <=> query.loaded /\ Holds(all, l) BY <1>1 DEF Holds
<1>3. \A l : Holds(links, l) => l \in Link BY HoldsIsElement
<1>4. /\ Sieve(links, P) \in Seq(Link)
      /\ \A l : Holds(Sieve(links, P), l) <=> Holds(links, l) /\ l \in P
  <2> HIDE DEF P
  <2> QED BY SieveElements
<1>5. \A l : Holds(links, l) /\ l \in P <=>
                /\ query.loaded /\ Holds(all, l)
                /\ l.dst \in query.admit /\ l.dst \notin Nodes(top.path)
  BY <1>2, <1>3 DEF Unvisited
<1> HIDE DEF P
<1> QED BY <1>1, <1>4, <1>5 DEF all

(* A frame that is extended is a frame. *)
LEMMA PushedIsFrame ==
    ASSUME NEW starts, NEW sts, NEW arrows, NEW top \in Frames(starts, sts, arrows),
           NEW l \in Link, Holds(LinksOf(top.nptr, Ranges(sts, top.forward), arrows), l)
    PROVE  Frame(l.dst, Append(top.path, l), top.forward) \in Frames(starts, sts, arrows)
<1> DEFINE f == Frame(l.dst, Append(top.path, l), top.forward)
<1>1. /\ top \in [nptr : NodePtrs, path : Seq(Link), forward : BOOLEAN]
      /\ \E n \in ToSet(starts) : FrameAt(top, n, sts, arrows)
  BY DEF Frames
<1>2. PICK n \in ToSet(starts) : FrameAt(top, n, sts, arrows) BY <1>1
<1>3. /\ f \in [nptr : NodePtrs, path : Seq(Link), forward : BOOLEAN]
      /\ f.nptr = l.dst /\ f.path = Append(top.path, l) /\ f.forward = top.forward
      /\ f.path # <<>>
  BY <1>1 DEF Frame, Link
<1> HIDE DEF f
<1>4. Walk(f.path, n, Ranges(sts, f.forward), arrows) /\ f.nptr = Tip(f.path)
  <2>1. CASE top.path = <<>>
    <3>1. f.path = <<l>> BY <1>3, <2>1
    <3>2. top.nptr = n BY <1>2, <2>1 DEF FrameAt
    <3> QED BY <1>3, <3>1, <3>2, WalkBegins
  <2>2. CASE top.path # <<>>
    <3>1. Walk(top.path, n, Ranges(sts, top.forward), arrows) /\ top.nptr = Tip(top.path)
      BY <1>2, <2>2 DEF FrameAt
    <3> QED BY <1>3, <3>1, WalkGoesOn
  <2> QED BY <2>1, <2>2
<1>5. FrameAt(f, n, sts, arrows) BY <1>3, <1>4 DEF FrameAt
<1>6. f \in Frames(starts, sts, arrows) BY <1>3, <1>5 DEF Frames
<1> QED BY <1>6 DEF f

LEMMA FrameIsFound ==
    ASSUME NEW starts, NEW sts, NEW arrows, NEW top \in Frames(starts, sts, arrows), top.path # <<>>
    PROVE  top.path \in Found(starts, sts, arrows)
BY DEF Frames, FrameAt, Found

(* The paths that are returned, sorted or not. *)
LEMMA SortedAreFound ==
    ASSUME query \in Queries, NEW S, NEW paths \in Seq(S)
    PROVE  sortPathsByLength(paths) \in Seq(S)
<1> DEFINE ss == [k \in 1 .. query.depth |-> Those(paths, LAMBDA p : Len(p) = k)]
<1>1. ASSUME NEW k \in 1 .. query.depth PROVE Those(paths, LAMBDA p : Len(p) = k) \in Seq(S)
  <2> DEFINE P == {p \in S : Len(p) = k}
  <2>1. \A i \in DOMAIN paths : (Len(paths[i]) = k) <=> paths[i] \in P OBVIOUS
  <2> HIDE DEF P
  <2>2. [i \in DOMAIN paths |-> IF Len(paths[i]) = k THEN <<paths[i]>> ELSE <<>>]
          = [i \in DOMAIN paths |-> IF paths[i] \in P THEN <<paths[i]>> ELSE <<>>]
    BY <2>1
  <2>3. Those(paths, LAMBDA p : Len(p) = k) = Sieve(paths, P) BY <2>2 DEF Those, Sieve
  <2> QED BY <2>3, SieveElements
<1>2. query.depth \in Nat BY QueryIs
<1>3. ss \in Seq(Seq(S))
  <2>1. ss \in [1 .. query.depth -> Seq(S)] BY <1>1
  <2> HIDE DEF ss
  <2> QED BY <1>2, <2>1, SequenceOf
<1>4. sortPathsByLength(paths) = FlattenSeq(ss) BY DEF sortPathsByLength
<1> HIDE DEF ss
<1> QED BY <1>3, <1>4, FlattenElements

-----------------------------------------------------------------------------
(* Waves. *)

LEMMA ConstrainedLinks ==
    ASSUME I \in Graphs, query \in Queries, NEW n \in NodePtrs, NEW sts \in Seq(STTypes), NEW arrows
    PROVE  /\ GetConstrainedFwdLinks(n, sts, arrows) \in Seq(Link)
           /\ \A l : Holds(GetConstrainedFwdLinks(n, sts, arrows), l) => Holds(LinksOf(n, sts, arrows), l)
<1> DEFINE all == LinksOf(n, sts, arrows)
           links == IF query.stored THEN all ELSE <<>>
           m == IF Len(links) < query.depth THEN Len(links) ELSE query.depth
<1>1. all \in Seq(Link) BY LinksOfElements
<1> HIDE DEF all
<1>2. links \in Seq(Link) /\ \A l : Holds(links, l) => Holds(all, l) BY <1>1 DEF Holds
<1>3. m \in 0 .. Len(links)
  <2>1. query.depth \in Nat BY QueryIs
  <2>2. Len(links) \in Nat BY <1>2
  <2> HIDE DEF links
  <2> QED BY <2>1, <2>2
<1>4. GetConstrainedFwdLinks(n, sts, arrows) = SubSeq(links, 1, m)
  BY DEF GetConstrainedFwdLinks, all
<1> HIDE DEF links, m
<1>5. /\ SubSeq(links, 1, m) \in Seq(Link) /\ Len(SubSeq(links, 1, m)) = m
      /\ \A i \in 1 .. m : SubSeq(links, 1, m)[i] = links[i] /\ i \in 1 .. Len(links)
  BY <1>2, <1>3
<1>6. \A l : Holds(SubSeq(links, 1, m), l) => Holds(links, l) BY <1>5 DEF Holds
<1> QED BY <1>2, <1>4, <1>5, <1>6 DEF all

LEMMA WaveGrows ==
    ASSUME I \in Graphs, query \in Queries, NEW starts \in Seq(NodePtrs),
           NEW sts \in Seq(STTypes), sts # <<>>, NEW arrows,
           NEW cone \in Seq(Found(starts, sts, arrows))
    PROVE  IncConstraintConeLinks(cone, sts, arrows) \in Seq(Found(starts, sts, arrows))
<1> DEFINE F == Found(starts, sts, arrows)
           Links(b) == GetConstrainedFwdLinks(Tip(b), sts, arrows)
           Shoot(b, i) == IF /\ \A j \in 1 .. (i - 1) : Links(b)[j].dst # Links(b)[i].dst
                             /\ Links(b)[i].dst \notin Nodes(b)
                          THEN <<Append(b, Links(b)[i])>> ELSE <<>>
           Shoots(b) == FlattenSeq([i \in DOMAIN Links(b) |-> Shoot(b, i)])
           ss == [p \in DOMAIN cone |-> Shoots(cone[p])]
<1>1. ASSUME NEW b \in F PROVE Shoots(b) \in Seq(F)
  <2>1. PICK n \in ToSet(starts), forward \in BOOLEAN : Walk(b, n, Ranges(sts, forward), arrows)
    BY DEF Found
  <2>2. Walk(b, n, sts, arrows) BY <2>1, RangesTypes
  <2>3. b \in Seq(Link) /\ b # <<>> BY <2>2 DEF Walk
  <2>4. Tip(b) \in NodePtrs BY <2>3, TipIsNode
  <2>5. /\ Links(b) \in Seq(Link)
        /\ \A l : Holds(Links(b), l) => Holds(LinksOf(Tip(b), sts, arrows), l)
    BY <2>4, ConstrainedLinks
  <2>6. ASSUME NEW i \in 1 .. Len(Links(b)) PROVE Shoot(b, i) \in Seq(F)
    <3>1. PICK l \in Link : l = Links(b)[i] BY <2>5
    <3>2. Holds(LinksOf(Tip(b), sts, arrows), l) BY <2>5, <3>1 DEF Holds
    <3>3. Walk(Append(b, l), n, sts, arrows) BY <2>2, <3>2, WalkGoesOn
    <3>4. Append(b, l) \in F
      <4>1. Append(b, l) \in Seq(Link) BY <3>3 DEF Walk
      <4>2. Walk(Append(b, l), n, Ranges(sts, TRUE), arrows) BY <3>3, RangesTypes
      <4> QED BY <4>1, <4>2 DEF Found
    <3>5. PICK v \in F : v = Append(b, Links(b)[i]) BY <3>1, <3>4
    <3>6. Shoot(b, i) = <<v>> \/ Shoot(b, i) = <<>> BY <3>5
    <3> HIDE DEF Shoot, F
    <3>7. <<v>> \in Seq(F) /\ <<>> \in Seq(F) OBVIOUS
    <3> QED BY <3>6, <3>7
  <2>7. DOMAIN Links(b) = 1 .. Len(Links(b)) /\ Len(Links(b)) \in Nat BY <2>5
  <2> DEFINE row == [i \in DOMAIN Links(b) |-> Shoot(b, i)]
  <2>8. row \in Seq(Seq(F))
    <3> HIDE DEF F, Shoot
    <3>1. row \in [1 .. Len(Links(b)) -> Seq(F)] BY <2>6, <2>7
    <3> HIDE DEF row
    <3> QED BY <2>7, <3>1, SequenceOf
  <2>9. Shoots(b) = FlattenSeq(row) OBVIOUS
  <2> HIDE DEF row, F, Shoots
  <2> QED BY <2>8, <2>9, FlattenElements
<1>2. IncConstraintConeLinks(cone, sts, arrows) = FlattenSeq(ss)
  BY DEF IncConstraintConeLinks
<1>3. ss \in Seq(Seq(F))
  <2> HIDE DEF F, Shoots
  <2>1. DOMAIN cone = 1 .. Len(cone) /\ Len(cone) \in Nat BY DEF F
  <2>2. \A p \in 1 .. Len(cone) : cone[p] \in F BY DEF F
  <2>3. ss \in [1 .. Len(cone) -> Seq(F)] BY <1>1, <2>1, <2>2
  <2> HIDE DEF ss
  <2> QED BY <2>1, <2>3, SequenceOf
<1> HIDE DEF ss, F
<1> QED BY <1>2, <1>3, FlattenElements DEF F

-----------------------------------------------------------------------------
(* The inductive invariant of a search: the frames and the results of the  *)
(* enumeration, and the paths of both waves, are walks from their side.    *)
EnumFrames == IF job = "right" THEN Frames(query.ends, RightTypes, RightArrows)
              ELSE Frames(query.starts, LeftTypes, LeftArrows)
EnumFound == IF job = "right" THEN Found(query.ends, RightTypes, RightArrows)
             ELSE Found(query.starts, LeftTypes, LeftArrows)

EnumInv ==
    job \in {"cone", "left", "right"} =>
        stack \in Seq(EnumFrames) /\ todo \in Seq(EnumFrames) /\ found \in Seq(EnumFound)
WaveInv ==
    /\ left \in Seq(Found(query.starts, LeftTypes, LeftArrows))
    /\ right \in Seq(Found(query.ends, RightTypes, RightArrows))
    /\ query.kind = "paths" => \A p \in solutions : SpliceSound(p)
SearchInv ==
    /\ I \in Graphs /\ query \in Queries
    /\ job \in {"cone", "left", "right", "waves", "done"}
    /\ job \in {"left", "right", "waves"} => query.kind = "paths"
    /\ job = "cone" => query.kind # "paths"
    /\ EnumInv
    /\ WaveInv
(* What is returned. *)
AnswerInv ==
    job = "done" =>
        /\ query.kind = "paths" => \A p \in answer : SpliceSound(p)
        /\ query.kind = "cone" => answer \in Seq(Found(query.starts, LeftTypes, LeftArrows))

LEMMA InitSearchInv ==
    ASSUME PathsInit
    PROVE  SearchInv /\ AnswerInv
<1>1. I \in Graphs /\ query \in Queries /\ job \in {"cone", "left"} BY DEF PathsInit
<1>2. query.kind = "paths" <=> job = "left" BY DEF PathsInit
<1>3. query.starts \in Seq(NodePtrs) BY <1>1, QueryIs
<1>4. todo \in Seq(Frames(query.starts, LeftTypes, LeftArrows))
  <2>1. PICK orientation :
            orientation = IF query.kind = "paths" THEN "fwd" ELSE query.orientation
    OBVIOUS
  <2>2. todo = Calls(query.starts, orientation) BY <2>1 DEF PathsInit
  <2> QED BY <1>3, <2>2, CallsAreFrames
<1>5. stack = <<>> /\ found = <<>> /\ left = <<>> /\ right = <<>> /\ solutions = {}
  BY DEF PathsInit
<1>6. EnumInv BY <1>1, <1>4, <1>5 DEF EnumInv, EnumFrames, EnumFound
<1>7. WaveInv BY <1>5 DEF WaveInv
<1> QED BY <1>1, <1>2, <1>6, <1>7 DEF SearchInv, AnswerInv

(* The parameters of the enumeration that is running. *)
LEMMA EnumIs ==
    ASSUME SearchInv, Enumerating
    PROVE  /\ stack \in Seq(EnumFrames) /\ todo \in Seq(EnumFrames) /\ found \in Seq(EnumFound)
           /\ \E starts \in Seq(NodePtrs) :
                 /\ EnumFrames = Frames(starts, EnumTypes, EnumArrows)
                 /\ EnumFound = Found(starts, EnumTypes, EnumArrows)
           /\ EnumTypes \in Seq(STTypes) /\ EnumArrows \in SUBSET Arrows
<1>1. query \in Queries /\ EnumInv BY DEF SearchInv
<1>2. query.starts \in Seq(NodePtrs) /\ query.ends \in Seq(NodePtrs) BY <1>1, QueryIs
<1>3. EnumTypes \in Seq(STTypes) /\ EnumArrows \in SUBSET Arrows
  BY <1>1, SearchTypes DEF EnumTypes, EnumArrows
<1>4. CASE job = "right"
  BY <1>1, <1>2, <1>3, <1>4 DEF EnumFrames, EnumFound, EnumTypes, EnumArrows, EnumInv, Enumerating
<1>5. CASE job # "right"
  BY <1>1, <1>2, <1>3, <1>5 DEF EnumFrames, EnumFound, EnumTypes, EnumArrows, EnumInv, Enumerating
<1> QED BY <1>4, <1>5

LEMMA TopIsFrame ==
    ASSUME NEW F, NEW s \in Seq(F), s # <<>>
    PROVE  Last(s) \in F /\ Front(s) \in Seq(F)
<1>1. Len(s) \in Nat /\ Len(s) # 0 OBVIOUS
<1>2. Len(s) \in 1 .. Len(s) BY <1>1
<1> QED BY <1>1, <1>2 DEF Last, Front

(* The graph does not change, and its links neither. *)
LinksIn(G, n, sts, arrows) ==
    LET Admitted(l) == arrows = {} \/ l.arr \in arrows
    IN  FlattenSeq([i \in DOMAIN sts |-> Those(G[n][sts[i]], Admitted)])

LEMMA LinksStay ==
    ASSUME I' = I
    PROVE  \A n, sts, arrows : LinksOf(n, sts, arrows)' = LinksOf(n, sts, arrows)
<1>1. \A n, sts, arrows : LinksOf(n, sts, arrows) = LinksIn(I, n, sts, arrows)
  BY DEF LinksOf, LinksIn, Those
<1>2. \A n, sts, arrows : LinksOf(n, sts, arrows)' = LinksIn(I', n, sts, arrows)
  BY DEF LinksOf, LinksIn, Those
<1> QED BY <1>1, <1>2

LEMMA WalksStay ==
    ASSUME I' = I
    PROVE  \A starts, sts, arrows :
               /\ Found(starts, sts, arrows)' = Found(starts, sts, arrows)
               /\ Frames(starts, sts, arrows)' = Frames(starts, sts, arrows)
<1>1. \A w, n, sts, arrows : Walk(w, n, sts, arrows)' <=> Walk(w, n, sts, arrows)
  <2>1. \A n, sts, arrows : LinksOf(n, sts, arrows)' = LinksOf(n, sts, arrows) BY LinksStay
  <2> QED BY <2>1 DEF Walk
<1>2. \A starts, sts, arrows : Found(starts, sts, arrows)' = Found(starts, sts, arrows)
  BY <1>1 DEF Found
<1>3. \A f, n, sts, arrows : FrameAt(f, n, sts, arrows)' <=> FrameAt(f, n, sts, arrows)
  BY <1>1 DEF FrameAt
<1>4. \A starts, sts, arrows : Frames(starts, sts, arrows)' = Frames(starts, sts, arrows)
  BY <1>3 DEF Frames
<1> QED BY <1>2, <1>4

(* What SplicesAreWalks says does not change either. *)
LEMMA SoundStays ==
    ASSUME I' = I, query' = query
    PROVE  \A p : SpliceSound(p)' <=> SpliceSound(p)
<1>1. UNCHANGED <<LeftTypes, LeftArrows, RightTypes, RightArrows>>
  BY DEF LeftTypes, LeftArrows, RightTypes, RightArrows, SttypesOf
<1>2. \A n, sts, arrows : LinksOf(n, sts, arrows)' = LinksOf(n, sts, arrows) BY LinksStay
<1>3. \A n : Hops(n, RightTypes, RightArrows)' = Hops(n, RightTypes, RightArrows)
  BY <1>1, <1>2 DEF Hops
<1>4. \A p, i : Follows(p, i)' <=> Follows(p, i) BY <1>1, <1>2 DEF Follows
<1>5. \A p, i : TurnsBack(p, i)' <=> TurnsBack(p, i) BY <1>1, <1>2 DEF TurnsBack
<1> QED BY <1>1, <1>2, <1>3, <1>4, <1>5 DEF SpliceSound

(* A step that changes only the enumeration, and keeps its invariant. *)
LEMMA EnumStep ==
    ASSUME SearchInv, Enumerating, UNCHANGED <<I, query, job, waveVars>>,
           stack' \in Seq(EnumFrames), todo' \in Seq(EnumFrames), found' \in Seq(EnumFound)
    PROVE  SearchInv' /\ AnswerInv'
<1>1. UNCHANGED <<I, query, job, left, right, solutions>> BY DEF waveVars
<1>2. UNCHANGED <<LeftTypes, LeftArrows, RightTypes, RightArrows>>
  BY <1>1 DEF LeftTypes, LeftArrows, RightTypes, RightArrows, SttypesOf
<1>3. \A starts, sts, arrows :
          /\ Found(starts, sts, arrows)' = Found(starts, sts, arrows)
          /\ Frames(starts, sts, arrows)' = Frames(starts, sts, arrows)
  BY <1>1, WalksStay
<1>4. UNCHANGED <<EnumFrames, EnumFound>> BY <1>1, <1>2, <1>3 DEF EnumFrames, EnumFound
<1>5. EnumInv' BY <1>4 DEF EnumInv
<1>6. \A p : SpliceSound(p)' <=> SpliceSound(p) BY <1>1, SoundStays
<1>7. WaveInv' BY <1>1, <1>2, <1>3, <1>6 DEF WaveInv, SearchInv
<1> QED BY <1>1, <1>5, <1>7 DEF SearchInv, AnswerInv, Enumerating

LEMMA EmittedIsFound ==
    ASSUME SearchInv, Enumerating, stack # <<>>, Emit(Last(stack).path)
    PROVE  found' \in Seq(EnumFound) /\ Front(stack) \in Seq(EnumFrames)
<1>1. stack \in Seq(EnumFrames) /\ found \in Seq(EnumFound) BY EnumIs
<1>2. PICK starts \in Seq(NodePtrs) : /\ EnumFrames = Frames(starts, EnumTypes, EnumArrows)
                                      /\ EnumFound = Found(starts, EnumTypes, EnumArrows)
  BY EnumIs
<1>3. Last(stack) \in EnumFrames /\ Front(stack) \in Seq(EnumFrames) BY <1>1, TopIsFrame
<1>4. Last(stack).path # <<>> => Last(stack).path \in EnumFound BY <1>2, <1>3, FrameIsFound
<1> QED BY <1>1, <1>3, <1>4 DEF Emit

LEMMA ExpandedAreFrames ==
    ASSUME SearchInv, Enumerating, stack # <<>>, Expand
    PROVE  stack' \in Seq(EnumFrames)
<1>1. stack \in Seq(EnumFrames) BY EnumIs
<1>2. PICK starts \in Seq(NodePtrs) : EnumFrames = Frames(starts, EnumTypes, EnumArrows) BY EnumIs
<1>3. PICK top \in EnumFrames : top = Last(stack) BY <1>1, TopIsFrame
<1>4. Front(stack) \in Seq(EnumFrames) BY <1>1, TopIsFrame
<1>5. PICK links : links = Extensions(top) OBVIOUS
<1>6. top \in [nptr : NodePtrs, path : Seq(Link), forward : BOOLEAN] BY <1>2, <1>3 DEF Frames
<1>7. /\ links \in Seq(Link)
      /\ \A l : Holds(links, l) =>
             Holds(LinksOf(top.nptr, Ranges(EnumTypes, top.forward), EnumArrows), l)
  BY <1>5, <1>6, EnumIs, ExtensionsAre DEF SearchInv
<1> DEFINE new == [i \in DOMAIN links |-> Frame(links[i].dst, Append(top.path, links[i]), top.forward)]
<1>8. stack' = Front(stack) \o new BY <1>3, <1>5 DEF Expand
<1>9. ASSUME NEW i \in 1 .. Len(links)
      PROVE  Frame(links[i].dst, Append(top.path, links[i]), top.forward) \in EnumFrames
  <2>1. links[i] \in Link /\ Holds(links, links[i]) BY <1>7 DEF Holds
  <2>2. Holds(LinksOf(top.nptr, Ranges(EnumTypes, top.forward), EnumArrows), links[i])
    BY <1>7, <2>1
  <2> QED BY <1>2, <1>3, <2>1, <2>2, PushedIsFrame
<1>10. DOMAIN links = 1 .. Len(links) /\ Len(links) \in Nat BY <1>7
<1>11. new \in Seq(EnumFrames)
  <2>1. new \in [1 .. Len(links) -> EnumFrames] BY <1>9, <1>10
  <2> HIDE DEF new
  <2> QED BY <1>10, <2>1, SequenceOf
<1> HIDE DEF new
<1> QED BY <1>4, <1>8, <1>11

LEMMA EnumerationKeepsInv ==
    ASSUME SearchInv, enumeratePaths \/ StopAtDepth \/ Expand \/ EmitLeaf
    PROVE  SearchInv' /\ AnswerInv' /\ UNCHANGED query
<1>1. Enumerating /\ UNCHANGED <<I, query, job, waveVars>>
  BY DEF enumeratePaths, StopAtDepth, Expand, EmitLeaf
<1>2. stack \in Seq(EnumFrames) /\ todo \in Seq(EnumFrames) /\ found \in Seq(EnumFound)
  BY <1>1, EnumIs
<1>3. CASE enumeratePaths
  <2>1. todo # <<>> /\ stack' = <<Head(todo)>> /\ todo' = Tail(todo) /\ found' = found
    BY <1>3 DEF enumeratePaths
  <2>2. Head(todo) \in EnumFrames /\ Tail(todo) \in Seq(EnumFrames) BY <1>2, <2>1
  <2>3. stack' \in Seq(EnumFrames) BY <2>1, <2>2
  <2> QED BY <1>1, <1>2, <2>1, <2>2, <2>3, EnumStep
<1>4. CASE StopAtDepth
  <2>1. /\ stack # <<>> /\ stack' = Front(stack) /\ Emit(Last(stack).path) /\ todo' = todo
    BY <1>4 DEF StopAtDepth, Exhausted
  <2>2. found' \in Seq(EnumFound) /\ Front(stack) \in Seq(EnumFrames)
    BY <1>1, <2>1, EmittedIsFound
  <2> QED BY <1>1, <1>2, <2>1, <2>2, EnumStep
<1>5. CASE Expand
  <2>1. stack # <<>> /\ todo' = todo /\ found' = found BY <1>5 DEF Expand, Exhausted
  <2>2. stack' \in Seq(EnumFrames) BY <1>1, <1>5, <2>1, ExpandedAreFrames
  <2> QED BY <1>1, <1>2, <2>1, <2>2, EnumStep
<1>6. CASE EmitLeaf
  <2>1. /\ stack # <<>> /\ stack' = Front(stack) /\ Emit(Last(stack).path) /\ todo' = todo
    BY <1>6 DEF EmitLeaf, Exhausted
  <2>2. found' \in Seq(EnumFound) /\ Front(stack) \in Seq(EnumFrames)
    BY <1>1, <2>1, EmittedIsFound
  <2> QED BY <1>1, <1>2, <2>1, <2>2, EnumStep
<1> QED BY <1>1, <1>3, <1>4, <1>5, <1>6

(* What a query asks for does not change. *)
LEMMA QueryStays ==
    ASSUME I' = I, query' = query
    PROVE  /\ UNCHANGED <<LeftTypes, LeftArrows, RightTypes, RightArrows>>
           /\ \A starts, sts, arrows :
                 /\ Found(starts, sts, arrows)' = Found(starts, sts, arrows)
                 /\ Frames(starts, sts, arrows)' = Frames(starts, sts, arrows)
           /\ \A p : SpliceSound(p)' <=> SpliceSound(p)
<1>1. UNCHANGED <<LeftTypes, LeftArrows, RightTypes, RightArrows>>
  BY DEF LeftTypes, LeftArrows, RightTypes, RightArrows, SttypesOf
<1> QED BY <1>1, WalksStay, SoundStays

(* The steps that return a cone. *)
LEMMA ReturnKeepsInv ==
    ASSUME SearchInv, ReturnCone \/ GetFwdConeAsNodes \/ GetFwdConeAsLinks
    PROVE  SearchInv' /\ AnswerInv' /\ UNCHANGED query
<1>1. /\ UNCHANGED <<I, query, left, right, solutions>> /\ job' = "done" /\ job = "cone"
      /\ query.kind # "paths"
  BY DEF ReturnCone, GetFwdConeAsNodes, GetFwdConeAsLinks, Answer, waveVars, SearchInv
<1>2. WaveInv' BY <1>1, QueryStays DEF WaveInv, SearchInv
<1>3. SearchInv' BY <1>1, <1>2 DEF SearchInv, EnumInv
<1>4. ASSUME query.kind = "cone" PROVE answer' \in Seq(Found(query.starts, LeftTypes, LeftArrows))
  <2>1. ReturnCone BY <1>4 DEF GetFwdConeAsNodes, GetFwdConeAsLinks
  <2>2. answer' = IF query.sorted THEN sortPathsByLength(found) ELSE found
    BY <2>1 DEF ReturnCone, Answer
  <2>3. found \in Seq(Found(query.starts, LeftTypes, LeftArrows))
    BY <1>1 DEF SearchInv, EnumInv, EnumFound
  <2>4. query \in Queries BY DEF SearchInv
  <2> QED BY <2>2, <2>3, <2>4, SortedAreFound
<1>5. AnswerInv' BY <1>1, <1>4, QueryStays DEF AnswerInv
<1> QED BY <1>1, <1>3, <1>5

(* Every meeting of the waves is sound. *)
LEMMA MeetingsAreSound ==
    ASSUME SearchInv, query.kind = "paths"
    PROVE  \A pair \in NodesOverlap : SpliceSound(Splice(pair))
<1> SUFFICES ASSUME NEW pair \in NodesOverlap PROVE SpliceSound(Splice(pair)) OBVIOUS
<1>1. I \in Graphs /\ query \in Queries BY DEF SearchInv
<1>2. /\ left \in Seq(Found(query.starts, LeftTypes, LeftArrows))
      /\ right \in Seq(Found(query.ends, RightTypes, RightArrows))
  BY DEF SearchInv, WaveInv
<1>3. pair[1] \in DOMAIN left /\ pair[2] \in DOMAIN right /\ Tip(left[pair[1]]) = Tip(right[pair[2]])
  BY DEF NodesOverlap
<1>4. PICK L \in Found(query.starts, LeftTypes, LeftArrows) : L = left[pair[1]] BY <1>2, <1>3
<1>5. PICK R \in Found(query.ends, RightTypes, RightArrows) : R = right[pair[2]] BY <1>2, <1>3
<1>6. /\ LeftTypes \in Seq(STTypes) /\ LeftTypes # <<>>
      /\ RightTypes \in Seq(STTypes) /\ RightTypes # <<>>
  BY <1>1, SearchTypes
<1>7. PICK s \in ToSet(query.starts), f \in BOOLEAN : Walk(L, s, Ranges(LeftTypes, f), LeftArrows)
  BY DEF Found
<1>8. PICK e \in ToSet(query.ends), g \in BOOLEAN : Walk(R, e, Ranges(RightTypes, g), RightArrows)
  BY DEF Found
<1>9. Walk(L, s, LeftTypes, LeftArrows) /\ Walk(R, e, RightTypes, RightArrows)
  BY <1>6, <1>7, <1>8, RangesTypes
<1>10. SpliceSound(L \o Tail(AdjointLinkPath(R))) BY <1>1, <1>3, <1>4, <1>5, <1>9, SpliceIsSound
<1> QED BY <1>4, <1>5, <1>10 DEF Splice

LEMMA PrimingKeepsInv ==
    ASSUME SearchInv, PrimeLeft \/ PrimeRight
    PROVE  SearchInv' /\ AnswerInv' /\ UNCHANGED query
<1>1. UNCHANGED <<I, query, solutions>> /\ query.kind = "paths"
  BY DEF PrimeLeft, PrimeRight, SearchInv
<1>2. query \in Queries BY DEF SearchInv
<1>3. CASE PrimeLeft
  <2>1. /\ job = "left" /\ job' = "right" /\ left' = found /\ right' = right
        /\ todo' = Calls(query.ends, "fwd") /\ stack' = <<>> /\ found' = <<>>
    BY <1>3 DEF PrimeLeft
  <2>2. found \in Seq(Found(query.starts, LeftTypes, LeftArrows))
    BY <2>1 DEF SearchInv, EnumInv, EnumFound
  <2>3. todo' \in Seq(Frames(query.ends, RightTypes, RightArrows))
    <3>1. query.ends \in Seq(NodePtrs) BY <1>2, QueryIs
    <3> QED BY <2>1, <3>1, CallsAreFrames
  <2>4. WaveInv' BY <1>1, <2>1, <2>2, QueryStays DEF WaveInv, SearchInv
  <2>5. EnumInv' BY <1>1, <2>1, <2>3, QueryStays DEF EnumInv, EnumFrames, EnumFound
  <2> QED BY <1>1, <2>1, <2>4, <2>5 DEF SearchInv, AnswerInv
<1>4. CASE PrimeRight
  <2>1. job = "right" /\ job' = "waves" /\ left' = left /\ right' = found
    BY <1>4 DEF PrimeRight
  <2>2. found \in Seq(Found(query.ends, RightTypes, RightArrows))
    BY <2>1 DEF SearchInv, EnumInv, EnumFound
  <2>3. WaveInv' BY <1>1, <2>1, <2>2, QueryStays DEF WaveInv, SearchInv
  <2> QED BY <1>1, <2>1, <2>3 DEF SearchInv, AnswerInv, EnumInv
<1> QED BY <1>1, <1>3, <1>4

LEMMA WavesKeepInv ==
    ASSUME SearchInv, ReturnSolutions \/ ReturnLoops \/ ExpandLeft \/ ExpandRight \/ GiveUp
    PROVE  SearchInv' /\ AnswerInv' /\ UNCHANGED query
<1>1. UNCHANGED <<I, query>> /\ job = "waves" /\ query.kind = "paths"
  BY DEF ReturnSolutions, ReturnLoops, ExpandLeft, ExpandRight, GiveUp, InRange, SearchInv
<1>2. I \in Graphs /\ query \in Queries BY DEF SearchInv
<1>3. query.starts \in Seq(NodePtrs) /\ query.ends \in Seq(NodePtrs) BY <1>2, QueryIs
<1>4. /\ \A p \in Splices(DagPairs) : SpliceSound(p)
      /\ \A p \in Splices(LoopPairs) : SpliceSound(p)
  BY <1>1, MeetingsAreSound DEF Splices, DagPairs, LoopPairs
<1>5. \A p \in solutions : SpliceSound(p) BY <1>1 DEF SearchInv, WaveInv
<1>6. /\ left \in Seq(Found(query.starts, LeftTypes, LeftArrows))
      /\ right \in Seq(Found(query.ends, RightTypes, RightArrows))
  BY DEF SearchInv, WaveInv
<1>7. /\ LeftTypes \in Seq(STTypes) /\ LeftTypes # <<>>
      /\ RightTypes \in Seq(STTypes) /\ RightTypes # <<>>
  BY <1>1, <1>2, SearchTypes
<1>8. CASE ReturnSolutions
  <2>1. /\ solutions' = Splices(DagPairs) /\ answer' = Splices(DagPairs) /\ job' = "done"
        /\ UNCHANGED <<left, right>>
    BY <1>8 DEF ReturnSolutions, Answer
  <2>2. WaveInv' BY <1>1, <1>4, <1>6, <2>1, QueryStays DEF WaveInv
  <2>3. AnswerInv' BY <1>1, <1>4, <2>1, QueryStays DEF AnswerInv
  <2> QED BY <1>1, <1>2, <2>1, <2>2, <2>3 DEF SearchInv, EnumInv
<1>9. CASE ReturnLoops
  <2>1. /\ solutions' = Splices(DagPairs) /\ answer' = Splices(LoopPairs) /\ job' = "done"
        /\ UNCHANGED <<left, right>>
    BY <1>9 DEF ReturnLoops, Answer
  <2>2. WaveInv' BY <1>1, <1>4, <1>6, <2>1, QueryStays DEF WaveInv
  <2>3. AnswerInv' BY <1>1, <1>4, <2>1, QueryStays DEF AnswerInv
  <2> QED BY <1>1, <1>2, <2>1, <2>2, <2>3 DEF SearchInv, EnumInv
<1>10. CASE ExpandLeft
  <2>1. /\ solutions' = Splices(DagPairs) /\ job' = job /\ right' = right
        /\ left' = IncConstraintConeLinks(left, LeftTypes, LeftArrows)
    BY <1>10 DEF ExpandLeft
  <2>2. left' \in Seq(Found(query.starts, LeftTypes, LeftArrows))
    BY <1>2, <1>3, <1>6, <1>7, <2>1, WaveGrows
  <2>3. WaveInv' BY <1>1, <1>4, <1>6, <2>1, <2>2, QueryStays DEF WaveInv
  <2> QED BY <1>1, <1>2, <2>1, <2>3 DEF SearchInv, EnumInv, AnswerInv
<1>11. CASE ExpandRight
  <2>1. /\ solutions' = Splices(DagPairs) /\ job' = job /\ left' = left
        /\ right' = IncConstraintConeLinks(right, RightTypes, RightArrows)
    BY <1>11 DEF ExpandRight
  <2>2. right' \in Seq(Found(query.ends, RightTypes, RightArrows))
    BY <1>2, <1>3, <1>6, <1>7, <2>1, WaveGrows
  <2>3. WaveInv' BY <1>1, <1>4, <1>6, <2>1, <2>2, QueryStays DEF WaveInv
  <2> QED BY <1>1, <1>2, <2>1, <2>3 DEF SearchInv, EnumInv, AnswerInv
<1>12. CASE GiveUp
  <2>1. answer' = solutions /\ job' = "done" /\ UNCHANGED <<left, right, solutions>>
    BY <1>12 DEF GiveUp, Answer, waveVars
  <2>2. WaveInv' BY <1>1, <1>5, <1>6, <2>1, QueryStays DEF WaveInv
  <2>3. AnswerInv' BY <1>1, <1>5, <2>1, QueryStays DEF AnswerInv
  <2> QED BY <1>1, <1>2, <2>1, <2>2, <2>3 DEF SearchInv, EnumInv
<1> QED BY <1>1, <1>8, <1>9, <1>10, <1>11, <1>12

(* A step outside the search. *)
LEMMA SearchUnchanged ==
    ASSUME SearchInv, UNCHANGED <<I, query, job, todo, stack, found, waveVars>>
    PROVE  SearchInv' /\ (AnswerInv /\ answer' = answer => AnswerInv')
<1>1. UNCHANGED <<I, query, job, todo, stack, found, left, right, solutions>> BY DEF waveVars
<1>2. UNCHANGED <<EnumFrames, EnumFound>> BY <1>1, QueryStays DEF EnumFrames, EnumFound
<1>3. EnumInv' BY <1>1, <1>2 DEF EnumInv, SearchInv
<1>4. WaveInv' BY <1>1, QueryStays DEF WaveInv, SearchInv
<1>5. AnswerInv /\ answer' = answer => AnswerInv' BY <1>1, QueryStays DEF AnswerInv
<1> QED BY <1>1, <1>3, <1>4, <1>5 DEF SearchInv

(* The inductive invariant of every search. *)
LEMMA SearchInvariant == PathsSpec => [](SearchInv /\ AnswerInv)
<1>1. PathsInit => SearchInv /\ AnswerInv BY InitSearchInv
<1>2. SearchInv /\ AnswerInv /\ [PathsNext]_pathVars => (SearchInv /\ AnswerInv)'
  <2> SUFFICES ASSUME SearchInv, AnswerInv, [PathsNext]_pathVars PROVE (SearchInv /\ AnswerInv)'
    OBVIOUS
  <2>1. CASE UNCHANGED pathVars BY <2>1, SearchUnchanged DEF pathVars, waveVars
  <2>2. CASE enumeratePaths \/ StopAtDepth \/ Expand \/ EmitLeaf BY <2>2, EnumerationKeepsInv
  <2>3. CASE ReturnCone \/ GetFwdConeAsNodes \/ GetFwdConeAsLinks BY <2>3, ReturnKeepsInv
  <2>4. CASE PrimeLeft \/ PrimeRight BY <2>4, PrimingKeepsInv
  <2>5. CASE ReturnSolutions \/ ReturnLoops \/ ExpandLeft \/ ExpandRight \/ GiveUp
    BY <2>5, WavesKeepInv
  <2> QED BY <2>1, <2>2, <2>3, <2>4, <2>5 DEF PathsNext
<1> QED BY <1>1, <1>2, PTL DEF PathsSpec

(* The answers of GetPathsAndSymmetries run from a start to an end along   *)
(* stored links, the last of them backwards and with the inverse arrows,   *)
(* in every graph: also where a link was inferred and has no inverse.      *)
THEOREM WavesSpliceWalks == PathsSpec => []SplicesAreWalks
<1>1. AnswerInv => SplicesAreWalks
  BY DEF AnswerInv, SplicesAreWalks, SpliceSound, Follows, TurnsBack
<1> QED BY <1>1, SearchInvariant, PTL

-----------------------------------------------------------------------------
(* Super nodes. *)

(* Group i of a matroid takes in a pair. *)
Widened(matroid, i, pair) == [matroid EXCEPT ![i] = matroid[i] \cup pair]

LEMMA TogetherIs ==
    ASSUME NEW S, NEW matroid \in Seq(SUBSET S), NEW pair \in SUBSET S
    PROVE  /\ Together(matroid, pair) \in Seq(SUBSET S)
           /\ \/ Together(matroid, pair) = Append(matroid, pair)
              \/ \E i \in 1 .. Len(matroid) :
                    /\ matroid[i] \cap pair # {}
                    /\ Together(matroid, pair) = Widened(matroid, i, pair)
<1> DEFINE hits == {i \in DOMAIN matroid : matroid[i] \cap pair # {}}
           first == CHOOSE i \in hits : \A j \in hits : i <= j
<1>1. DOMAIN matroid = 1 .. Len(matroid) /\ Len(matroid) \in Nat OBVIOUS
<1>2. Together(matroid, pair) = IF hits = {} THEN Append(matroid, pair)
                                ELSE [matroid EXCEPT ![first] = @ \cup pair]
  BY DEF Together
<1>3. CASE hits = {}
  <2>1. Together(matroid, pair) = Append(matroid, pair) BY <1>2, <1>3
  <2> HIDE DEF hits, first
  <2> QED BY <2>1
<1>4. CASE hits # {}
  <2>1. hits \in SUBSET Nat /\ hits \subseteq 1 .. Len(matroid) BY <1>1
  <2>2. \E i \in hits : \A j \in hits : i <= j
    <3> HIDE DEF hits
    <3> QED BY <1>4, <2>1, LeastNatural
  <2>3. first \in hits BY <2>2
  <2>4. PICK i \in 1 .. Len(matroid) : i = first BY <2>1, <2>3
  <2>5. matroid[i] \cap pair # {} BY <2>3, <2>4
  <2> HIDE DEF hits, first
  <2>6. Together(matroid, pair) = Widened(matroid, i, pair) BY <1>2, <1>4, <2>4 DEF Widened
  <2>7. Widened(matroid, i, pair) \in Seq(SUBSET S)
    <3>1. matroid[i] \cup pair \in SUBSET S OBVIOUS
    <3> QED BY <3>1 DEF Widened
  <2> QED BY <2>5, <2>6, <2>7
<1> QED BY <1>3, <1>4

(* The fold of the grouping as a run. *)
LEMMA TogetherRun ==
    ASSUME NEW S, NEW calls \in Seq(SUBSET S)
    PROVE  \E r \in [0 .. Len(calls) -> Seq(SUBSET S)] :
               /\ r[0] = <<>>
               /\ \A k \in 1 .. Len(calls) : r[k] = Together(r[k - 1], calls[k])
               /\ r[Len(calls)] = FoldLeft(Together, <<>>, calls)
<1> DEFINE n == Len(calls)
           X == Seq(SUBSET S)
           F == [x \in X \X (1 .. n) |-> Together(x[1], calls[x[2]])]
           Def(g) == g = [s \in SUBSET DOMAIN calls |->
                            IF s = {} THEN <<>> ELSE LET x == Max(s) IN Together(g[s \ {x}], calls[x])]
           iter == CHOOSE g : Def(g)
           r == [k \in 0 .. n |-> iter[1 .. k]]
<1>1. FoldLeft(Together, <<>>, calls) = iter[DOMAIN calls] BY Zenon DEF FoldLeft, MapThenFoldSet
<1>2. DOMAIN calls = 1 .. n /\ n \in Nat /\ \A k \in 1 .. n : calls[k] \in SUBSET S OBVIOUS
<1>3. <<>> \in X /\ F \in [X \X (1 .. n) -> X]
  <2>1. \A m \in X, k \in 1 .. n : Together(m, calls[k]) \in X BY <1>2, TogetherIs
  <2> HIDE DEF n
  <2>2. <<>> \in X OBVIOUS
  <2> HIDE DEF X
  <2> QED BY <2>1, <2>2
<1> HIDE DEF n
<1>4. \A m \in X, k \in 1 .. n : F[m, k] = Together(m, calls[k]) OBVIOUS
<1> HIDE DEF F, X
<1>5. PICK g \in [SUBSET (1 .. n) -> X] : IsFold(g, <<>>, n, F) BY <1>2, <1>3, FoldExists
<1>6. Def(g)
  <2>1. ASSUME NEW s \in SUBSET (1 .. n), s # {}
        PROVE  g[s] = Together(g[s \ {Max(s)}], calls[Max(s)])
    <3>1. g[s] = F[g[s \ {Max(s)}], Max(s)] BY <1>5, <2>1 DEF IsFold
    <3>2. s \ {Max(s)} \in SUBSET (1 .. n) /\ Max(s) \in 1 .. n BY <1>2, <2>1, GreatestExists
    <3>3. g[s \ {Max(s)}] \in X BY <1>5, <3>2
    <3> QED BY <1>4, <3>1, <3>2, <3>3
  <2>2. {} \in SUBSET (1 .. n) /\ g[{}] = <<>> BY <1>5 DEF IsFold
  <2> QED BY <1>2, <1>5, <2>1, <2>2
<1>7. Def(iter)
  <2> HIDE DEF Def
  <2> QED BY <1>6
<1>8. \A s \in SUBSET (1 .. n) : iter[s] = IF s = {} THEN <<>> ELSE Together(iter[s \ {Max(s)}], calls[Max(s)])
  <2> HIDE DEF iter
  <2> QED BY <1>2, <1>7
<1> HIDE DEF iter, Def
<1>9. r[0] = <<>> /\ r[n] = iter[1 .. n]
  <2>1. 1 .. 0 = {} /\ {} \in SUBSET (1 .. n) OBVIOUS
  <2>2. iter[{}] = <<>> BY <1>8, <2>1
  <2>3. 0 \in 0 .. n /\ n \in 0 .. n BY <1>2
  <2> QED BY <2>1, <2>2, <2>3
<1>10. ASSUME NEW k \in 1 .. n PROVE r[k] = Together(r[k - 1], calls[k])
  <2>1. 1 .. k \in SUBSET (1 .. n) /\ 1 .. k # {} /\ Max(1 .. k) = k
          /\ (1 .. k) \ {k} = 1 .. (k - 1)
    BY <1>2, Intervals
  <2>2. iter[1 .. k] = Together(iter[1 .. (k - 1)], calls[k]) BY <1>8, <2>1
  <2>3. k \in 0 .. n /\ k - 1 \in 0 .. n BY <1>2
  <2> QED BY <2>2, <2>3
<1>11. \A k \in 0 .. n : r[k] \in X
  <2> DEFINE T == {k \in 0 .. n : r[k] \in X}
  <2>1. 0 \in T BY <1>2, <1>3, <1>9
  <2>2. ASSUME NEW k \in 1 .. n, k - 1 \in T PROVE k \in T
    <3>1. r[k - 1] \in X BY <2>2
    <3>2. Together(r[k - 1], calls[k]) \in X BY <1>2, <3>1, TogetherIs DEF X
    <3>3. k \in 0 .. n BY <1>2
    <3> HIDE DEF r
    <3> QED BY <1>10, <3>2, <3>3
  <2>3. T \in SUBSET (0 .. n) OBVIOUS
  <2>4. T = 0 .. n
    <3> HIDE DEF T
    <3> QED BY <1>2, <2>1, <2>2, <2>3, InductionOnSteps
  <2> QED BY <2>4
<1>12. r \in [0 .. n -> X] BY <1>11
<1> HIDE DEF r
<1> QED BY <1>1, <1>2, <1>9, <1>10, <1>12 DEF X, n

(* Every part of g has a neighbour in the rest. *)
Joined(g, E) == \A part \in (SUBSET g) \ {{}, g} : \E m \in part, n \in g \ part : <<m, n>> \in E

LEMMA JoinedUnion ==
    ASSUME NEW E, NEW g, NEW h, Joined(g, E), Joined(h, E), g \cap h # {}
    PROVE  Joined(g \cup h, E)
<1> SUFFICES ASSUME NEW part \in (SUBSET (g \cup h)) \ {{}, g \cup h}
             PROVE  \E m \in part, n \in (g \cup h) \ part : <<m, n>> \in E
  BY DEF Joined
<1>1. CASE part \cap g \in (SUBSET g) \ {{}, g}
  <2>1. PICK m \in part \cap g, n \in g \ (part \cap g) : <<m, n>> \in E BY <1>1 DEF Joined
  <2> QED BY <2>1
<1>2. CASE part \cap h \in (SUBSET h) \ {{}, h}
  <2>1. PICK m \in part \cap h, n \in h \ (part \cap h) : <<m, n>> \in E BY <1>2 DEF Joined
  <2> QED BY <2>1
<1>3. CASE part \cap g \in {{}, g} /\ part \cap h \in {{}, h}
  <2>1. PICK x : x \in g /\ x \in h OBVIOUS
  <2>2. CASE x \in part
    <3>1. part \cap g = g /\ part \cap h = h BY <1>3, <2>1, <2>2
    <3> QED BY <3>1
  <2>3. CASE x \notin part
    <3>1. part \cap g = {} /\ part \cap h = {} BY <1>3, <2>1, <2>3
    <3> QED BY <3>1
  <2> QED BY <2>2, <2>3
<1> QED BY <1>1, <1>2, <1>3

(* What a fold of Together has grouped. *)
Grouped(matroid, pairs, E) ==
    /\ \A x : (\E g \in ToSet(matroid) : x \in g) <=> \E c \in pairs : x \in c
    /\ \A g \in ToSet(matroid) : Joined(g, E)
    /\ \A c \in pairs : \E g \in ToSet(matroid) : c \subseteq g

LEMMA TogetherGroups ==
    ASSUME NEW S, NEW E, NEW matroid \in Seq(SUBSET S), NEW pairs, NEW pair \in SUBSET S,
           Grouped(matroid, pairs, E), Joined(pair, E)
    PROVE  Grouped(Together(matroid, pair), pairs \cup {pair}, E)
<1> DEFINE new == Together(matroid, pair)
<1>0. DOMAIN matroid = 1 .. Len(matroid) /\ Len(matroid) \in Nat OBVIOUS
<1>1. CASE new = Append(matroid, pair)
  <2>1. ToSet(new) = ToSet(matroid) \cup {pair}
    <3>1. /\ DOMAIN Append(matroid, pair) = 1 .. (Len(matroid) + 1)
          /\ \A i \in 1 .. (Len(matroid) + 1) :
                Append(matroid, pair)[i] = IF i = Len(matroid) + 1 THEN pair ELSE matroid[i]
      OBVIOUS
    <3>2. \A i \in 1 .. (Len(matroid) + 1) : i = Len(matroid) + 1 \/ i \in 1 .. Len(matroid) BY <1>0
    <3>3. \A i \in 1 .. Len(matroid) : i \in 1 .. (Len(matroid) + 1) /\ i # Len(matroid) + 1 BY <1>0
    <3>4. Len(matroid) + 1 \in 1 .. (Len(matroid) + 1) BY <1>0
    <3> HIDE DEF new
    <3> QED BY <1>0, <1>1, <3>1, <3>2, <3>3, <3>4 DEF ToSet
  <2> HIDE DEF new
  <2> QED BY <2>1 DEF Grouped, new
<1>2. CASE \E i \in 1 .. Len(matroid) : /\ matroid[i] \cap pair # {}
                                        /\ new = Widened(matroid, i, pair)
  <2>1. PICK i \in 1 .. Len(matroid) : /\ matroid[i] \cap pair # {}
                                       /\ new = Widened(matroid, i, pair)
    BY <1>2
  <2> HIDE DEF new
  <2>2. /\ DOMAIN new = 1 .. Len(matroid)
        /\ \A j \in 1 .. Len(matroid) : new[j] = IF j = i THEN matroid[i] \cup pair ELSE matroid[j]
    BY <1>0, <2>1 DEF Widened
  <2>3. matroid[i] \in ToSet(matroid) BY <1>0 DEF ToSet
  <2>4. Joined(matroid[i] \cup pair, E) BY <2>1, <2>3, JoinedUnion DEF Grouped
  <2>5. \A g \in ToSet(new) : g = matroid[i] \cup pair \/ g \in ToSet(matroid)
    BY <1>0, <2>2 DEF ToSet
  <2>6. matroid[i] \cup pair \in ToSet(new) BY <2>2 DEF ToSet
  <2>7. \A g \in ToSet(matroid) : \E h \in ToSet(new) : g \subseteq h
    <3> SUFFICES ASSUME NEW j \in 1 .. Len(matroid) PROVE \E h \in ToSet(new) : matroid[j] \subseteq h
      BY <1>0 DEF ToSet
    <3>1. new[j] \in ToSet(new) BY <2>2 DEF ToSet
    <3>2. matroid[j] \subseteq new[j] BY <2>2
    <3> QED BY <3>1, <3>2
  <2>8. \A x : (\E g \in ToSet(new) : x \in g) <=> (\E g \in ToSet(matroid) : x \in g) \/ x \in pair
    <3> SUFFICES ASSUME NEW x
                 PROVE (\E g \in ToSet(new) : x \in g) <=> (\E g \in ToSet(matroid) : x \in g) \/ x \in pair
      OBVIOUS
    <3>1. ASSUME NEW g \in ToSet(new), x \in g PROVE (\E h \in ToSet(matroid) : x \in h) \/ x \in pair
      BY <2>3, <2>5, <3>1
    <3>2. ASSUME NEW g \in ToSet(matroid), x \in g PROVE \E h \in ToSet(new) : x \in h
      BY <2>7, <3>2
    <3>3. x \in pair => \E h \in ToSet(new) : x \in h BY <2>6
    <3> QED BY <3>1, <3>2, <3>3
  <2>9. \A x : (\E g \in ToSet(new) : x \in g) <=> \E c \in pairs \cup {pair} : x \in c
    BY <2>8 DEF Grouped
  <2>10. \A g \in ToSet(new) : Joined(g, E) BY <2>4, <2>5 DEF Grouped
  <2>11. \A c \in pairs \cup {pair} : \E g \in ToSet(new) : c \subseteq g
    <3>1. ASSUME NEW c \in pairs PROVE \E g \in ToSet(new) : c \subseteq g
      <4>1. PICK g \in ToSet(matroid) : c \subseteq g BY DEF Grouped
      <4>2. PICK h \in ToSet(new) : g \subseteq h BY <2>7
      <4> QED BY <4>1, <4>2
    <3>2. \E g \in ToSet(new) : pair \subseteq g BY <2>6
    <3> QED BY <3>1, <3>2
  <2> QED BY <2>9, <2>10, <2>11 DEF Grouped, new
<1>3. \/ new = Append(matroid, pair)
      \/ \E i \in 1 .. Len(matroid) : /\ matroid[i] \cap pair # {}
                                      /\ new = Widened(matroid, i, pair)
  BY TogetherIs
<1> QED BY <1>1, <1>2, <1>3

LEMMA AllGrouped ==
    ASSUME NEW S, NEW E, NEW calls \in Seq(SUBSET S), \A k \in 1 .. Len(calls) : Joined(calls[k], E)
    PROVE  Grouped(FoldLeft(Together, <<>>, calls), {calls[k] : k \in 1 .. Len(calls)}, E)
<1> DEFINE n == Len(calls)
           P(k) == {calls[j] : j \in 1 .. k}
<1>1. n \in Nat OBVIOUS
<1>2. PICK r \in [0 .. n -> Seq(SUBSET S)] :
               /\ r[0] = <<>>
               /\ \A k \in 1 .. n : r[k] = Together(r[k - 1], calls[k])
               /\ r[n] = FoldLeft(Together, <<>>, calls)
  BY TogetherRun
<1> DEFINE T == {k \in 0 .. n : Grouped(r[k], P(k), E)}
<1>3. 0 \in T
  <2>1. P(0) = {} OBVIOUS
  <2>2. ToSet(<<>>) = {} BY DEF ToSet
  <2>3. Grouped(r[0], P(0), E)
    <3> HIDE DEF P
    <3> QED BY <1>2, <2>1, <2>2 DEF Grouped
  <2> QED BY <1>1, <2>3
<1>4. ASSUME NEW k \in 1 .. n, k - 1 \in T PROVE k \in T
  <2>1. P(k) = P(k - 1) \cup {calls[k]}
    <3>1. \A j \in 1 .. k : j = k \/ j \in 1 .. (k - 1) OBVIOUS
    <3>2. \A j \in 1 .. (k - 1) : j \in 1 .. k OBVIOUS
    <3>3. k \in 1 .. k OBVIOUS
    <3> QED BY <3>1, <3>2, <3>3
  <2>2. k - 1 \in 0 .. n /\ k \in 0 .. n BY <1>1
  <2>3. r[k - 1] \in Seq(SUBSET S) /\ calls[k] \in SUBSET S
    <3>1. calls[k] \in SUBSET S OBVIOUS
    <3> HIDE DEF n
    <3> QED BY <2>2, <3>1
  <2>4. Grouped(r[k - 1], P(k - 1), E) BY <1>4
  <2>5. Joined(calls[k], E) OBVIOUS
  <2> HIDE DEF P, T, n
  <2>6. Grouped(Together(r[k - 1], calls[k]), P(k - 1) \cup {calls[k]}, E)
    BY <2>3, <2>4, <2>5, TogetherGroups
  <2>7. Grouped(r[k], P(k), E) BY <1>2, <2>1, <2>6
  <2> QED BY <2>2, <2>7 DEF T
<1>5. T \in SUBSET (0 .. n) OBVIOUS
<1>6. T = 0 .. n
  <2> HIDE DEF T, n
  <2> QED BY <1>1, <1>3, <1>4, <1>5, InductionOnSteps
<1>7. n \in T BY <1>1, <1>6
<1>8. Grouped(r[n], P(n), E) BY <1>7
<1> QED BY <1>2, <1>8, Zenon

(* The node of path p at a depth, and what Together is called with for the *)
(* paths p and q at a depth.                                               *)
At(sols, p, depth) == sols[p][depth + 1].dst
Swapped(sols, p, q, depth) ==
    /\ depth >= 1 /\ depth <= Len(sols[q]) - 2 /\ depth <= Len(sols[p]) - 2
    /\ At(sols, p, depth - 1) = At(sols, q, depth - 1)
    /\ At(sols, p, depth + 1) = At(sols, q, depth + 1)
PairAt(sols, p, q, depth) ==
    IF Swapped(sols, p, q, depth) THEN {At(sols, p, depth), At(sols, q, depth)} ELSE {At(sols, p, depth)}
Row(sols, p, depth) ==
    IF depth > Len(sols[p]) - 1 THEN <<>>
    ELSE <<{At(sols, p, depth)}>> \o [k \in 1 .. (Len(sols) - p) |-> PairAt(sols, p, p + k, depth)]

LEMMA RowElements ==
    ASSUME NEW m \in Nat, NEW sols \in Seq(Seq(Link)), \A p \in 1 .. Len(sols) : Len(sols[p]) = m,
           NEW p \in 1 .. Len(sols), NEW depth \in Nat
    PROVE  /\ Row(sols, p, depth) \in Seq(SUBSET NodePtrs)
           /\ \A c : Holds(Row(sols, p, depth), c) <=>
                  /\ depth < m
                  /\ c = {At(sols, p, depth)} \/ \E q \in (p + 1) .. Len(sols) : c = PairAt(sols, p, q, depth)
<1>0. Len(sols) \in Nat /\ Len(sols[p]) = m OBVIOUS
<1>1. CASE ~(depth < m)
  <2>1. Row(sols, p, depth) = <<>> BY <1>0, <1>1 DEF Row
  <2> QED BY <1>1, <2>1 DEF Holds
<1>2. CASE depth < m
  <2> DEFINE head == <<{At(sols, p, depth)}>>
             tail == [k \in 1 .. (Len(sols) - p) |-> PairAt(sols, p, p + k, depth)]
             N == SUBSET NodePtrs
  <2>1. Row(sols, p, depth) = head \o tail BY <1>0, <1>2 DEF Row
  <2>2. ASSUME NEW q \in 1 .. Len(sols) PROVE At(sols, q, depth) \in NodePtrs
    <3>1. depth + 1 \in 1 .. m /\ Len(sols[q]) = m /\ sols[q] \in Seq(Link) BY <1>2
    <3>2. sols[q][depth + 1] \in Link BY <3>1
    <3> QED BY <3>2 DEF At, Link
  <2>3. \A q \in 1 .. Len(sols) : PairAt(sols, p, q, depth) \in N BY <2>2 DEF PairAt
  <2>4. head \in Seq(N) /\ \A c : Holds(head, c) <=> c = {At(sols, p, depth)}
    <3>1. PICK x \in N : x = {At(sols, p, depth)} BY <2>2
    <3>2. <<x>> \in Seq(N) /\ Len(<<x>>) = 1 /\ <<x>>[1] = x OBVIOUS
    <3>3. head = <<x>> BY <3>1
    <3> HIDE DEF head, N
    <3>4. \A c : Holds(head, c) <=> c = x BY <3>2, <3>3 DEF Holds
    <3> QED BY <3>1, <3>2, <3>3, <3>4
  <2>5. Len(sols) - p \in Nat BY <1>0
  <2>6. ASSUME NEW k \in 1 .. (Len(sols) - p) PROVE PairAt(sols, p, p + k, depth) \in N
    <3>1. p + k \in 1 .. Len(sols) BY <1>0
    <3> HIDE DEF N
    <3> QED BY <2>3, <3>1
  <2>7. tail \in Seq(N) /\ Len(tail) = Len(sols) - p
    <3>1. tail \in [1 .. (Len(sols) - p) -> N]
      <4> HIDE DEF N
      <4> QED BY <2>6
    <3> HIDE DEF tail, N
    <3> QED BY <2>5, <3>1, SequenceOf
  <2>8. \A c : Holds(tail, c) <=> \E q \in (p + 1) .. Len(sols) : c = PairAt(sols, p, q, depth)
    <3>1. \A k \in 1 .. (Len(sols) - p) :
             tail[k] = PairAt(sols, p, p + k, depth) /\ p + k \in (p + 1) .. Len(sols)
      BY <1>0
    <3>2. \A q \in (p + 1) .. Len(sols) : q - p \in 1 .. (Len(sols) - p) /\ p + (q - p) = q
      BY <1>0
    <3> HIDE DEF tail
    <3>3. ASSUME NEW c, Holds(tail, c) PROVE \E q \in (p + 1) .. Len(sols) : c = PairAt(sols, p, q, depth)
      BY <2>7, <3>1, <3>3 DEF Holds
    <3>4. ASSUME NEW q \in (p + 1) .. Len(sols) PROVE Holds(tail, PairAt(sols, p, q, depth))
      <4>1. PICK k \in 1 .. (Len(sols) - p) : k = q - p /\ p + k = q BY <3>2
      <4>2. tail[k] = PairAt(sols, p, q, depth) BY <3>1, <4>1
      <4> QED BY <2>7, <4>2 DEF Holds
    <3> QED BY <3>3, <3>4
  <2> HIDE DEF head, tail, N
  <2>9. Row(sols, p, depth) \in Seq(N)
          /\ \A c : Holds(Row(sols, p, depth), c) <=> Holds(head, c) \/ Holds(tail, c)
    BY <2>1, <2>4, <2>7, ConcatHolds
  <2> QED BY <1>2, <2>4, <2>8, <2>9 DEF N
<1> QED BY <1>1, <1>2

LEMMA CallsElements ==
    ASSUME NEW m \in Nat, NEW sols \in Seq(Seq(Link)), \A p \in 1 .. Len(sols) : Len(sols[p]) = m,
           NEW maxdepth \in Nat, m <= 2 * maxdepth
    PROVE  /\ TogetherCalls(sols, maxdepth) \in Seq(SUBSET NodePtrs)
           /\ \A c : Holds(TogetherCalls(sols, maxdepth), c) <=>
                  \E depth \in 0 .. (m - 1), p \in 1 .. Len(sols) :
                      c = {At(sols, p, depth)} \/ \E q \in (p + 1) .. Len(sols) : c = PairAt(sols, p, q, depth)
<1> DEFINE N == SUBSET NodePtrs
           rows(depth) == [p \in DOMAIN sols |-> Row(sols, p, depth)]
           all == [d \in 1 .. (2 * maxdepth) |-> FlattenSeq(rows(d - 1))]
<1>1. TogetherCalls(sols, maxdepth) = FlattenSeq(all)
  BY Zenon DEF TogetherCalls, Row, PairAt, Swapped, At
<1>2. DOMAIN sols = 1 .. Len(sols) /\ Len(sols) \in Nat OBVIOUS
<1>3. ASSUME NEW depth \in Nat
      PROVE  /\ FlattenSeq(rows(depth)) \in Seq(N)
             /\ \A c : Holds(FlattenSeq(rows(depth)), c) <=>
                    \E p \in 1 .. Len(sols) : Holds(Row(sols, p, depth), c)
  <2>1. \A p \in 1 .. Len(sols) : Row(sols, p, depth) \in Seq(N) BY RowElements
  <2>2. \A p \in 1 .. Len(sols) : rows(depth)[p] = Row(sols, p, depth) BY <1>2
  <2>3. rows(depth) \in Seq(Seq(N)) /\ Len(rows(depth)) = Len(sols)
    <3> HIDE DEF N
    <3>1. rows(depth) \in [1 .. Len(sols) -> Seq(N)] BY <1>2, <2>1
    <3> HIDE DEF rows
    <3> QED BY <1>2, <3>1, SequenceOf
  <2> HIDE DEF rows, N
  <2> QED BY <2>2, <2>3, FlattenElements
<1>4. 2 * maxdepth \in Nat /\ \A d \in 1 .. (2 * maxdepth) : d - 1 \in Nat OBVIOUS
<1>5. \A d \in 1 .. (2 * maxdepth) : all[d] = FlattenSeq(rows(d - 1)) OBVIOUS
<1>6. all \in Seq(Seq(N)) /\ Len(all) = 2 * maxdepth
  <2> HIDE DEF N, rows
  <2>1. all \in [1 .. (2 * maxdepth) -> Seq(N)] BY <1>3, <1>4
  <2> HIDE DEF all
  <2> QED BY <1>4, <2>1, SequenceOf
<1> HIDE DEF all, N, rows
<1>7. /\ FlattenSeq(all) \in Seq(N)
      /\ \A c : Holds(FlattenSeq(all), c) <=> \E d \in 1 .. (2 * maxdepth) : Holds(all[d], c)
  BY <1>6, FlattenElements
<1> DEFINE Called(c, depth, p) ==
               c = {At(sols, p, depth)} \/ \E q \in (p + 1) .. Len(sols) : c = PairAt(sols, p, q, depth)
<1>8. \A depth \in Nat, p \in 1 .. Len(sols) : \A c :
         Holds(Row(sols, p, depth), c) <=> depth < m /\ Called(c, depth, p)
  BY RowElements
<1> HIDE DEF Called
<1>9. ASSUME NEW c, Holds(FlattenSeq(all), c)
      PROVE  \E depth \in 0 .. (m - 1), p \in 1 .. Len(sols) : Called(c, depth, p)
  <2>1. PICK d \in 1 .. (2 * maxdepth) : Holds(all[d], c) BY <1>7, <1>9
  <2>2. PICK depth \in Nat : depth = d - 1 BY <1>4
  <2>3. PICK p \in 1 .. Len(sols) : Holds(Row(sols, p, depth), c) BY <1>3, <1>5, <2>1, <2>2
  <2>4. depth < m /\ Called(c, depth, p) BY <1>8, <2>3
  <2>5. depth \in 0 .. (m - 1) BY <2>4
  <2> QED BY <2>4, <2>5
<1>10. ASSUME NEW depth \in 0 .. (m - 1), NEW p \in 1 .. Len(sols), NEW c, Called(c, depth, p)
       PROVE  Holds(FlattenSeq(all), c)
  <2>1. PICK d \in 1 .. (2 * maxdepth) : d = depth + 1
    <3>1. depth + 1 \in 1 .. (2 * maxdepth) OBVIOUS
    <3> QED BY <3>1
  <2>2. depth \in Nat /\ depth < m /\ d - 1 = depth BY <2>1
  <2>3. Holds(Row(sols, p, depth), c) BY <1>8, <1>10, <2>2
  <2>4. Holds(all[d], c) BY <1>3, <1>5, <2>2, <2>3
  <2> QED BY <1>7, <2>4
<1>11. \A c : Holds(FlattenSeq(all), c) <=>
                 \E depth \in 0 .. (m - 1), p \in 1 .. Len(sols) : Called(c, depth, p)
  BY <1>9, <1>10
<1> HIDE DEF rows
<1> QED BY <1>1, <1>7, <1>11 DEF Called, N

(* What SuperNodesExact says of one order of the solutions. *)
Exchanged(paths, m, n) ==
    \E p, q \in paths : \E i \in 2 .. (Len(p) - 1) :
        /\ p[i].dst = m /\ q[i].dst = n
        /\ p[i - 1].dst = q[i - 1].dst /\ p[i + 1].dst = q[i + 1].dst
Connected(paths, g) ==
    \A part \in (SUBSET g) \ {{}, g} : \E m \in part, n \in g \ part : Exchanged(paths, m, n)
SuperNodes(paths, groups) ==
    /\ UNION groups = UNION {Nodes(p) : p \in paths}
    /\ \A g \in groups : Connected(paths, g)
    /\ \A m, n \in UNION groups : Exchanged(paths, m, n) => \E g \in groups : {m, n} \subseteq g

LEMMA GroupsAreSuperNodes ==
    ASSUME NEW m \in Nat, NEW paths, NEW sols \in Seq(Seq(Link)), ToSet(sols) = paths,
           \A p \in paths : Len(p) = m,
           NEW maxdepth \in Nat, m <= 2 * maxdepth
    PROVE  SuperNodes(paths, ToSet(SuperNodesByConicPath(sols, maxdepth)))
<1> DEFINE calls == TogetherCalls(sols, maxdepth)
           groups == ToSet(SuperNodesByConicPath(sols, maxdepth))
           E == {mn \in NodePtrs \X NodePtrs : Exchanged(paths, mn[1], mn[2])}
           pairs == {calls[k] : k \in 1 .. Len(calls)}
<1>1. /\ \A p \in 1 .. Len(sols) : sols[p] \in paths /\ sols[p] \in Seq(Link) /\ Len(sols[p]) = m
      /\ \A w \in paths : \E p \in 1 .. Len(sols) : w = sols[p]
      /\ Len(sols) \in Nat
  BY DEF ToSet
<1>2. ASSUME NEW p \in 1 .. Len(sols), NEW depth \in 0 .. (m - 1)
      PROVE  /\ At(sols, p, depth) \in NodePtrs /\ At(sols, p, depth) \in Nodes(sols[p])
             /\ depth + 1 \in 1 .. m
  <2>1. depth + 1 \in 1 .. m OBVIOUS
  <2>2. sols[p][depth + 1] \in Link /\ DOMAIN sols[p] = 1 .. m BY <1>1, <2>1
  <2> QED BY <2>1, <2>2 DEF At, Nodes, Link
<1>3. ASSUME NEW p \in 1 .. Len(sols), NEW q \in 1 .. Len(sols), NEW depth \in 0 .. (m - 1),
             Swapped(sols, p, q, depth)
      PROVE  Exchanged(paths, At(sols, p, depth), At(sols, q, depth))
  <2>1. /\ depth >= 1 /\ depth <= m - 2
        /\ At(sols, p, depth - 1) = At(sols, q, depth - 1)
        /\ At(sols, p, depth + 1) = At(sols, q, depth + 1)
    BY <1>1, <1>3 DEF Swapped
  <2>2. PICK i \in 2 .. (m - 1) : i = depth + 1
    <3>1. depth + 1 \in 2 .. (m - 1) BY <2>1
    <3> QED BY <3>1
  <2>3. depth = i - 1 /\ (depth - 1) + 1 = i - 1 /\ (depth + 1) + 1 = i + 1 BY <2>2
  <2>4. PICK v \in paths, w \in paths : v = sols[p] /\ w = sols[q] BY <1>1
  <2>5. /\ At(sols, p, depth) = v[i].dst /\ At(sols, q, depth) = w[i].dst
        /\ v[i - 1].dst = w[i - 1].dst /\ v[i + 1].dst = w[i + 1].dst
    BY <2>1, <2>2, <2>3, <2>4 DEF At
  <2>6. i \in 2 .. (Len(v) - 1) BY <2>2, <2>4
  <2> QED BY <2>5, <2>6 DEF Exchanged
<1>4. ASSUME NEW p \in 1 .. Len(sols), NEW q \in 1 .. Len(sols), NEW depth \in 0 .. (m - 1),
             Swapped(sols, p, q, depth)
      PROVE  Swapped(sols, q, p, depth)
  BY <1>4 DEF Swapped
<1>5. ASSUME NEW x \in NodePtrs PROVE Joined({x}, E)
  <2>1. (SUBSET {x}) \ {{}, {x}} = {} OBVIOUS
  <2> QED BY <2>1 DEF Joined
<1>6. ASSUME NEW x \in NodePtrs, NEW y \in NodePtrs, Exchanged(paths, x, y), Exchanged(paths, y, x)
      PROVE  Joined({x, y}, E)
  <2> SUFFICES ASSUME NEW part \in (SUBSET {x, y}) \ {{}, {x, y}}
               PROVE  \E a \in part, b \in {x, y} \ part : <<a, b>> \in E
    BY DEF Joined
  <2>1. <<x, y>> \in E /\ <<y, x>> \in E
    <3>1. <<x, y>> \in NodePtrs \X NodePtrs /\ <<x, y>>[1] = x /\ <<x, y>>[2] = y OBVIOUS
    <3>2. <<y, x>> \in NodePtrs \X NodePtrs /\ <<y, x>>[1] = y /\ <<y, x>>[2] = x OBVIOUS
    <3> QED BY <1>6, <3>1, <3>2
  <2> HIDE DEF E
  <2>2. CASE x \in part /\ y \notin part BY <2>1, <2>2
  <2>3. CASE y \in part /\ x \notin part BY <2>1, <2>3
  <2>4. x \in part \/ y \in part OBVIOUS
  <2>5. ~(x \in part /\ y \in part) OBVIOUS
  <2> QED BY <2>2, <2>3, <2>4, <2>5
<1>7. calls \in Seq(SUBSET NodePtrs)
        /\ \A c : Holds(calls, c) <=>
               \E depth \in 0 .. (m - 1), p \in 1 .. Len(sols) :
                   c = {At(sols, p, depth)} \/ \E q \in (p + 1) .. Len(sols) : c = PairAt(sols, p, q, depth)
  BY <1>1, CallsElements
<1>8. \A c : c \in pairs <=> Holds(calls, c) BY DEF Holds
<1> HIDE DEF calls, pairs
<1>9. ASSUME NEW c \in pairs
      PROVE  Joined(c, E) /\ \A x \in c : \E w \in paths : x \in Nodes(w)
  <2>1. PICK depth \in 0 .. (m - 1), p \in 1 .. Len(sols) :
            c = {At(sols, p, depth)} \/ \E q \in (p + 1) .. Len(sols) : c = PairAt(sols, p, q, depth)
    BY <1>7, <1>8
  <2> HIDE DEF E
  <2>2. CASE c = {At(sols, p, depth)} BY <1>1, <1>2, <1>5, <2>2
  <2>3. CASE \E q \in (p + 1) .. Len(sols) : c = PairAt(sols, p, q, depth)
    <3>1. PICK q \in 1 .. Len(sols) : c = PairAt(sols, p, q, depth)
      <4>1. PICK q \in (p + 1) .. Len(sols) : c = PairAt(sols, p, q, depth) BY <2>3
      <4>2. q \in 1 .. Len(sols) BY <1>1
      <4> QED BY <4>1, <4>2
    <3>2. CASE Swapped(sols, p, q, depth)
      <4>1. c = {At(sols, p, depth), At(sols, q, depth)} BY <3>1, <3>2 DEF PairAt
      <4>2. /\ Exchanged(paths, At(sols, p, depth), At(sols, q, depth))
            /\ Exchanged(paths, At(sols, q, depth), At(sols, p, depth))
        BY <1>3, <1>4, <3>2
      <4>3. At(sols, p, depth) \in NodePtrs /\ At(sols, q, depth) \in NodePtrs BY <1>2
      <4>4. Joined(c, E) BY <1>6, <4>1, <4>2, <4>3
      <4>5. \A x \in c : x \in Nodes(sols[p]) \/ x \in Nodes(sols[q]) BY <1>2, <4>1
      <4>6. sols[p] \in paths /\ sols[q] \in paths BY <1>1
      <4> QED BY <4>4, <4>5, <4>6
    <3>3. CASE ~Swapped(sols, p, q, depth)
      <4>1. c = {At(sols, p, depth)} BY <3>1, <3>3 DEF PairAt
      <4> QED BY <1>1, <1>2, <1>5, <4>1
    <3> QED BY <3>2, <3>3
  <2> QED BY <2>1, <2>2, <2>3
<1>10. Grouped(FoldLeft(Together, <<>>, calls), pairs, E)
  <2>1. \A k \in 1 .. Len(calls) : Joined(calls[k], E)
    <3>1. \A k \in 1 .. Len(calls) : calls[k] \in pairs BY DEF pairs
    <3> QED BY <1>9, <3>1
  <2> HIDE DEF E
  <2> QED BY <1>7, <2>1, AllGrouped DEF pairs
<1>11. groups = ToSet(FoldLeft(Together, <<>>, calls)) BY DEF SuperNodesByConicPath, calls
<1>12. /\ \A x : (\E g \in groups : x \in g) <=> \E c \in pairs : x \in c
       /\ \A g \in groups : Joined(g, E)
       /\ \A c \in pairs : \E g \in groups : c \subseteq g
  <2> HIDE DEF groups, E
  <2> QED BY <1>10, <1>11 DEF Grouped
<1> HIDE DEF groups
<1>13. \A x : (\E c \in pairs : x \in c) <=> \E w \in paths : x \in Nodes(w)
  <2>1. ASSUME NEW w \in paths, NEW x \in Nodes(w) PROVE \E c \in pairs : x \in c
    <3>1. PICK p \in 1 .. Len(sols) : w = sols[p] BY <1>1
    <3>2. DOMAIN w = 1 .. m BY <1>1, <3>1
    <3>3. PICK i \in 1 .. m : x = w[i].dst BY <3>2 DEF Nodes
    <3>4. PICK depth \in 0 .. (m - 1) : i = depth + 1
      <4>1. i - 1 \in 0 .. (m - 1) /\ i = (i - 1) + 1 OBVIOUS
      <4> QED BY <4>1
    <3>5. x = At(sols, p, depth) BY <3>1, <3>3, <3>4 DEF At
    <3>6. {x} \in pairs BY <1>7, <1>8, <3>5
    <3> QED BY <3>6
  <2> HIDE DEF E
  <2> QED BY <1>9, <2>1
<1>14. UNION groups = UNION {Nodes(p) : p \in paths}
  <2>1. \A x : x \in UNION groups <=> \E w \in paths : x \in Nodes(w)
    <3> HIDE DEF E
    <3> QED BY <1>12, <1>13
  <2> HIDE DEF E
  <2> QED BY <2>1
<1>15. ASSUME NEW g \in groups PROVE Connected(paths, g)
  <2> SUFFICES ASSUME NEW part \in (SUBSET g) \ {{}, g}
               PROVE  \E a \in part, b \in g \ part : Exchanged(paths, a, b)
    BY DEF Connected
  <2>1. PICK a \in part, b \in g \ part : <<a, b>> \in E
    <3> HIDE DEF E
    <3> QED BY <1>12 DEF Joined
  <2>2. Exchanged(paths, <<a, b>>[1], <<a, b>>[2]) BY <2>1
  <2> QED BY <2>2
<1>16. ASSUME NEW x, NEW y, Exchanged(paths, x, y) PROVE \E g \in groups : {x, y} \subseteq g
  <2>1. PICK v \in paths, w \in paths :
            \E i \in 2 .. (Len(v) - 1) :
                /\ v[i].dst = x /\ w[i].dst = y
                /\ v[i - 1].dst = w[i - 1].dst /\ v[i + 1].dst = w[i + 1].dst
    BY <1>16 DEF Exchanged
  <2>2. PICK i \in 2 .. (m - 1) : /\ v[i].dst = x /\ w[i].dst = y
                                  /\ v[i - 1].dst = w[i - 1].dst /\ v[i + 1].dst = w[i + 1].dst
    BY <2>1
  <2>3. PICK p \in 1 .. Len(sols), q \in 1 .. Len(sols) : v = sols[p] /\ w = sols[q] BY <1>1
  <2>4. PICK depth \in 0 .. (m - 1) : depth = i - 1
    <3>1. i - 1 \in 0 .. (m - 1) OBVIOUS
    <3> QED BY <3>1
  <2>5. /\ depth >= 1 /\ depth <= m - 2 /\ depth + 1 = i /\ (depth - 1) + 1 = i - 1
        /\ (depth + 1) + 1 = i + 1
    BY <2>4
  <2>6. At(sols, p, depth) = x /\ At(sols, q, depth) = y BY <2>2, <2>3, <2>5 DEF At
  <2>7. Swapped(sols, p, q, depth) /\ Swapped(sols, q, p, depth)
    <3>1. Len(sols[p]) = m /\ Len(sols[q]) = m BY <1>1
    <3>2. /\ At(sols, p, depth - 1) = At(sols, q, depth - 1)
          /\ At(sols, p, depth + 1) = At(sols, q, depth + 1)
      BY <2>2, <2>3, <2>5 DEF At
    <3> QED BY <2>5, <3>1, <3>2 DEF Swapped
  <2>8. \E c \in pairs : {x, y} \subseteq c
    <3>1. CASE p < q
      <4>1. q \in (p + 1) .. Len(sols) BY <1>1, <3>1
      <4>2. PairAt(sols, p, q, depth) = {x, y} BY <2>6, <2>7 DEF PairAt
      <4>3. {x, y} \in pairs BY <1>7, <1>8, <4>1, <4>2
      <4> QED BY <4>3
    <3>2. CASE q < p
      <4>1. p \in (q + 1) .. Len(sols) BY <1>1, <3>2
      <4>2. PairAt(sols, q, p, depth) = {y, x} BY <2>6, <2>7 DEF PairAt
      <4>3. {y, x} \in pairs BY <1>7, <1>8, <4>1, <4>2
      <4> QED BY <4>3
    <3>3. CASE p = q
      <4>1. x = y BY <2>6, <3>3
      <4>2. {x} \in pairs BY <1>7, <1>8, <2>6
      <4> QED BY <4>1, <4>2
    <3> QED BY <1>1, <3>1, <3>2, <3>3
  <2> HIDE DEF E
  <2> QED BY <1>12, <2>8
<1>17. SuperNodes(paths, groups) BY <1>14, <1>15, <1>16 DEF SuperNodes
<1> QED BY <1>17 DEF groups

-----------------------------------------------------------------------------
(* Lengths of paths. *)

LEMMA AdjointIs ==
    ASSUME NEW R \in Seq(Link), R # <<>>
    PROVE  AdjointLinkPath(R) \in Seq(Link) /\ Len(AdjointLinkPath(R)) = Len(R)
<1>1. PICK b \in Nat \ {0} : b = Len(R) OBVIOUS
<1> DEFINE A == AdjointLinkPath(R)
<1>2. A = [j \in 1 .. b |-> [arr |-> INVERSE_ARROWS[IF j = 1 THEN INVERSE_ARROWS[FirstArrow]
                                                    ELSE R[b + 2 - j].arr],
                             dst |-> R[b + 1 - j].dst]]
  BY <1>1 DEF AdjointLinkPath
<1>3. ASSUME NEW j \in 1 .. b
      PROVE  /\ R[b + 1 - j].dst \in NodePtrs
             /\ j # 1 => INVERSE_ARROWS[R[b + 2 - j].arr] \in Arrows
  <2>1. b + 1 - j \in 1 .. b /\ (j # 1 => b + 2 - j \in 1 .. b) BY <1>1
  <2>2. \A i \in 1 .. b : R[i] \in Link BY <1>1
  <2> QED BY <2>1, <2>2, PathsAssumption DEF Link
<1>4. INVERSE_ARROWS[INVERSE_ARROWS[FirstArrow]] \in Arrows BY PathsAssumption
<1>5. A \in [1 .. b -> Link]
  <2> HIDE DEF A
  <2> QED BY <1>2, <1>3, <1>4 DEF Link
<1> HIDE DEF A
<1> QED BY <1>1, <1>5, SequenceOf DEF A

LEMMA SpliceIs ==
    ASSUME NEW L \in Seq(Link), NEW R \in Seq(Link), L # <<>>, R # <<>>
    PROVE  /\ L \o Tail(AdjointLinkPath(R)) \in Seq(Link)
           /\ Len(L \o Tail(AdjointLinkPath(R))) = Len(L) + Len(R) - 1
<1>1. PICK A \in Seq(Link) : A = AdjointLinkPath(R) /\ Len(A) = Len(R) BY AdjointIs
<1>2. A # <<>> BY <1>1
<1>3. Tail(A) \in Seq(Link) /\ Len(Tail(A)) = Len(A) - 1 BY <1>2
<1> QED BY <1>1, <1>3

(* The branches a branch of a wave shoots. *)
Goes(links, b, i) ==
    (\A j \in 1 .. (i - 1) : links[j].dst # links[i].dst) /\ links[i].dst \notin Nodes(b)

Shot(cone, sts, arrows, w) ==
    \E p \in 1 .. Len(cone) :
        LET links == GetConstrainedFwdLinks(Tip(cone[p]), sts, arrows)
        IN  \E i \in 1 .. Len(links) : Goes(links, cone[p], i) /\ w = Append(cone[p], links[i])

LEMMA WaveElements ==
    ASSUME I \in Graphs, query \in Queries, NEW sts \in Seq(STTypes), NEW arrows,
           NEW cone \in Seq(Seq(Link)), \A p \in 1 .. Len(cone) : cone[p] # <<>>
    PROVE  /\ IncConstraintConeLinks(cone, sts, arrows) \in Seq(Seq(Link))
           /\ \A w : Holds(IncConstraintConeLinks(cone, sts, arrows), w) <=> Shot(cone, sts, arrows, w)
<1> DEFINE Links(b) == GetConstrainedFwdLinks(Tip(b), sts, arrows)
           Shoot(b, i) == IF Goes(Links(b), b, i) THEN <<Append(b, Links(b)[i])>> ELSE <<>>
           row(b) == [i \in DOMAIN Links(b) |-> Shoot(b, i)]
           Shoots(b) == FlattenSeq(row(b))
           ss == [p \in DOMAIN cone |-> Shoots(cone[p])]
           W == Seq(Link)
<1>1. ASSUME NEW b \in W, b # <<>>
      PROVE  /\ Shoots(b) \in Seq(W)
             /\ \A w : Holds(Shoots(b), w) <=>
                    \E i \in 1 .. Len(Links(b)) : Goes(Links(b), b, i) /\ w = Append(b, Links(b)[i])
  <2>1. Tip(b) \in NodePtrs BY <1>1, TipIsNode
  <2>2. Links(b) \in Seq(Link) BY <2>1, ConstrainedLinks
  <2>3. DOMAIN Links(b) = 1 .. Len(Links(b)) /\ Len(Links(b)) \in Nat BY <2>2
  <2>4. ASSUME NEW i \in 1 .. Len(Links(b))
        PROVE  /\ Shoot(b, i) \in Seq(W)
               /\ \A w : Holds(Shoot(b, i), w) <=> Goes(Links(b), b, i) /\ w = Append(b, Links(b)[i])
    <3>1. Links(b)[i] \in Link BY <2>2
    <3>2. Append(b, Links(b)[i]) \in W
      <4> HIDE DEF Links
      <4> QED BY <3>1
    <3>3. PICK v \in W : v = Append(b, Links(b)[i]) BY <3>2
    <3>4. Shoot(b, i) = IF Goes(Links(b), b, i) THEN <<v>> ELSE <<>> BY <3>3
    <3> HIDE DEF Shoot, Links, W
    <3>5. <<v>> \in Seq(W) /\ <<>> \in Seq(W) /\ Len(<<v>>) = 1 /\ <<v>>[1] = v /\ Len(<<>>) = 0
      OBVIOUS
    <3>6. \A w : Holds(<<v>>, w) <=> w = v BY <3>5 DEF Holds
    <3>7. \A w : ~Holds(<<>>, w) BY <3>5 DEF Holds
    <3> QED BY <3>3, <3>4, <3>5, <3>6, <3>7
  <2>5. \A i \in 1 .. Len(Links(b)) : row(b)[i] = Shoot(b, i) BY <2>3
  <2>6. row(b) \in Seq(Seq(W)) /\ Len(row(b)) = Len(Links(b))
    <3>1. row(b) \in [1 .. Len(Links(b)) -> Seq(W)]
      <4> HIDE DEF W, Shoot, Links
      <4> QED BY <2>3, <2>4
    <3> HIDE DEF row, W, Links
    <3> QED BY <2>3, <3>1, SequenceOf
  <2> HIDE DEF row, W, Shoot, Links
  <2> QED BY <2>4, <2>5, <2>6, FlattenElements
<1>2. IncConstraintConeLinks(cone, sts, arrows) = FlattenSeq(ss)
  BY Zenon DEF IncConstraintConeLinks, Goes
<1>3. DOMAIN cone = 1 .. Len(cone) /\ Len(cone) \in Nat /\ \A p \in 1 .. Len(cone) : cone[p] \in W
  OBVIOUS
<1>4. \A p \in 1 .. Len(cone) : ss[p] = Shoots(cone[p]) BY <1>3
<1>5. ss \in Seq(Seq(W)) /\ Len(ss) = Len(cone)
  <2>1. ss \in [1 .. Len(cone) -> Seq(W)]
    <3> HIDE DEF W, Shoots
    <3> QED BY <1>1, <1>3
  <2> HIDE DEF ss, W
  <2> QED BY <1>3, <2>1, SequenceOf
<1> HIDE DEF ss, Shoots
<1>6. /\ FlattenSeq(ss) \in Seq(W)
      /\ \A w : Holds(FlattenSeq(ss), w) <=> \E p \in 1 .. Len(ss) : Holds(ss[p], w)
  <2> HIDE DEF W
  <2> QED BY <1>5, FlattenElements
<1>7. \A w : Holds(FlattenSeq(ss), w) <=>
          \E p \in 1 .. Len(cone) : \E i \in 1 .. Len(Links(cone[p])) :
              Goes(Links(cone[p]), cone[p], i) /\ w = Append(cone[p], Links(cone[p])[i])
  <2> DEFINE New(w, p) == \E i \in 1 .. Len(Links(cone[p])) :
                              Goes(Links(cone[p]), cone[p], i) /\ w = Append(cone[p], Links(cone[p])[i])
  <2>1. ASSUME NEW p \in 1 .. Len(cone), NEW w PROVE Holds(ss[p], w) <=> New(w, p)
    <3>1. PICK b \in W : b = cone[p] /\ b # <<>> BY <1>3
    <3> HIDE DEF W, Links
    <3> QED BY <1>1, <1>4, <3>1
  <2> HIDE DEF W, New
  <2>2. \A w : Holds(FlattenSeq(ss), w) <=> \E p \in 1 .. Len(cone) : New(w, p)
    BY <1>5, <1>6, <2>1
  <2> QED BY <2>2 DEF New
<1>8. \A w : Holds(FlattenSeq(ss), w) <=> Shot(cone, sts, arrows, w) BY <1>7 DEF Shot
<1> HIDE DEF W
<1> QED BY <1>2, <1>6, <1>8 DEF W

(* Lengths of paths: below the depth while they are enumerated, and as     *)
(* deep as its wave for every path of a wave.                              *)
OfLength(s, d) == \A k \in 1 .. Len(s) : Len(s[k]) = d

LEMMA WaveLengths ==
    ASSUME I \in Graphs, query \in Queries, NEW sts \in Seq(STTypes), NEW arrows,
           NEW cone \in Seq(Seq(Link)), NEW d \in Nat \ {0}, OfLength(cone, d)
    PROVE  OfLength(IncConstraintConeLinks(cone, sts, arrows), d + 1)
<1>0. Len(<<>>) = 0 OBVIOUS
<1>1. \A p \in 1 .. Len(cone) : cone[p] # <<>> BY <1>0 DEF OfLength
<1> DEFINE new == IncConstraintConeLinks(cone, sts, arrows)
<1>2. new \in Seq(Seq(Link)) BY <1>1, WaveElements
<1> SUFFICES ASSUME NEW k \in 1 .. Len(new) PROVE Len(new[k]) = d + 1 BY DEF OfLength
<1>3. Holds(new, new[k]) BY DEF Holds
<1> HIDE DEF new
<1>4. PICK p \in 1 .. Len(cone) : \E l : new[k] = Append(cone[p], l)
  <2>1. Shot(cone, sts, arrows, new[k]) BY <1>1, <1>3, WaveElements DEF new
  <2> QED BY <2>1 DEF Shot
<1>5. cone[p] \in Seq(Link) /\ Len(cone[p]) = d BY DEF OfLength
<1> QED BY <1>4, <1>5

Shallow(d) == {f \in [nptr : NodePtrs, path : Seq(Link), forward : BOOLEAN] : Len(f.path) <= d}
Short(d) == {w \in Seq(Link) : Len(w) \in 1 .. d}
EnumLengths ==
    job \in {"cone", "left", "right"} =>
        /\ stack \in Seq(Shallow(EnumDepth))
        /\ \E starts \in Seq(NodePtrs) : todo \in Seq(Fresh(starts))
        /\ found \in Seq(Short(EnumDepth))
OneLength(paths) ==
    /\ IsFiniteSet(paths) /\ paths \subseteq Seq(Link)
    /\ \E m \in 1 .. (2 * query.depth) : \A p \in paths : Len(p) = m
LengthInv ==
    /\ EnumLengths
    /\ job \in {"cone", "left", "right"} => ldepth = 1 /\ rdepth = 1
    /\ ldepth \in 1 .. query.depth /\ rdepth \in 1 .. query.depth
    /\ OfLength(left, ldepth) /\ OfLength(right, rdepth)
    /\ query.kind = "paths" => OneLength(solutions) /\ (job = "done" => OneLength(answer))

LEMMA InitLengthInv ==
    ASSUME PathsInit
    PROVE  LengthInv
<1>1. query \in Queries /\ stack = <<>> /\ found = <<>> /\ left = <<>> /\ right = <<>>
        /\ ldepth = 1 /\ rdepth = 1 /\ solutions = {} /\ job # "done"
  BY DEF PathsInit
<1>2. query.depth \in Nat \ {0} /\ query.starts \in Seq(NodePtrs) BY <1>1, QueryIs
<1>3. PICK orientation : todo = Calls(query.starts, orientation)
  <2>1. PICK o : o = IF query.kind = "paths" THEN "fwd" ELSE query.orientation OBVIOUS
  <2> QED BY <2>1 DEF PathsInit
<1>4. EnumLengths BY <1>1, <1>2, <1>3, CallsAreFresh DEF EnumLengths
<1>5. OfLength(left, ldepth) /\ OfLength(right, rdepth) BY <1>1 DEF OfLength
<1>6. OneLength(solutions)
  <2>1. IsFiniteSet({}) BY FS_EmptySet
  <2>2. 1 \in 1 .. (2 * query.depth) BY <1>2
  <2> QED BY <1>1, <2>1, <2>2 DEF OneLength
<1> QED BY <1>1, <1>2, <1>4, <1>5, <1>6 DEF LengthInv

LEMMA ShallowTop ==
    ASSUME NEW d \in Nat, NEW s \in Seq(Shallow(d)), s # <<>>
    PROVE  Last(s) \in Shallow(d) /\ Front(s) \in Seq(Shallow(d))
BY TopIsFrame

(* The path of a frame that is left is short, and not empty when it counts.*)
LEMMA EmittedIsShort ==
    ASSUME NEW d \in Nat, stack \in Seq(Shallow(d)), stack # <<>>, found \in Seq(Short(d)),
           Emit(Last(stack).path)
    PROVE  found' \in Seq(Short(d))
<1>1. PICK top \in Shallow(d) : top = Last(stack) BY ShallowTop
<1>2. top.path \in Seq(Link) /\ Len(top.path) <= d BY DEF Shallow
<1>3. CASE top.path = <<>> BY <1>1, <1>3 DEF Emit
<1>4. CASE top.path # <<>>
  <2>1. Len(top.path) \in 1 .. d BY <1>2, <1>4
  <2>2. top.path \in Short(d) BY <1>2, <2>1 DEF Short
  <2>3. found' = Append(found, top.path) BY <1>1, <1>4 DEF Emit
  <2> QED BY <2>2, <2>3
<1> QED BY <1>3, <1>4

LEMMA ExpandedAreShallow ==
    ASSUME SearchInv, Enumerating, NEW d \in Nat, EnumDepth = d, stack \in Seq(Shallow(d)), stack # <<>>, Expand
    PROVE  stack' \in Seq(Shallow(d))
<1>1. PICK top \in Shallow(d) : top = Last(stack) BY ShallowTop
<1>2. Front(stack) \in Seq(Shallow(d)) BY ShallowTop
<1>3. top \in [nptr : NodePtrs, path : Seq(Link), forward : BOOLEAN] BY DEF Shallow
<1>4. PICK links \in Seq(Link) : links = Extensions(top) BY <1>3, EnumIs, ExtensionsAre DEF SearchInv
<1> DEFINE new == [i \in DOMAIN links |-> Frame(links[i].dst, Append(top.path, links[i]), top.forward)]
<1>5. stack' = Front(stack) \o new /\ Len(top.path) < d BY <1>1, <1>4 DEF Expand
<1>6. ASSUME NEW i \in 1 .. Len(links)
      PROVE  Frame(links[i].dst, Append(top.path, links[i]), top.forward) \in Shallow(d)
  <2>1. PICK l \in Link : l = links[i] OBVIOUS
  <2>2. PICK w : w = Append(top.path, l) OBVIOUS
  <2>3. w \in Seq(Link) /\ Len(w) = Len(top.path) + 1 /\ Len(top.path) \in Nat BY <1>3, <2>2
  <2>4. Len(w) <= d BY <1>5, <2>3
  <2>5. Frame(l.dst, w, top.forward) \in Shallow(d) BY <1>3, <2>3, <2>4 DEF Frame, Shallow, Link
  <2> QED BY <2>1, <2>2, <2>5
<1>7. DOMAIN links = 1 .. Len(links) /\ Len(links) \in Nat OBVIOUS
<1>8. new \in Seq(Shallow(d))
  <2>1. new \in [1 .. Len(links) -> Shallow(d)] BY <1>6, <1>7
  <2> HIDE DEF new
  <2> QED BY <1>7, <2>1, SequenceOf
<1> HIDE DEF new
<1> QED BY <1>2, <1>5, <1>8

LEMMA EnumerationKeepsLengths ==
    ASSUME SearchInv, LengthInv, enumeratePaths \/ StopAtDepth \/ Expand \/ EmitLeaf
    PROVE  LengthInv'
<1>1. Enumerating /\ UNCHANGED <<I, query, job, waveVars>>
  BY DEF enumeratePaths, StopAtDepth, Expand, EmitLeaf
<1>2. UNCHANGED <<query, job, left, right, ldepth, rdepth, solutions, EnumDepth>>
  BY <1>1 DEF waveVars, EnumDepth
<1>3. PICK d \in Nat : d = EnumDepth
  <2>1. query.depth \in Nat BY QueryIs DEF SearchInv
  <2> QED BY <2>1 DEF EnumDepth
<1>4. /\ stack \in Seq(Shallow(d)) /\ found \in Seq(Short(d))
      /\ job \in {"cone", "left", "right"}
  BY <1>1, <1>3 DEF LengthInv, EnumLengths, Enumerating
<1>5. PICK starts \in Seq(NodePtrs) : todo \in Seq(Fresh(starts))
  BY <1>4 DEF LengthInv, EnumLengths
<1>6. SUFFICES stack' \in Seq(Shallow(d)) /\ todo' \in Seq(Fresh(starts)) /\ found' \in Seq(Short(d))
  <2>1. (job # "done" /\ OneLength(solutions))' <=> (job # "done" /\ OneLength(solutions))
    BY <1>2 DEF OneLength
  <2>2. OfLength(left, ldepth)' /\ OfLength(right, rdepth)' BY <1>2 DEF OfLength, LengthInv
  <2>3. EnumLengths' BY <1>2, <1>3, <1>6 DEF EnumLengths, Shallow, Short, Fresh
  <2> QED BY <1>2, <1>4, <2>1, <2>2, <2>3 DEF LengthInv
<1>7. CASE enumeratePaths
  <2>1. todo # <<>> /\ stack' = <<Head(todo)>> /\ todo' = Tail(todo) /\ found' = found
    BY <1>7 DEF enumeratePaths
  <2>2. PICK f \in Fresh(starts) : f = Head(todo) BY <1>5, <2>1
  <2>3. f \in Shallow(d)
    <3>1. Len(<<>>) = 0 OBVIOUS
    <3> QED BY <3>1 DEF Fresh, Shallow
  <2>4. stack' = <<f>> /\ <<f>> \in Seq(Shallow(d)) BY <2>1, <2>2, <2>3
  <2>5. Tail(todo) \in Seq(Fresh(starts)) BY <1>5, <2>1
  <2> QED BY <1>4, <2>1, <2>4, <2>5
<1>8. CASE StopAtDepth \/ EmitLeaf
  <2>1. stack # <<>> /\ stack' = Front(stack) /\ Emit(Last(stack).path) /\ todo' = todo
    BY <1>8 DEF StopAtDepth, EmitLeaf, Exhausted
  <2> QED BY <1>4, <1>5, <2>1, EmittedIsShort, ShallowTop
<1>9. CASE Expand
  <2>1. stack # <<>> /\ todo' = todo /\ found' = found BY <1>9 DEF Expand, Exhausted
  <2> QED BY <1>1, <1>3, <1>4, <1>5, <1>9, <2>1, ExpandedAreShallow
<1> QED BY <1>7, <1>8, <1>9

(* Splices of paths of one length have one length. *)
LEMMA SplicesHaveOneLength ==
    ASSUME SearchInv, LengthInv, NEW pairs \in SUBSET NodesOverlap
    PROVE  OneLength(Splices(pairs))
<1>1. /\ left \in Seq(Found(query.starts, LeftTypes, LeftArrows))
      /\ right \in Seq(Found(query.ends, RightTypes, RightArrows))
  BY DEF SearchInv, WaveInv
<1>2. DOMAIN left = 1 .. Len(left) /\ DOMAIN right = 1 .. Len(right) /\ Len(left) \in Nat /\ Len(right) \in Nat
  BY <1>1
<1>3. query.depth \in Nat \ {0} /\ ldepth \in 1 .. query.depth /\ rdepth \in 1 .. query.depth
  BY QueryIs DEF SearchInv, LengthInv
<1>4. ASSUME NEW pair \in pairs
      PROVE  Splice(pair) \in Seq(Link) /\ Len(Splice(pair)) = ldepth + rdepth - 1
  <2>1. pair[1] \in 1 .. Len(left) /\ pair[2] \in 1 .. Len(right) BY <1>2 DEF NodesOverlap
  <2>2. PICK L \in Found(query.starts, LeftTypes, LeftArrows) : L = left[pair[1]] BY <1>1, <2>1
  <2>3. PICK R \in Found(query.ends, RightTypes, RightArrows) : R = right[pair[2]] BY <1>1, <2>1
  <2>4. L \in Seq(Link) /\ R \in Seq(Link) /\ L # <<>> /\ R # <<>> BY DEF Found, Walk
  <2>5. Len(L) = ldepth /\ Len(R) = rdepth BY <2>1, <2>2, <2>3 DEF LengthInv, OfLength
  <2>6. Splice(pair) = L \o Tail(AdjointLinkPath(R)) BY <2>2, <2>3 DEF Splice
  <2> QED BY <2>4, <2>5, <2>6, SpliceIs
<1>5. IsFiniteSet(Splices(pairs))
  <2>1. IsFiniteSet(1 .. Len(left)) /\ IsFiniteSet(1 .. Len(right)) BY <1>2, FS_Interval
  <2>2. IsFiniteSet((DOMAIN left) \X (DOMAIN right)) BY <1>2, <2>1, FS_Product
  <2>3. pairs \subseteq (DOMAIN left) \X (DOMAIN right) BY DEF NodesOverlap
  <2>4. IsFiniteSet(pairs) BY <2>2, <2>3, FS_Subset
  <2> DEFINE f == [pair \in pairs |-> Splice(pair)]
  <2>5. Splices(pairs) = {f[pair] : pair \in pairs} BY DEF Splices
  <2>6. f \in Surjection(pairs, Splices(pairs))
    <3>1. f \in [pairs -> Splices(pairs)] BY DEF Splices
    <3>2. \A p \in Splices(pairs) : \E pair \in pairs : f[pair] = p BY DEF Splices
    <3> HIDE DEF f
    <3> QED BY <3>1, <3>2 DEF Surjection
  <2> HIDE DEF f
  <2> QED BY <2>4, <2>6, FS_Surjection
<1>6. ldepth + rdepth - 1 \in 1 .. (2 * query.depth) BY <1>3
<1>7. \A p \in Splices(pairs) : p \in Seq(Link) /\ Len(p) = ldepth + rdepth - 1 BY <1>4 DEF Splices
<1> QED BY <1>5, <1>6, <1>7 DEF OneLength

LEMMA OneLengthStays ==
    ASSUME query' = query
    PROVE  \A paths : OneLength(paths)' <=> OneLength(paths)
BY DEF OneLength

LEMMA PrimingKeepsLengths ==
    ASSUME SearchInv, LengthInv, PrimeLeft \/ PrimeRight
    PROVE  LengthInv'
<1>1. /\ UNCHANGED <<query, ldepth, rdepth, solutions>> /\ query.kind = "paths"
      /\ job \in {"left", "right"} /\ job' # "done"
  BY DEF PrimeLeft, PrimeRight, SearchInv
<1>2. query \in Queries BY DEF SearchInv
<1>3. found \in Seq(Short(1)) BY <1>1 DEF LengthInv, EnumLengths, EnumDepth
<1>4. OfLength(found, 1)
  <2>1. \A w \in Short(1) : Len(w) = 1 BY DEF Short
  <2> QED BY <1>3, <2>1 DEF OfLength
<1>5. ldepth = 1 /\ rdepth = 1 /\ OfLength(left, 1) /\ OfLength(right, 1) BY <1>1 DEF LengthInv
<1>6. OneLength(solutions)' BY <1>1, OneLengthStays DEF LengthInv
<1>7. (ldepth \in 1 .. query.depth /\ rdepth \in 1 .. query.depth)' BY <1>1 DEF LengthInv
<1>8. CASE PrimeLeft
  <2>1. /\ job' = "right" /\ left' = found /\ right' = right
        /\ todo' = Calls(query.ends, "fwd") /\ stack' = <<>> /\ found' = <<>>
    BY <1>8 DEF PrimeLeft
  <2>2. EnumLengths'
    <3>1. query.ends \in Seq(NodePtrs) BY <1>2, QueryIs
    <3>2. todo' \in Seq(Fresh(query.ends)) BY <2>1, <3>1, CallsAreFresh
    <3> QED BY <2>1, <3>1, <3>2 DEF EnumLengths, Fresh
  <2>3. OfLength(left, ldepth)' /\ OfLength(right, rdepth)' BY <1>1, <1>4, <1>5, <2>1 DEF OfLength
  <2> QED BY <1>1, <1>5, <1>6, <1>7, <2>2, <2>3 DEF LengthInv
<1>9. CASE PrimeRight
  <2>1. job' = "waves" /\ left' = left /\ right' = found BY <1>9 DEF PrimeRight
  <2>2. OfLength(left, ldepth)' /\ OfLength(right, rdepth)' BY <1>1, <1>4, <1>5, <2>1 DEF OfLength
  <2>3. EnumLengths' BY <2>1 DEF EnumLengths
  <2> QED BY <1>1, <1>5, <1>6, <1>7, <2>1, <2>2, <2>3 DEF LengthInv
<1> QED BY <1>8, <1>9

LEMMA ReturnKeepsLengths ==
    ASSUME SearchInv, LengthInv, ReturnCone \/ GetFwdConeAsNodes \/ GetFwdConeAsLinks
    PROVE  LengthInv'
<1>1. UNCHANGED <<query, left, right, ldepth, rdepth, solutions>> /\ job' = "done" /\ query.kind # "paths"
  BY DEF ReturnCone, GetFwdConeAsNodes, GetFwdConeAsLinks, Answer, waveVars, SearchInv
<1>2. OfLength(left, ldepth)' /\ OfLength(right, rdepth)' BY <1>1 DEF OfLength, LengthInv
<1> QED BY <1>1, <1>2 DEF LengthInv, EnumLengths

LEMMA WavesKeepLengths ==
    ASSUME SearchInv, LengthInv, ReturnSolutions \/ ReturnLoops \/ ExpandLeft \/ ExpandRight \/ GiveUp
    PROVE  LengthInv'
<1>1. /\ UNCHANGED <<I, query>> /\ job = "waves" /\ query.kind = "paths"
      /\ job' = "waves" \/ job' = "done"
  BY DEF ReturnSolutions, ReturnLoops, ExpandLeft, ExpandRight, GiveUp, InRange, Answer, SearchInv
<1>2. I \in Graphs /\ query \in Queries BY DEF SearchInv
<1>3. OneLength(Splices(DagPairs)) /\ OneLength(Splices(LoopPairs))
  BY SplicesHaveOneLength DEF DagPairs, LoopPairs
<1>4. OneLength(solutions) /\ OfLength(left, ldepth) /\ OfLength(right, rdepth) BY <1>1 DEF LengthInv
<1>5. /\ LeftTypes \in Seq(STTypes) /\ RightTypes \in Seq(STTypes) /\ query.depth \in Nat
      /\ ldepth \in 1 .. query.depth /\ rdepth \in 1 .. query.depth
  BY <1>2, SearchTypes, QueryIs DEF LengthInv
<1>6. left \in Seq(Seq(Link)) /\ right \in Seq(Seq(Link)) BY DEF SearchInv, WaveInv, Found
<1>7. EnumLengths' BY <1>1 DEF EnumLengths
<1>8. CASE ReturnSolutions \/ ReturnLoops \/ GiveUp
  <2>1. /\ UNCHANGED <<left, right, ldepth, rdepth>> /\ job' = "done"
        /\ answer' \in {Splices(DagPairs), Splices(LoopPairs), solutions}
        /\ solutions' \in {Splices(DagPairs), solutions}
    BY <1>8 DEF ReturnSolutions, ReturnLoops, GiveUp, Answer, waveVars
  <2>2. OneLength(solutions') /\ OneLength(answer') BY <1>3, <1>4, <2>1
  <2>3. OneLength(solutions)' /\ OneLength(answer)' BY <1>1, <2>2 DEF OneLength
  <2>4. OfLength(left, ldepth)' /\ OfLength(right, rdepth)' BY <1>4, <2>1 DEF OfLength
  <2> QED BY <1>1, <1>5, <1>7, <2>1, <2>3, <2>4 DEF LengthInv
<1>9. CASE ExpandLeft
  <2>1. /\ solutions' = Splices(DagPairs) /\ job' = job /\ right' = right /\ rdepth' = rdepth
        /\ left' = IncConstraintConeLinks(left, LeftTypes, LeftArrows) /\ ldepth' = ldepth + 1
        /\ ldepth < query.depth
    BY <1>9 DEF ExpandLeft, InRange
  <2>2. OfLength(left', ldepth') BY <1>2, <1>4, <1>5, <1>6, <2>1, WaveLengths
  <2>3. OfLength(left, ldepth)' /\ OfLength(right, rdepth)' BY <1>4, <2>1, <2>2 DEF OfLength
  <2>4. OneLength(solutions)' BY <1>1, <1>3, <2>1 DEF OneLength
  <2> QED BY <1>1, <1>5, <1>7, <2>1, <2>3, <2>4 DEF LengthInv
<1>10. CASE ExpandRight
  <2>1. /\ solutions' = Splices(DagPairs) /\ job' = job /\ left' = left /\ ldepth' = ldepth
        /\ right' = IncConstraintConeLinks(right, RightTypes, RightArrows) /\ rdepth' = rdepth + 1
        /\ rdepth < query.depth
    BY <1>10 DEF ExpandRight, InRange
  <2>2. OfLength(right', rdepth') BY <1>2, <1>4, <1>5, <1>6, <2>1, WaveLengths
  <2>3. OfLength(left, ldepth)' /\ OfLength(right, rdepth)' BY <1>4, <2>1, <2>2 DEF OfLength
  <2>4. OneLength(solutions)' BY <1>1, <1>3, <2>1 DEF OneLength
  <2> QED BY <1>1, <1>5, <1>7, <2>1, <2>3, <2>4 DEF LengthInv
<1> QED BY <1>8, <1>9, <1>10

LEMMA LengthsInvariant == PathsSpec => []LengthInv
<1>1. PathsInit => LengthInv BY InitLengthInv
<1>2. SearchInv /\ LengthInv /\ [PathsNext]_pathVars => LengthInv'
  <2> SUFFICES ASSUME SearchInv, LengthInv, [PathsNext]_pathVars PROVE LengthInv'
    OBVIOUS
  <2>1. CASE UNCHANGED pathVars
    BY <2>1 DEF pathVars, LengthInv, EnumLengths, Shallow, Short, Fresh, EnumDepth, OfLength, OneLength
  <2>2. CASE enumeratePaths \/ StopAtDepth \/ Expand \/ EmitLeaf BY <2>2, EnumerationKeepsLengths
  <2>3. CASE ReturnCone \/ GetFwdConeAsNodes \/ GetFwdConeAsLinks BY <2>3, ReturnKeepsLengths
  <2>4. CASE PrimeLeft \/ PrimeRight BY <2>4, PrimingKeepsLengths
  <2>5. CASE ReturnSolutions \/ ReturnLoops \/ ExpandLeft \/ ExpandRight \/ GiveUp
    BY <2>5, WavesKeepLengths
  <2> QED BY <2>1, <2>2, <2>3, <2>4, <2>5 DEF PathsNext
<1> QED BY <1>1, <1>2, SearchInvariant, PTL DEF PathsSpec

(* The super nodes of any solutions, in either order, are their nodes,     *)
(* grouped by exchanges between the same neighbours (Together), for        *)
(* searches of any depth.                                                  *)
THEOREM SuperNodesHoldExchanges == PathsSpec => []SuperNodesExact
<1>1. SearchInv /\ LengthInv => SuperNodesExact
  <2> SUFFICES ASSUME SearchInv, LengthInv, job = "done", query.kind = "paths" PROVE SuperNodesExact
    BY DEF SuperNodesExact
  <2>1. OneLength(answer) /\ query.depth \in Nat BY QueryIs DEF LengthInv, SearchInv
  <2>2. PICK m \in 1 .. (2 * query.depth) : \A p \in answer : Len(p) = m BY <2>1 DEF OneLength
  <2>3. PICK order \in Seq(answer) : order = SetToSeq(answer) /\ ToSet(order) = answer
    <3>1. SetToSeq(answer) \in Seq(answer) /\ \A x \in answer : Holds(SetToSeq(answer), x)
      BY <2>1, SetToSeqElements DEF OneLength
    <3> QED BY <3>1, HoldsIsElement DEF ToSet
  <2>4. PICK back \in Seq(answer) : back = Reverse(order) /\ ToSet(back) = answer
    <3> DEFINE n == Len(order)
    <3>1. n \in Nat /\ DOMAIN order = 1 .. n /\ \A i \in 1 .. n : order[i] \in answer OBVIOUS
    <3> HIDE DEF n
    <3>2. Reverse(order) = [i \in 1 .. n |-> order[(n - i) + 1]] BY <3>1 DEF Reverse, n
    <3>3. \A i \in 1 .. n : (n - i) + 1 \in 1 .. n /\ (n - ((n - i) + 1)) + 1 = i BY <3>1
    <3>4. Reverse(order) \in [1 .. n -> answer] BY <3>1, <3>2, <3>3
    <3>5. \A x \in answer : \E i \in 1 .. n : Reverse(order)[i] = x
      <4> SUFFICES ASSUME NEW x \in answer PROVE \E i \in 1 .. n : Reverse(order)[i] = x OBVIOUS
      <4>1. PICK j \in 1 .. n : order[j] = x BY <2>3, <3>1 DEF ToSet
      <4>2. PICK i \in 1 .. n : i = (n - j) + 1 /\ (n - i) + 1 = j BY <3>3
      <4>3. Reverse(order)[i] = x BY <3>2, <4>1, <4>2
      <4> QED BY <4>3
    <3>6. Reverse(order) \in Seq(answer) BY <3>1, <3>4, SequenceOf
    <3>7. ToSet(Reverse(order)) = answer BY <3>4, <3>5 DEF ToSet
    <3> QED BY <3>6, <3>7
  <2>5. answer \subseteq Seq(Link) BY <2>1 DEF OneLength
  <2>6. /\ SuperNodes(answer, ToSet(SuperNodesByConicPath(order, query.depth)))
        /\ SuperNodes(answer, ToSet(SuperNodesByConicPath(back, query.depth)))
    <3>1. order \in Seq(Seq(Link)) /\ back \in Seq(Seq(Link)) BY <2>5
    <3>2. m \in Nat /\ m <= 2 * query.depth BY <2>1
    <3> QED BY <2>1, <2>2, <2>3, <2>4, <3>1, <3>2, GroupsAreSuperNodes
  <2>7. /\ SuperNodes(answer, ToSet(SuperNodesByConicPath(SetToSeq(answer), query.depth)))
        /\ SuperNodes(answer, ToSet(SuperNodesByConicPath(Reverse(SetToSeq(answer)), query.depth)))
    BY <2>3, <2>4, <2>6
  <2> QED BY <2>7 DEF SuperNodesExact, SuperNodes, Connected, Exchanged
<1> QED BY <1>1, SearchInvariant, LengthsInvariant, PTL

-----------------------------------------------------------------------------
(* Each link of a node is followed once. *)

(* The arrow of a link determines its slot, so that no link is in two. *)
LEMMA LinksOnce ==
    ASSUME I \in Graphs, NEW n \in NodePtrs, NEW sts \in Seq(STTypes), Once(sts), NEW arrows
    PROVE  Once(LinksOf(n, sts, arrows))
<1> DEFINE P == {l \in Link : Allowed(l, arrows)}
<1>1. PICK ss \in Seq(Seq(Link)) :
          /\ LinksOf(n, sts, arrows) = FlattenSeq(ss) /\ Len(ss) = Len(sts)
          /\ \A k \in 1 .. Len(sts) : ss[k] = Sieve(I[n][sts[k]], P)
  BY LinksOfSlots
<1>2. \A k \in 1 .. Len(sts) : sts[k] \in STTypes /\ I[n][sts[k]] \in Seq(Link) BY SlotIs
<1>3. \A k \in 1 .. Len(sts) : \A x : Holds(ss[k], x) => Holds(I[n][sts[k]], x)
  <2> HIDE DEF P
  <2> QED BY <1>1, <1>2, SieveElements
<1>4. ASSUME NEW k \in 1 .. Len(ss) PROVE Once(ss[k])
  <2>1. IsInjective(I[n][sts[k]]) /\ I[n][sts[k]] \in Seq(Link) BY <1>1, <1>2, GraphsAssumption
  <2>2. Once(I[n][sts[k]])
    <3>1. PICK s \in Seq(Link) : s = I[n][sts[k]] BY <2>1
    <3>2. IsInjective(s) /\ DOMAIN s = 1 .. Len(s) BY <2>1, <3>1
    <3> QED BY <3>1, <3>2 DEF IsInjective, Once
  <2> HIDE DEF P
  <2> QED BY <1>1, <2>1, <2>2, SieveOnce
<1>5. ASSUME NEW k \in 1 .. Len(ss), NEW m \in 1 .. Len(ss), k # m, NEW x,
             Holds(ss[k], x), Holds(ss[m], x)
      PROVE  FALSE
  <2>1. Holds(I[n][sts[k]], x) /\ Holds(I[n][sts[m]], x) BY <1>1, <1>3, <1>5
  <2>2. x \in ToSet(I[n][sts[k]]) /\ x \in ToSet(I[n][sts[m]])
    BY <1>1, <1>2, <2>1, HoldsIsElement
  <2>3. STtype[x.arr] = sts[k] /\ STtype[x.arr] = sts[m]
    BY <1>1, <1>2, <2>2, OrbitsAssumption
  <2> QED BY <1>1, <1>5, <2>3 DEF Once
<1>6. Once(FlattenSeq(ss)) BY <1>4, <1>5, FlattenOnce
<1> QED BY <1>1, <1>6

LEMMA RangesOnce ==
    ASSUME NEW sts \in Seq(STTypes), IsInjective(sts), NEW forward
    PROVE  Once(Ranges(sts, forward))
<1>1. Once(sts)
  <2>1. DOMAIN sts = 1 .. Len(sts) OBVIOUS
  <2> QED BY <2>1 DEF IsInjective, Once
<1>2. Once(<<0, 1, 2, 3>>) BY DEF Once
<1>3. Once(<<-3, -2, -1>>) BY DEF Once
<1> QED BY <1>1, <1>2, <1>3 DEF Ranges

LEMMA ExtensionsOnce ==
    ASSUME I \in Graphs, NEW top \in [nptr : NodePtrs, path : Seq(Link), forward : BOOLEAN],
           EnumTypes \in Seq(STTypes), IsInjective(EnumTypes)
    PROVE  Once(Extensions(top))
<1>1. LinksOf(top.nptr, Ranges(EnumTypes, top.forward), EnumArrows) \in Seq(Link)
         /\ Once(LinksOf(top.nptr, Ranges(EnumTypes, top.forward), EnumArrows))
  BY RangesTypes, RangesOnce, LinksOfElements, LinksOnce
<1>2. PICK links \in Seq(Link) :
          /\ links = IF query.loaded THEN LinksOf(top.nptr, Ranges(EnumTypes, top.forward), EnumArrows)
                     ELSE <<>>
          /\ Extensions(top) = Sieve(links, Unvisited(top.path))
  BY ExtensionsSieve
<1>3. Once(links) BY <1>1, <1>2 DEF Once
<1> QED BY <1>2, <1>3, SieveOnce

-----------------------------------------------------------------------------
(* Trails. *)

(* No node twice. *)
NoRepeat(w) == \A i, j \in 1 .. Len(w) : w[i].dst = w[j].dst => i = j

LEMMA DagIs ==
    ASSUME NEW w \in Seq(Link)
    PROVE  IsDAG(w) <=> NoRepeat(w)
<1>1. PICK k \in Nat : k = Len(w) /\ DOMAIN w = 1 .. k OBVIOUS
<1> DEFINE f == [i \in 1 .. k |-> w[i].dst]
<1>2. f \in Surjection(1 .. k, Nodes(w)) BY <1>1 DEF Surjection, Nodes
<1>3. IsFiniteSet(1 .. k) /\ Cardinality(1 .. k) = k BY FS_Interval
<1>4. Cardinality(Nodes(w)) = k <=> f \in Injection(1 .. k, Nodes(w))
  <2> HIDE DEF f
  <2> QED BY <1>2, <1>3, FS_Surjection
<1>5. f \in Injection(1 .. k, Nodes(w)) <=> \A i, j \in 1 .. k : f[i] = f[j] => i = j
  <2>1. DOMAIN f = 1 .. k /\ f \in [1 .. k -> Nodes(w)] BY <1>2 DEF Surjection
  <2> HIDE DEF f
  <2> QED BY <2>1 DEF Injection, IsInjective
<1> QED BY <1>1, <1>4, <1>5 DEF IsDAG, NoRepeat

(* w is a walk without a repetition, or nothing. *)
Trail(w, n, sts, arrows) ==
    w \in Seq(Link) /\ NoRepeat(w) /\ (w # <<>> => Walk(w, n, sts, arrows))
OnwardFrom(n, w, sts, arrows) ==
    {Append(w, l) : l \in ToSet(LinksOf(IF w = <<>> THEN n ELSE Tip(w), sts, arrows))}

LEMMA TrailGoesOn ==
    ASSUME I \in Graphs, NEW n \in NodePtrs, NEW sts \in Seq(STTypes), NEW arrows,
           NEW w, Trail(w, n, sts, arrows), NEW l,
           Holds(LinksOf(IF w = <<>> THEN n ELSE Tip(w), sts, arrows), l)
    PROVE  /\ l \in Link /\ Append(w, l) \in Seq(Link) /\ Len(Append(w, l)) = Len(w) + 1
           /\ Walk(Append(w, l), n, sts, arrows)
<1>1. w \in Seq(Link) BY DEF Trail
<1>2. (IF w = <<>> THEN n ELSE Tip(w)) \in NodePtrs BY <1>1, TipIsNode
<1>3. l \in Link BY <1>2, LinksOfElements
<1>4. CASE w = <<>>
  <2>1. Append(w, l) = <<l>> BY <1>4
  <2> QED BY <1>1, <1>3, <1>4, <2>1, WalkBegins
<1>5. CASE w # <<>>
  <2>1. Walk(w, n, sts, arrows) BY <1>5 DEF Trail
  <2> QED BY <1>1, <1>3, <1>5, <2>1, WalkGoesOn
<1> QED BY <1>1, <1>3, <1>4, <1>5

LEMMA TrailIsStep ==
    ASSUME I \in Graphs, NEW n \in NodePtrs, NEW sts \in Seq(STTypes), NEW arrows,
           NEW w, Trail(w, n, sts, arrows), w # <<>>
    PROVE  \E v : /\ Trail(v, n, sts, arrows) /\ Len(v) = Len(w) - 1
                  /\ w \in OnwardFrom(n, v, sts, arrows)
<1>1. w \in Seq(Link) /\ Len(w) \in Nat \ {0} /\ NoRepeat(w) /\ Walk(w, n, sts, arrows) BY DEF Trail
<1>2. PICK k \in Nat : Len(w) = k + 1 BY <1>1
<1> DEFINE v == SubSeq(w, 1, k)
<1>3. v \in Seq(Link) /\ Len(v) = k /\ (\A i \in 1 .. k : v[i] = w[i]) /\ w = Append(v, w[k + 1])
  BY <1>1, <1>2
<1>4. NoRepeat(v)
  <2>1. 1 .. k \subseteq 1 .. Len(w) BY <1>2
  <2> HIDE DEF v
  <2> QED BY <1>1, <1>3, <2>1 DEF NoRepeat
<1>5. v # <<>> => Walk(v, n, sts, arrows)
  <2>1. k # 0 => k \in 1 .. Len(w) BY <1>2
  <2>2. v # <<>> => k # 0 BY <1>3
  <2> QED BY <1>1, <2>1, <2>2, WalkCut
<1>6. Trail(v, n, sts, arrows) BY <1>3, <1>4, <1>5 DEF Trail
<1>7. Holds(LinksOf(IF v = <<>> THEN n ELSE Tip(v), sts, arrows), w[k + 1])
  <2> HIDE DEF v
  <2>1. CASE k = 0
    <3>1. v = <<>> BY <1>3, <2>1
    <3> QED BY <1>1, <2>1, <3>1 DEF Walk
  <2>2. CASE k # 0
    <3>1. v # <<>> /\ k + 1 \in 2 .. Len(w) /\ k \in 1 .. k /\ (k + 1) - 1 = k BY <1>2, <1>3, <2>2
    <3>2. Tip(v) = w[k].dst BY <1>3, <3>1, TipIsNode
    <3>3. Holds(LinksOf(w[k].dst, sts, arrows), w[k + 1]) BY <1>1, <3>1 DEF Walk
    <3> QED BY <3>1, <3>2, <3>3
  <2> QED BY <2>1, <2>2
<1>8. w[k + 1] \in ToSet(LinksOf(IF v = <<>> THEN n ELSE Tip(v), sts, arrows))
  <2>1. PICK m \in NodePtrs : m = IF v = <<>> THEN n ELSE Tip(v) BY <1>3, TipIsNode
  <2>2. LinksOf(m, sts, arrows) \in Seq(Link) BY LinksOfElements
  <2> HIDE DEF v
  <2> QED BY <1>7, <2>1, <2>2, HoldsIsElement
<1> HIDE DEF v
<1>9. w \in OnwardFrom(n, v, sts, arrows) BY <1>3, <1>8 DEF OnwardFrom
<1> QED BY <1>2, <1>3, <1>6, <1>9

(* Trails(n, k, ...) are the trails of k links. *)
LEMMA TrailsAre ==
    ASSUME I \in Graphs, NEW n \in NodePtrs, NEW sts \in Seq(STTypes), NEW arrows, NEW k \in Nat
    PROVE  \A w : w \in Trails(n, k, sts, arrows) <=> Trail(w, n, sts, arrows) /\ Len(w) = k
<1> DEFINE T == [i \in 0 .. k |-> {w \in Seq(Link) : Trail(w, n, sts, arrows) /\ Len(w) = i}]
           Def(f) == f = [i \in 0 .. k |->
                              IF i = 0 THEN {<<>>}
                              ELSE {w \in UNION {OnwardFrom(n, v, sts, arrows) : v \in f[i - 1]} : IsDAG(w)}]
           trails == CHOOSE f : Def(f)
<1>1. Trails(n, k, sts, arrows) = trails[k] BY DEF Trails, OnwardFrom
<1>2. \A i \in 0 .. k : \A w : w \in T[i] <=> Trail(w, n, sts, arrows) /\ Len(w) = i
  BY DEF Trail
<1>3. T[0] = {<<>>}
  <2>1. \A w : w \in T[0] <=> w = <<>>
    <3>1. Trail(<<>>, n, sts, arrows) /\ Len(<<>>) = 0 BY DEF Trail, NoRepeat
    <3>2. \A w : w \in Seq(Link) /\ Len(w) = 0 => w = <<>> OBVIOUS
    <3>3. 0 \in 0 .. k OBVIOUS
    <3> HIDE DEF T
    <3> QED BY <1>2, <3>1, <3>2, <3>3 DEF Trail
  <2> HIDE DEF T
  <2> QED BY <2>1
<1>4. ASSUME NEW i \in 1 .. k
      PROVE  T[i] = {w \in UNION {OnwardFrom(n, v, sts, arrows) : v \in T[i - 1]} : IsDAG(w)}
  <2>0. i \in 0 .. k /\ i - 1 \in 0 .. k /\ i \in Nat /\ i # 0 OBVIOUS
  <2> HIDE DEF T
  <2>1. ASSUME NEW w \in T[i]
        PROVE  IsDAG(w) /\ \E v \in T[i - 1] : w \in OnwardFrom(n, v, sts, arrows)
    <3>1. Trail(w, n, sts, arrows) /\ Len(w) = i BY <1>2, <2>0
    <3>2. w # <<>> BY <2>0, <3>1
    <3>3. PICK v : /\ Trail(v, n, sts, arrows) /\ Len(v) = i - 1
                   /\ w \in OnwardFrom(n, v, sts, arrows)
      BY <3>1, <3>2, TrailIsStep
    <3>4. v \in T[i - 1] BY <1>2, <2>0, <3>3
    <3>5. IsDAG(w) BY <3>1, DagIs DEF Trail
    <3> QED BY <3>3, <3>4, <3>5
  <2>2. ASSUME NEW v \in T[i - 1], NEW w \in OnwardFrom(n, v, sts, arrows), IsDAG(w)
        PROVE  w \in T[i]
    <3>1. Trail(v, n, sts, arrows) /\ Len(v) = i - 1 BY <1>2, <2>0
    <3>2. PICK m \in NodePtrs : m = IF v = <<>> THEN n ELSE Tip(v) BY <3>1, TipIsNode DEF Trail
    <3>3. PICK l \in ToSet(LinksOf(m, sts, arrows)) : w = Append(v, l) BY <3>2 DEF OnwardFrom
    <3>4. Holds(LinksOf(m, sts, arrows), l)
      <4>1. LinksOf(m, sts, arrows) \in Seq(Link) BY LinksOfElements
      <4> QED BY <4>1, HoldsIsElement
    <3>5. w \in Seq(Link) /\ Len(w) = Len(v) + 1 /\ Walk(w, n, sts, arrows)
      BY <3>1, <3>2, <3>3, <3>4, TrailGoesOn
    <3>6. NoRepeat(w) BY <2>2, <3>5, DagIs
    <3>7. Trail(w, n, sts, arrows) /\ Len(w) = i BY <2>0, <3>1, <3>5, <3>6 DEF Trail
    <3> QED BY <1>2, <2>0, <3>7
  <2> QED BY <2>1, <2>2
<1>5. Def(T)
  <2>1. \A i \in 0 .. k : T[i] = IF i = 0 THEN {<<>>}
              ELSE {w \in UNION {OnwardFrom(n, v, sts, arrows) : v \in T[i - 1]} : IsDAG(w)}
    <3>1. \A i \in 0 .. k : i = 0 \/ i \in 1 .. k OBVIOUS
    <3> HIDE DEF T
    <3> QED BY <1>3, <1>4, <3>1
  <2>2. T = [i \in 0 .. k |-> T[i]] OBVIOUS
  <2> HIDE DEF T
  <2>3. [i \in 0 .. k |-> T[i]] = [i \in 0 .. k |-> IF i = 0 THEN {<<>>}
              ELSE {w \in UNION {OnwardFrom(n, v, sts, arrows) : v \in T[i - 1]} : IsDAG(w)}]
    BY <2>1
  <2> QED BY <2>2, <2>3
<1> HIDE DEF T
<1>6. Def(trails)
  <2> HIDE DEF Def
  <2> QED BY <1>5
<1> HIDE DEF trails
<1>7. \A i \in 0 .. k : trails[i] = IF i = 0 THEN {<<>>}
              ELSE {w \in UNION {OnwardFrom(n, v, sts, arrows) : v \in trails[i - 1]} : IsDAG(w)}
  BY <1>6
<1> HIDE DEF Def
<1> DEFINE S == {i \in 0 .. k : trails[i] = T[i]}
<1>8. 0 \in S
  <2>1. 0 \in 0 .. k OBVIOUS
  <2>2. trails[0] = {<<>>} BY <1>7, <2>1
  <2> QED BY <1>3, <2>1, <2>2
<1>9. ASSUME NEW i \in 1 .. k, i - 1 \in S PROVE i \in S
  <2>1. i \in 0 .. k /\ i # 0 /\ trails[i - 1] = T[i - 1] BY <1>9
  <2> QED BY <1>4, <1>7, <2>1
<1>10. S \in SUBSET (0 .. k) OBVIOUS
<1>11. k \in S
  <2> HIDE DEF S
  <2>1. S = 0 .. k BY <1>8, <1>9, <1>10, InductionOnSteps
  <2> QED BY <2>1
<1>12. trails[k] = T[k] /\ k \in 0 .. k BY <1>11
<1> QED BY <1>1, <1>2, <1>12

-----------------------------------------------------------------------------
(* What a call of enumeratePaths promises. *)

TypesOf(c) == Ranges(query.sttypes, c.forward)
(* The path goes on inside the chapter. *)
GoesOn(w, sts) == \E l : Holds(LinksOf(Tip(w), sts, query.arrows), l) /\ l \in Unvisited(w)
Promise(c) ==
    {w \in Seq(Link) :
        /\ Walk(w, c.nptr, TypesOf(c), query.arrows) /\ NoRepeat(w)
        /\ Nodes(w) \subseteq query.admit
        /\ Len(w) <= query.depth /\ (Len(w) < query.depth => ~GoesOn(w, TypesOf(c)))}

LEMMA MaximalIsPromise ==
    ASSUME I \in Graphs, query \in Queries, NEW c, c.nptr \in NodePtrs
    PROVE  Maximal(c) = Promise(c)
<1>1. query.depth \in Nat \ {0} /\ query.sttypes \in Seq(STTypes) BY QueryIs
<1>2. PICK sts \in Seq(STTypes) : sts = TypesOf(c) BY <1>1, RangesTypes DEF TypesOf
<1>3. PICK n \in NodePtrs : n = c.nptr OBVIOUS
<1> DEFINE inside(k) == {w \in Trails(n, k, sts, query.arrows) : Nodes(w) \subseteq query.admit}
           more(w) == \E m \in query.admit \ Nodes(w) : m \in Hops(Tip(w), sts, query.arrows)
<1>4. ASSUME NEW w \in Seq(Link), w # <<>> PROVE more(w) <=> GoesOn(w, sts)
  <2>1. Tip(w) \in NodePtrs BY <1>4, TipIsNode
  <2>2. LinksOf(Tip(w), sts, query.arrows) \in Seq(Link) BY <2>1, LinksOfElements
  <2>3. \A l : Holds(LinksOf(Tip(w), sts, query.arrows), l) <=> l \in ToSet(LinksOf(Tip(w), sts, query.arrows))
    BY <2>2, HoldsIsElement
  <2>4. \A l : Holds(LinksOf(Tip(w), sts, query.arrows), l) => l \in Link BY <2>2, HoldsIsElement
  <2> QED BY <2>3, <2>4 DEF GoesOn, Hops, Unvisited
<1>5. Maximal(c) = inside(query.depth) \cup
                   UNION {{w \in inside(k) : ~more(w)} : k \in 1 .. (query.depth - 1)}
  <2> DEFINE f == [k \in 0 .. query.depth |-> inside(k)]
  <2>1. Maximal(c) = f[query.depth] \cup UNION {{w \in f[k] : ~more(w)} : k \in 1 .. (query.depth - 1)}
    BY <1>2, <1>3 DEF Maximal, TypesOf
  <2>2. query.depth \in 0 .. query.depth /\ \A k \in 1 .. (query.depth - 1) : k \in 0 .. query.depth
    BY <1>1
  <2>3. \A k \in 0 .. query.depth : f[k] = inside(k) OBVIOUS
  <2> HIDE DEF f, inside, more
  <2> QED BY <2>1, <2>2, <2>3
<1>6. \A k \in Nat : \A w : w \in inside(k) <=>
          /\ w \in Seq(Link) /\ NoRepeat(w) /\ (w # <<>> => Walk(w, n, sts, query.arrows))
          /\ Nodes(w) \subseteq query.admit /\ Len(w) = k
  BY TrailsAre DEF Trail
<1>7. \A w : w \in Promise(c) <=>
          /\ w \in Seq(Link) /\ Walk(w, n, sts, query.arrows) /\ NoRepeat(w)
          /\ Nodes(w) \subseteq query.admit
          /\ Len(w) <= query.depth /\ (Len(w) < query.depth => ~GoesOn(w, sts))
  BY <1>2, <1>3 DEF Promise
<1> HIDE DEF inside, more
<1>8. ASSUME NEW w \in Promise(c) PROVE w \in Maximal(c)
  <2>1. w \in Seq(Link) /\ w # <<>> /\ Len(w) \in Nat \ {0} /\ Len(w) <= query.depth
    BY <1>7 DEF Walk
  <2>2. w \in inside(Len(w)) BY <1>6, <1>7, <2>1
  <2>3. CASE Len(w) = query.depth BY <1>5, <2>2, <2>3
  <2>4. CASE Len(w) # query.depth
    <3>1. Len(w) \in 1 .. (query.depth - 1) /\ Len(w) < query.depth BY <1>1, <2>1, <2>4
    <3>2. ~more(w) BY <1>4, <1>7, <2>1, <3>1
    <3> QED BY <1>5, <2>2, <3>1, <3>2
  <2> QED BY <2>3, <2>4
<1>9. ASSUME NEW w \in Maximal(c) PROVE w \in Promise(c)
  <2>1. CASE w \in inside(query.depth)
    <3>1. w \in Seq(Link) /\ Len(w) = query.depth /\ w # <<>> BY <1>1, <1>6, <2>1
    <3> QED BY <1>1, <1>6, <1>7, <2>1, <3>1
  <2>2. CASE w \notin inside(query.depth)
    <3>1. PICK k \in 1 .. (query.depth - 1) : w \in inside(k) /\ ~more(w) BY <1>5, <2>2
    <3>2. k \in Nat /\ k # 0 /\ k < query.depth BY <1>1
    <3>3. w \in Seq(Link) /\ Len(w) = k /\ w # <<>> BY <1>6, <3>1, <3>2
    <3>4. ~GoesOn(w, sts) BY <1>4, <3>1, <3>3
    <3> QED BY <1>1, <1>6, <1>7, <3>1, <3>2, <3>3, <3>4
  <2> QED BY <2>1, <2>2
<1> QED BY <1>8, <1>9

-----------------------------------------------------------------------------
(* The depth-first search, call by call. *)

Begins(p, w) == Len(p) <= Len(w) /\ \A i \in 1 .. Len(p) : w[i] = p[i]

(* The frames that are part of call c. *)
PartFrames(c) ==
    {s \in [nptr : NodePtrs, path : Seq(Link), forward : BOOLEAN] :
        /\ FrameAt(s, c.nptr, query.sttypes, query.arrows) /\ s.forward = c.forward
        /\ NoRepeat(s.path) /\ Nodes(s.path) \subseteq query.admit /\ Len(s.path) <= query.depth}

(* Result k was found by call tag[k], and by no call twice; no frame of    *)
(* the current call leads to a result again; every promised path is found  *)
(* or begins on a frame.                                                   *)
Tagged(fnd, C, cur, tag) ==
    /\ fnd \in Seq(Seq(Link)) /\ tag \in [1 .. Len(fnd) -> 1 .. cur]
    /\ \A k \in 1 .. Len(fnd) : fnd[k] \in Promise(C[tag[k]])
    /\ \A k, m \in 1 .. Len(fnd) : tag[k] = tag[m] /\ fnd[k] = fnd[m] => k = m
StillAhead(stk, fnd, cur, tag) ==
    \A k \in 1 .. Len(fnd), s \in 1 .. Len(stk) : tag[k] = cur => ~Begins(stk[s].path, fnd[k])
Kept(stk, fnd, C, cur, tag) ==
    \A i \in 1 .. cur : \A w \in Promise(C[i]) :
        \/ \E k \in 1 .. Len(fnd) : tag[k] = i /\ fnd[k] = w
        \/ i = cur /\ \E s \in 1 .. Len(stk) : Begins(stk[s].path, w)
(* No frame leads where another does. *)
Apart(stk) == \A s, t \in 1 .. Len(stk) : Begins(stk[s].path, stk[t].path) => s = t

Covers(stk, fnd, C, cur) ==
    /\ cur \in 0 .. Len(C) /\ (stk # <<>> => cur # 0)
    /\ stk \in Seq(PartFrames(C[cur])) /\ Apart(stk)
    /\ \E tag : /\ Tagged(fnd, C, cur, tag) /\ StillAhead(stk, fnd, cur, tag)
                /\ Len(fnd) < query.limit => Kept(stk, fnd, C, cur, tag)

LEMMA NextCallCovers ==
    ASSUME query \in Queries, NEW starts, NEW C \in Seq(Fresh(starts)), NEW cur \in Nat,
           cur + 1 <= Len(C), NEW stk, NEW fnd, Covers(stk, fnd, C, cur),
           stk = <<>> \/ Len(fnd) >= query.limit
    PROVE  Covers(<<C[cur + 1]>>, fnd, C, cur + 1)
<1>1. PICK c \in Fresh(starts) : c = C[cur + 1]
  <2>1. cur + 1 \in 1 .. Len(C) OBVIOUS
  <2> QED BY <2>1
<1>2. /\ c \in [nptr : NodePtrs, path : Seq(Link), forward : BOOLEAN] /\ c.path = <<>>
  BY DEF Fresh
<1>3. c \in PartFrames(c)
  <2>1. NoRepeat(<<>>) /\ Nodes(<<>>) = {} BY DEF NoRepeat, Nodes
  <2>2. query.depth \in Nat /\ Len(<<>>) = 0 BY QueryIs
  <2> QED BY <1>2, <2>1, <2>2 DEF PartFrames, FrameAt
<1>4. <<c>> \in Seq(PartFrames(C[cur + 1])) /\ Len(<<c>>) = 1 /\ <<c>>[1] = c BY <1>1, <1>3
<1>5. Apart(<<c>>) BY <1>4 DEF Apart
<1>6. PICK tag : /\ Tagged(fnd, C, cur, tag) /\ StillAhead(stk, fnd, cur, tag)
                 /\ Len(fnd) < query.limit => Kept(stk, fnd, C, cur, tag)
  BY DEF Covers
<1>7. fnd \in Seq(Seq(Link)) /\ Len(fnd) \in Nat /\ query.limit \in Nat BY <1>6, QueryIs DEF Tagged
<1>8. \A k \in 1 .. Len(fnd) : tag[k] \in 1 .. cur BY <1>6 DEF Tagged
<1>9. Tagged(fnd, C, cur + 1, tag)
  <2>1. 1 .. cur \subseteq 1 .. (cur + 1) OBVIOUS
  <2>2. tag \in [1 .. Len(fnd) -> 1 .. (cur + 1)] BY <1>6, <2>1 DEF Tagged
  <2> QED BY <1>6, <2>2 DEF Tagged
<1>10. StillAhead(<<c>>, fnd, cur + 1, tag)
  <2>1. \A k \in 1 .. Len(fnd) : tag[k] # cur + 1 BY <1>8
  <2> QED BY <2>1 DEF StillAhead
<1>11. ASSUME Len(fnd) < query.limit PROVE Kept(<<c>>, fnd, C, cur + 1, tag)
  <2>1. stk = <<>> BY <1>7, <1>11
  <2>2. Kept(<<>>, fnd, C, cur, tag) BY <1>6, <1>11, <2>1
  <2>3. ASSUME NEW i \in 1 .. (cur + 1), NEW w \in Promise(C[i])
        PROVE  \/ \E k \in 1 .. Len(fnd) : tag[k] = i /\ fnd[k] = w
               \/ i = cur + 1 /\ \E s \in 1 .. Len(<<c>>) : Begins(<<c>>[s].path, w)
    <3>1. CASE i = cur + 1
      <4>1. w \in Seq(Link) BY DEF Promise
      <4>2. Begins(<<>>, w) BY <4>1 DEF Begins
      <4> QED BY <1>2, <1>4, <3>1, <4>2
    <3>2. CASE i # cur + 1
      <4>1. i \in 1 .. cur BY <3>2
      <4>2. Len(<<>>) = 0 /\ 1 .. 0 = {} OBVIOUS
      <4> QED BY <2>2, <4>1, <4>2 DEF Kept
    <3> QED BY <3>1, <3>2
  <2> QED BY <2>3 DEF Kept
<1>12. cur + 1 \in 0 .. Len(C) /\ cur + 1 # 0 OBVIOUS
<1> QED BY <1>1, <1>4, <1>5, <1>9, <1>10, <1>11, <1>12 DEF Covers

(* A frame is taken from the stack. *)
LEMMA PoppedIs ==
    ASSUME NEW F, NEW stk \in Seq(F), stk # <<>>
    PROVE  /\ Len(stk) \in Nat \ {0} /\ Last(stk) = stk[Len(stk)] /\ Last(stk) \in F
           /\ Front(stk) \in Seq(F) /\ Len(Front(stk)) = Len(stk) - 1
           /\ \A s \in 1 .. (Len(stk) - 1) : Front(stk)[s] = stk[s]
<1>1. Len(stk) \in Nat /\ Len(stk) # 0 OBVIOUS
<1>2. PICK n \in Nat : Len(stk) = n + 1 BY <1>1
<1>3. Len(stk) \in 1 .. Len(stk) BY <1>1
<1>4. Last(stk) = stk[Len(stk)] /\ Last(stk) \in F BY <1>3 DEF Last
<1>5. Front(stk) = SubSeq(stk, 1, n) /\ Len(stk) - 1 = n BY <1>2 DEF Front
<1>6. /\ SubSeq(stk, 1, n) \in Seq(F) /\ Len(SubSeq(stk, 1, n)) = n
      /\ \A s \in 1 .. n : SubSeq(stk, 1, n)[s] = stk[s]
  BY <1>2
<1> QED BY <1>1, <1>4, <1>5, <1>6

LEMMA AppendedIs ==
    ASSUME NEW F, NEW s \in Seq(F), NEW x \in F
    PROVE  /\ Append(s, x) \in Seq(F) /\ Len(Append(s, x)) = Len(s) + 1
           /\ Append(s, x)[Len(s) + 1] = x /\ \A i \in 1 .. Len(s) : Append(s, x)[i] = s[i]
OBVIOUS

LEMMA ConcatIs ==
    ASSUME NEW F, NEW q \in Seq(F), NEW s \in Seq(F), NEW n \in Nat, n = Len(q), NEW b \in Nat, b = Len(s)
    PROVE  /\ q \o s \in Seq(F) /\ Len(q \o s) = n + b
           /\ \A i \in 1 .. n : (q \o s)[i] = q[i]
           /\ \A i \in (n + 1) .. (n + b) : (q \o s)[i] = s[i - n] /\ i - n \in 1 .. b
OBVIOUS

LEMMA EmitCovers ==
    ASSUME query \in Queries, NEW C, Len(C) \in Nat, NEW cur, NEW stk, NEW fnd, Covers(stk, fnd, C, cur),
           stk # <<>>, NEW p, p = Last(stk).path, p \in Promise(C[cur]),
           \A w \in Promise(C[cur]) : Begins(p, w) => w = p
    PROVE  Covers(Front(stk), Append(fnd, p), C, cur)
<1>1. stk \in Seq(PartFrames(C[cur])) /\ cur \in 0 .. Len(C) /\ cur # 0 /\ Apart(stk) BY DEF Covers
<1>2. PICK n \in Nat : n = Len(stk) - 1 BY <1>1, PoppedIs
<1>3. PICK rest \in Seq(PartFrames(C[cur])) : rest = Front(stk) BY <1>1, PoppedIs
<1>4. /\ Len(stk) = n + 1 /\ p = stk[n + 1].path /\ Len(rest) = n
      /\ \A s \in 1 .. n : rest[s] = stk[s]
  BY <1>1, <1>2, <1>3, PoppedIs
<1>5. Apart(rest) BY <1>1, <1>4 DEF Apart
<1>6. PICK tag : /\ Tagged(fnd, C, cur, tag) /\ StillAhead(stk, fnd, cur, tag)
                 /\ Len(fnd) < query.limit => Kept(stk, fnd, C, cur, tag)
  BY DEF Covers
<1>7. p \in Seq(Link) BY DEF Promise
<1>8. PICK m \in Nat : m = Len(fnd) BY <1>6 DEF Tagged
<1>9. PICK S : S = Seq(Link) OBVIOUS
<1>10. PICK fnd2 \in Seq(S) : /\ fnd2 = Append(fnd, p) /\ Len(fnd2) = m + 1 /\ fnd2[m + 1] = p
                              /\ \A k \in 1 .. m : fnd2[k] = fnd[k]
  <2>1. fnd \in Seq(S) /\ p \in S BY <1>6, <1>7, <1>9 DEF Tagged
  <2>2. /\ Append(fnd, p) \in Seq(S) /\ Len(Append(fnd, p)) = Len(fnd) + 1
        /\ Append(fnd, p)[Len(fnd) + 1] = p /\ \A k \in 1 .. Len(fnd) : Append(fnd, p)[k] = fnd[k]
    BY <2>1, AppendedIs
  <2>3. PICK q \in Seq(S) : q = Append(fnd, p) BY <2>2
  <2> QED BY <1>8, <2>2, <2>3
<1> DEFINE tag2 == [k \in 1 .. (m + 1) |-> IF k = m + 1 THEN cur ELSE tag[k]]
<1>11. /\ tag2[m + 1] = cur /\ \A k \in 1 .. m : tag2[k] = tag[k] /\ tag[k] \in 1 .. cur
       /\ cur \in 1 .. cur
  <2>1. \A k \in 1 .. m : tag[k] \in 1 .. cur BY <1>6, <1>8 DEF Tagged
  <2>2. cur \in 1 .. cur BY <1>1
  <2>3. \A k \in 1 .. m : k \in 1 .. (m + 1) /\ k # m + 1 OBVIOUS
  <2> QED BY <2>1, <2>2, <2>3
<1>12. \A k \in 1 .. (m + 1) : k = m + 1 \/ k \in 1 .. m OBVIOUS
<1>13. tag2 \in [1 .. (m + 1) -> 1 .. cur] BY <1>11, <1>12
<1> HIDE DEF tag2
<1>14. \A k \in 1 .. m : tag[k] = cur => fnd[k] # p
  <2>1. \A k \in 1 .. m : tag[k] = cur => ~Begins(p, fnd[k])
    <3>1. n + 1 \in 1 .. Len(stk) BY <1>4
    <3> QED BY <1>4, <1>6, <1>8, <3>1 DEF StillAhead
  <2>2. Begins(p, p) BY <1>7 DEF Begins
  <2> QED BY <2>1, <2>2
<1>15. Tagged(fnd2, C, cur, tag2)
  <2>1. \A k \in 1 .. (m + 1) : fnd2[k] \in Promise(C[tag2[k]])
    BY <1>6, <1>8, <1>10, <1>11, <1>12 DEF Tagged
  <2>2. ASSUME NEW k \in 1 .. (m + 1), NEW j \in 1 .. (m + 1), tag2[k] = tag2[j], fnd2[k] = fnd2[j]
        PROVE  k = j
    <3>1. CASE k \in 1 .. m /\ j \in 1 .. m BY <1>6, <1>8, <1>10, <1>11, <2>2, <3>1 DEF Tagged
    <3>2. CASE k \in 1 .. m /\ j = m + 1 BY <1>10, <1>11, <1>14, <2>2, <3>2
    <3>3. CASE k = m + 1 /\ j \in 1 .. m BY <1>10, <1>11, <1>14, <2>2, <3>3
    <3> QED BY <1>12, <3>1, <3>2, <3>3
  <2> QED BY <1>9, <1>10, <1>13, <2>1, <2>2 DEF Tagged
<1>16. StillAhead(rest, fnd2, cur, tag2)
  <2> SUFFICES ASSUME NEW k \in 1 .. (m + 1), NEW s \in 1 .. n, tag2[k] = cur
               PROVE  ~Begins(rest[s].path, fnd2[k])
    BY <1>4, <1>10 DEF StillAhead
  <2>1. s \in 1 .. Len(stk) /\ n + 1 \in 1 .. Len(stk) /\ s # n + 1 BY <1>4
  <2>2. CASE k = m + 1 BY <1>1, <1>4, <1>10, <2>1, <2>2 DEF Apart
  <2>3. CASE k \in 1 .. m BY <1>4, <1>6, <1>8, <1>10, <1>11, <2>1, <2>3 DEF StillAhead
  <2> QED BY <1>12, <2>2, <2>3
<1>17. ASSUME Len(fnd2) < query.limit PROVE Kept(rest, fnd2, C, cur, tag2)
  <2>1. Kept(stk, fnd, C, cur, tag) BY <1>6, <1>8, <1>10, <1>17, QueryIs
  <2> SUFFICES ASSUME NEW i \in 1 .. cur, NEW w \in Promise(C[i])
               PROVE  \/ \E k \in 1 .. Len(fnd2) : tag2[k] = i /\ fnd2[k] = w
                      \/ i = cur /\ \E s \in 1 .. Len(rest) : Begins(rest[s].path, w)
    BY DEF Kept
  <2>2. \/ \E k \in 1 .. m : tag[k] = i /\ fnd[k] = w
        \/ i = cur /\ \E s \in 1 .. Len(stk) : Begins(stk[s].path, w)
    BY <1>8, <2>1 DEF Kept
  <2>3. CASE \E k \in 1 .. m : tag[k] = i /\ fnd[k] = w
    <3>1. PICK k \in 1 .. m : tag[k] = i /\ fnd[k] = w BY <2>3
    <3>2. k \in 1 .. Len(fnd2) /\ tag2[k] = i /\ fnd2[k] = w BY <1>10, <1>11, <3>1
    <3> QED BY <3>2
  <2>4. CASE i = cur /\ \E s \in 1 .. Len(stk) : Begins(stk[s].path, w)
    <3>1. PICK s \in 1 .. Len(stk) : Begins(stk[s].path, w) BY <2>4
    <3>2. CASE s = n + 1
      <4>1. w = p BY <1>4, <2>4, <3>1, <3>2
      <4>2. m + 1 \in 1 .. Len(fnd2) BY <1>10
      <4> QED BY <1>10, <1>11, <2>4, <4>1, <4>2
    <3>3. CASE s # n + 1
      <4>1. s \in 1 .. n BY <1>4, <3>3
      <4>2. s \in 1 .. Len(rest) /\ Begins(rest[s].path, w) BY <1>4, <3>1, <4>1
      <4> QED BY <2>4, <4>2
    <3> QED BY <3>2, <3>3
  <2> QED BY <2>2, <2>3, <2>4
<1> QED BY <1>1, <1>3, <1>5, <1>10, <1>15, <1>16, <1>17 DEF Covers

LEMMA DropCovers ==
    ASSUME NEW C, NEW cur, NEW stk, NEW fnd, Covers(stk, fnd, C, cur),
           stk # <<>>, \A w \in Promise(C[cur]) : ~Begins(Last(stk).path, w)
    PROVE  Covers(Front(stk), fnd, C, cur)
<1>1. stk \in Seq(PartFrames(C[cur])) /\ cur \in 0 .. Len(C) /\ cur # 0 /\ Apart(stk) BY DEF Covers
<1>2. PICK n \in Nat : n = Len(stk) - 1 BY <1>1, PoppedIs
<1>3. PICK rest \in Seq(PartFrames(C[cur])) : rest = Front(stk) BY <1>1, PoppedIs
<1>4. /\ Len(stk) = n + 1 /\ Last(stk) = stk[n + 1] /\ Len(rest) = n
      /\ \A s \in 1 .. n : rest[s] = stk[s]
  BY <1>1, <1>2, <1>3, PoppedIs
<1>5. Apart(rest) BY <1>1, <1>4 DEF Apart
<1>6. PICK tag : /\ Tagged(fnd, C, cur, tag) /\ StillAhead(stk, fnd, cur, tag)
                 /\ Len(fnd) < query.limit => Kept(stk, fnd, C, cur, tag)
  BY DEF Covers
<1>7. StillAhead(rest, fnd, cur, tag) BY <1>4, <1>6 DEF StillAhead
<1>8. ASSUME Len(fnd) < query.limit PROVE Kept(rest, fnd, C, cur, tag)
  <2>1. Kept(stk, fnd, C, cur, tag) BY <1>6, <1>8
  <2>2. ASSUME NEW w \in Promise(C[cur]), NEW s \in 1 .. Len(stk), Begins(stk[s].path, w)
        PROVE  s \in 1 .. Len(rest) /\ Begins(rest[s].path, w)
    <3>1. s # n + 1 BY <1>4, <2>2
    <3>2. s \in 1 .. n BY <1>4, <3>1
    <3> QED BY <1>4, <2>2, <3>2
  <2> QED BY <2>1, <2>2 DEF Kept
<1> QED BY <1>1, <1>3, <1>5, <1>6, <1>7, <1>8 DEF Covers

LEMMA BranchCovers ==
    ASSUME NEW C, NEW cur, NEW stk, NEW fnd, Covers(stk, fnd, C, cur), stk # <<>>,
           NEW p \in Seq(Link), p = Last(stk).path, NEW links \in Seq(Link), Once(links),
           NEW new \in Seq(PartFrames(C[cur])), Len(new) = Len(links),
           \A i \in 1 .. Len(links) : new[i].path = Append(p, links[i]),
           \A w \in Promise(C[cur]) : Begins(p, w) => \E i \in 1 .. Len(links) : Begins(Append(p, links[i]), w)
    PROVE  Covers(Front(stk) \o new, fnd, C, cur)
<1>1. stk \in Seq(PartFrames(C[cur])) /\ cur \in 0 .. Len(C) /\ cur # 0 /\ Apart(stk) BY DEF Covers
<1>2. PICK n \in Nat : n = Len(stk) - 1 BY <1>1, PoppedIs
<1>3. PICK rest \in Seq(PartFrames(C[cur])) : rest = Front(stk) BY <1>1, PoppedIs
<1>4. /\ Len(stk) = n + 1 /\ p = stk[n + 1].path /\ Len(rest) = n
      /\ \A s \in 1 .. n : rest[s] = stk[s]
  <2>1. /\ Len(stk) \in Nat \ {0} /\ Last(stk) = stk[Len(stk)] /\ Len(Front(stk)) = Len(stk) - 1
        /\ \A s \in 1 .. (Len(stk) - 1) : Front(stk)[s] = stk[s]
    BY <1>1, PoppedIs
  <2>2. Len(stk) = n + 1 BY <1>2, <2>1
  <2> QED BY <1>2, <1>3, <2>1, <2>2
<1>5. PICK b \in Nat : b = Len(links) OBVIOUS
<1>6. PICK a \in Nat : a = Len(p) OBVIOUS
<1>7. \A i \in 1 .. b : /\ Len(Append(p, links[i])) = a + 1 /\ Append(p, links[i])[a + 1] = links[i]
                        /\ \A j \in 1 .. a : Append(p, links[i])[j] = p[j]
  BY <1>5, <1>6, AppendedIs
<1>8. PICK all \in Seq(PartFrames(C[cur])) :
          /\ all = rest \o new /\ Len(all) = n + b
          /\ \A s \in 1 .. n : all[s] = stk[s]
          /\ \A s \in (n + 1) .. (n + b) : all[s] = new[s - n] /\ s - n \in 1 .. b
  <2>1. PICK F : F = PartFrames(C[cur]) OBVIOUS
  <2>2. rest \in Seq(F) /\ new \in Seq(F) /\ n = Len(rest) /\ b = Len(new) BY <1>4, <1>5, <2>1
  <2>3. PICK q : q = rest \o new OBVIOUS
  <2>4. /\ q \in Seq(F) /\ Len(q) = n + b /\ \A s \in 1 .. n : q[s] = rest[s]
        /\ \A s \in (n + 1) .. (n + b) : q[s] = new[s - n] /\ s - n \in 1 .. b
    <3>1. PICK r \in Seq(F) : r = rest BY <2>2
    <3>2. PICK v \in Seq(F) : v = new BY <2>2
    <3>3. n = Len(r) /\ b = Len(v) BY <2>2, <3>1, <3>2
    <3>4. /\ r \o v \in Seq(F) /\ Len(r \o v) = n + b
          /\ \A i \in 1 .. n : (r \o v)[i] = r[i]
          /\ \A i \in (n + 1) .. (n + b) : (r \o v)[i] = v[i - n] /\ i - n \in 1 .. b
      BY <3>3, ConcatIs
    <3> QED BY <2>3, <3>1, <3>2, <3>4
  <2>5. \A s \in 1 .. n : q[s] = stk[s] BY <1>4, <2>4
  <2> QED BY <2>1, <2>3, <2>4, <2>5
<1>9. \A s \in 1 .. Len(all) : s \in 1 .. n \/ s \in (n + 1) .. (n + b) BY <1>8
<1>10. \A s \in 1 .. n : s \in 1 .. Len(stk) /\ s # n + 1 BY <1>4
<1>11. n + 1 \in 1 .. Len(stk) BY <1>4
(* What a new frame leads to, the one that was taken led to. *)
<1>12. ASSUME NEW i \in 1 .. b, NEW w, Begins(Append(p, links[i]), w), Len(w) \in Nat
       PROVE  Begins(p, w)
  <2>1. /\ a + 1 <= Len(w) /\ \A j \in 1 .. (a + 1) : w[j] = Append(p, links[i])[j]
    BY <1>7, <1>12 DEF Begins
  <2>2. \A j \in 1 .. a : j \in 1 .. (a + 1) OBVIOUS
  <2> QED BY <1>6, <1>7, <1>12, <2>1, <2>2 DEF Begins
<1>13. \A s \in 1 .. Len(stk) : stk[s].path \in Seq(Link) BY <1>1 DEF PartFrames
<1>14. ASSUME NEW s \in 1 .. Len(all), NEW t \in 1 .. Len(all), Begins(all[s].path, all[t].path)
       PROVE  s = t
  <2>1. CASE s \in 1 .. n /\ t \in 1 .. n BY <1>1, <1>8, <1>10, <1>14, <2>1 DEF Apart
  <2>2. CASE s \in (n + 1) .. (n + b) /\ t \in 1 .. n
    <3>1. PICK i \in 1 .. b : i = s - n /\ all[s].path = Append(p, links[i]) BY <1>5, <1>8, <2>2
    <3>2. PICK q \in Seq(Link) : q = stk[t].path BY <1>10, <1>13, <2>2
    <3>3. Begins(Append(p, links[i]), q) BY <1>8, <1>14, <2>2, <3>1, <3>2
    <3>4. Len(q) \in Nat BY <3>2
    <3>5. Begins(p, q) BY <1>12, <3>3, <3>4
    <3> QED BY <1>1, <1>4, <1>10, <1>11, <2>2, <3>2, <3>5 DEF Apart
  <2>3. CASE s \in 1 .. n /\ t \in (n + 1) .. (n + b)
    <3>1. PICK i \in 1 .. b : i = t - n /\ all[t].path = Append(p, links[i]) BY <1>5, <1>8, <2>3
    <3>2. PICK q \in Seq(Link) : q = stk[s].path BY <1>10, <1>13, <2>3
    <3>3. Begins(q, Append(p, links[i])) BY <1>8, <1>14, <2>3, <3>1, <3>2
    <3>4. Len(q) \in Nat /\ Len(q) <= a + 1 BY <1>7, <3>3 DEF Begins
    <3>5. CASE Len(q) <= a
      <4>1. \A j \in 1 .. Len(q) : j \in 1 .. a BY <3>4, <3>5
      <4>2. Begins(q, p) BY <1>6, <1>7, <3>3, <3>5, <4>1 DEF Begins
      <4> QED BY <1>1, <1>4, <1>10, <1>11, <2>3, <3>2, <4>2 DEF Apart
    <3>6. CASE Len(q) = a + 1
      <4>1. \A j \in 1 .. a : j \in 1 .. Len(q) BY <3>6
      <4>2. Begins(p, q) BY <1>6, <1>7, <3>3, <3>6, <4>1 DEF Begins
      <4> QED BY <1>1, <1>4, <1>10, <1>11, <2>3, <3>2, <4>2 DEF Apart
    <3> QED BY <3>4, <3>5, <3>6
  <2>4. CASE s \in (n + 1) .. (n + b) /\ t \in (n + 1) .. (n + b)
    <3>1. PICK i \in 1 .. b : i = s - n /\ all[s].path = Append(p, links[i]) BY <1>5, <1>8, <2>4
    <3>2. PICK k \in 1 .. b : k = t - n /\ all[t].path = Append(p, links[k]) BY <1>5, <1>8, <2>4
    <3>3. a + 1 \in 1 .. (a + 1) BY <1>6
    <3>4. links[i] = links[k] BY <1>7, <1>14, <3>1, <3>2, <3>3 DEF Begins
    <3>5. i = k BY <1>5, <3>4 DEF Once
    <3> QED BY <2>4, <3>1, <3>2, <3>5
  <2> QED BY <1>9, <2>1, <2>2, <2>3, <2>4
<1>15. Apart(all) BY <1>14 DEF Apart
<1>16. PICK tag : /\ Tagged(fnd, C, cur, tag) /\ StillAhead(stk, fnd, cur, tag)
                  /\ Len(fnd) < query.limit => Kept(stk, fnd, C, cur, tag)
  BY DEF Covers
<1>17. \A k \in 1 .. Len(fnd) : fnd[k] \in Seq(Link) BY <1>16 DEF Tagged
<1>18. StillAhead(all, fnd, cur, tag)
  <2> SUFFICES ASSUME NEW k \in 1 .. Len(fnd), NEW s \in 1 .. Len(all), tag[k] = cur
               PROVE  ~Begins(all[s].path, fnd[k])
    BY DEF StillAhead
  <2>1. CASE s \in 1 .. n BY <1>8, <1>10, <1>16, <2>1 DEF StillAhead
  <2>2. CASE s \in (n + 1) .. (n + b)
    <3>1. PICK i \in 1 .. b : all[s].path = Append(p, links[i]) BY <1>5, <1>8, <2>2
    <3>2. ~Begins(p, fnd[k]) BY <1>4, <1>11, <1>16 DEF StillAhead
    <3> QED BY <1>12, <1>17, <3>1, <3>2
  <2> QED BY <1>9, <2>1, <2>2
<1>19. ASSUME Len(fnd) < query.limit PROVE Kept(all, fnd, C, cur, tag)
  <2>1. Kept(stk, fnd, C, cur, tag) BY <1>16, <1>19
  <2>2. ASSUME NEW w \in Promise(C[cur]), NEW s \in 1 .. Len(stk), Begins(stk[s].path, w)
        PROVE  \E t \in 1 .. Len(all) : Begins(all[t].path, w)
    <3>1. CASE s = n + 1
      <4>1. PICK i \in 1 .. b : Begins(Append(p, links[i]), w) BY <1>4, <1>5, <2>2, <3>1
      <4>2. n + i \in (n + 1) .. (n + b) /\ n + i \in 1 .. Len(all) /\ (n + i) - n = i BY <1>8
      <4>3. all[n + i].path = Append(p, links[i]) BY <1>5, <1>8, <4>2
      <4> QED BY <4>1, <4>2, <4>3
    <3>2. CASE s # n + 1
      <4>1. s \in 1 .. n /\ s \in 1 .. Len(all) BY <1>4, <1>8, <3>2
      <4> QED BY <1>8, <2>2, <4>1
    <3> QED BY <3>1, <3>2
  <2> QED BY <2>1, <2>2 DEF Kept
<1> QED BY <1>1, <1>3, <1>8, <1>15, <1>16, <1>18, <1>19 DEF Covers

-----------------------------------------------------------------------------
(* A frame of a path enumeration and the paths it leads to. *)

ConeSearch == I \in Graphs /\ query \in Queries /\ job = "cone" /\ query.kind = "cone" /\ query.loaded

LEMMA FrameExtends ==
    ASSUME ConeSearch, NEW c, NEW s \in PartFrames(c)
    PROVE  /\ s \in [nptr : NodePtrs, path : Seq(Link), forward : BOOLEAN]
           /\ Extensions(s) \in Seq(Link)
           /\ \A l : Holds(Extensions(s), l) <=>
                  Holds(LinksOf(s.nptr, TypesOf(c), query.arrows), l) /\ l \in Unvisited(s.path)
           /\ IsInjective(query.sttypes) => Once(Extensions(s))
<1>1. s \in [nptr : NodePtrs, path : Seq(Link), forward : BOOLEAN] /\ s.forward = c.forward
  BY DEF PartFrames
<1>2. EnumTypes = query.sttypes /\ EnumArrows = query.arrows
  BY DEF ConeSearch, EnumTypes, EnumArrows, LeftTypes, LeftArrows, SttypesOf
<1>3. I \in Graphs /\ query.loaded /\ EnumTypes \in Seq(STTypes) BY <1>2, QueryIs DEF ConeSearch
<1>4. Ranges(EnumTypes, s.forward) = TypesOf(c) /\ TypesOf(c) \in Seq(STTypes)
  BY <1>1, <1>2, <1>3, RangesTypes DEF TypesOf
<1>5. LinksOf(s.nptr, TypesOf(c), query.arrows) \in Seq(Link) BY <1>1, <1>3, <1>4, LinksOfElements
<1>6. \A l : Holds(LinksOf(s.nptr, TypesOf(c), query.arrows), l) => l \in Link
  BY <1>5, HoldsIsElement
<1>7. /\ Extensions(s) \in Seq(Link)
      /\ \A l : Holds(Extensions(s), l) <=>
             /\ Holds(LinksOf(s.nptr, TypesOf(c), query.arrows), l)
             /\ l.dst \in query.admit /\ l.dst \notin Nodes(s.path)
  BY <1>1, <1>2, <1>3, <1>4, ExtensionsAre
<1>8. IsInjective(query.sttypes) => Once(Extensions(s)) BY <1>1, <1>2, <1>3, ExtensionsOnce
<1> QED BY <1>1, <1>6, <1>7, <1>8 DEF Unvisited

LEMMA FrameLeadsOn ==
    ASSUME ConeSearch, NEW c, NEW s \in PartFrames(c),
           NEW w \in Promise(c), Begins(s.path, w)
    PROVE  /\ Len(s.path) < Len(w) => \E l : Holds(Extensions(s), l) /\ Begins(Append(s.path, l), w)
           /\ Len(s.path) >= Len(w) => w = s.path
<1>1. /\ s \in [nptr : NodePtrs, path : Seq(Link), forward : BOOLEAN]
      /\ \A l : Holds(LinksOf(s.nptr, TypesOf(c), query.arrows), l) /\ l \in Unvisited(s.path) =>
             Holds(Extensions(s), l)
  BY FrameExtends
<1>2. PICK p \in Seq(Link) : p = s.path BY <1>1
<1>3. PICK a \in Nat : a = Len(p) OBVIOUS
<1>4. w \in Seq(Link) /\ Walk(w, c.nptr, TypesOf(c), query.arrows) /\ NoRepeat(w) /\ Nodes(w) \subseteq query.admit
  BY DEF Promise
<1>5. a <= Len(w) /\ \A i \in 1 .. a : w[i] = p[i] BY <1>2, <1>3 DEF Begins
<1>6. ASSUME a < Len(w) PROVE \E l : Holds(Extensions(s), l) /\ Begins(Append(p, l), w)
  <2>1. a + 1 \in 1 .. Len(w) /\ Len(w) \in Nat BY <1>3, <1>4, <1>6
  <2>2. PICK l \in Link : l = w[a + 1] BY <1>4, <2>1
  <2>3. Holds(LinksOf(s.nptr, TypesOf(c), query.arrows), l)
    <3>1. CASE p = <<>>
      <4>1. s.nptr = c.nptr BY <1>2, <3>1 DEF PartFrames, FrameAt
      <4>2. a + 1 = 1 BY <1>3, <3>1
      <4> QED BY <1>4, <2>2, <4>1, <4>2 DEF Walk
    <3>2. CASE p # <<>>
      <4>1. s.nptr = Tip(p) BY <1>2, <3>2 DEF PartFrames, FrameAt
      <4>2. Tip(p) = p[a].dst /\ a \in 1 .. a BY <1>2, <1>3, <3>2, TipIsNode
      <4>3. w[a] = p[a] /\ a + 1 \in 2 .. Len(w) /\ (a + 1) - 1 = a BY <1>3, <1>5, <2>1, <4>2
      <4>4. Holds(LinksOf(w[a].dst, TypesOf(c), query.arrows), w[a + 1]) BY <1>4, <4>3 DEF Walk
      <4> QED BY <2>2, <4>1, <4>2, <4>3, <4>4
    <3> QED BY <3>1, <3>2
  <2>4. l \in Unvisited(p)
    <3>1. l.dst \in query.admit
      <4>1. DOMAIN w = 1 .. Len(w) BY <1>4
      <4> QED BY <1>4, <2>1, <2>2, <4>1 DEF Nodes
    <3>2. ASSUME NEW j \in 1 .. a, p[j].dst = l.dst PROVE FALSE
      <4>1. j \in 1 .. Len(w) /\ j # a + 1 BY <1>3, <1>5, <2>1
      <4>2. w[j].dst = w[a + 1].dst BY <1>5, <2>2, <3>2
      <4> QED BY <1>4, <2>1, <4>1, <4>2 DEF NoRepeat
    <3>3. l.dst \notin Nodes(p)
      <4>1. DOMAIN p = 1 .. a BY <1>3
      <4> QED BY <3>2, <4>1 DEF Nodes
    <3> QED BY <3>1, <3>3 DEF Unvisited
  <2>5. Begins(Append(p, l), w)
    <3>1. /\ Len(Append(p, l)) = a + 1 /\ Append(p, l)[a + 1] = l
          /\ \A i \in 1 .. a : Append(p, l)[i] = p[i]
      BY <1>3, AppendedIs
    <3>2. \A i \in 1 .. (a + 1) : i \in 1 .. a \/ i = a + 1 BY <1>3
    <3>3. a + 1 <= Len(w) BY <2>1
    <3>4. \A i \in 1 .. (a + 1) : w[i] = Append(p, l)[i] BY <1>5, <2>2, <3>1, <3>2
    <3> QED BY <3>1, <3>3, <3>4 DEF Begins
  <2> QED BY <1>1, <1>2, <2>3, <2>4, <2>5
<1>7. ASSUME a >= Len(w) PROVE w = p
  <2>1. Len(w) = a BY <1>3, <1>4, <1>5, <1>7
  <2> QED BY <1>3, <1>4, <1>5, <2>1
<1> QED BY <1>2, <1>3, <1>6, <1>7

(* A frame at the end of its path. *)
Ended(s) == Len(s.path) >= query.depth \/ Extensions(s) = <<>>

LEMMA EndedFrame ==
    ASSUME ConeSearch, NEW c, NEW s \in PartFrames(c), Ended(s)
    PROVE  /\ s.path # <<>> => s.path \in Promise(c)
           /\ \A w \in Promise(c) : Begins(s.path, w) => w = s.path
<1>1. /\ s \in [nptr : NodePtrs, path : Seq(Link), forward : BOOLEAN]
      /\ FrameAt(s, c.nptr, query.sttypes, query.arrows) /\ s.forward = c.forward
      /\ NoRepeat(s.path) /\ Nodes(s.path) \subseteq query.admit /\ Len(s.path) <= query.depth
  BY DEF PartFrames
<1>2. s.path \in Seq(Link) /\ Len(s.path) \in Nat /\ query.depth \in Nat
  BY <1>1, QueryIs DEF ConeSearch
<1>3. /\ \A l : Holds(Extensions(s), l) <=>
                  Holds(LinksOf(s.nptr, TypesOf(c), query.arrows), l) /\ l \in Unvisited(s.path)
      /\ Extensions(s) = <<>> => \A l : ~Holds(Extensions(s), l)
  <2>1. Extensions(s) = <<>> => \A l : ~Holds(Extensions(s), l) BY DEF Holds
  <2> QED BY <2>1, FrameExtends
<1>4. ASSUME s.path # <<>> PROVE s.path \in Promise(c)
  <2>1. Walk(s.path, c.nptr, TypesOf(c), query.arrows) /\ s.nptr = Tip(s.path)
    BY <1>1, <1>4 DEF FrameAt, TypesOf
  <2>2. Len(s.path) < query.depth => ~GoesOn(s.path, TypesOf(c))
    BY <1>2, <1>3, <2>1 DEF Ended, GoesOn
  <2> QED BY <1>1, <1>2, <2>1, <2>2 DEF Promise
<1>5. ASSUME NEW w \in Promise(c), Begins(s.path, w) PROVE w = s.path
  <2>1. Len(w) <= query.depth /\ Len(w) \in Nat BY DEF Promise
  <2>2. CASE Len(s.path) >= Len(w) BY <1>5, <2>2, FrameLeadsOn
  <2>3. CASE Len(s.path) < Len(w)
    <3>1. Extensions(s) = <<>> BY <1>2, <2>1, <2>3 DEF Ended
    <3>2. \E l : Holds(Extensions(s), l) BY <1>5, <2>3, FrameLeadsOn
    <3> QED BY <1>3, <3>1, <3>2
  <2> QED BY <1>2, <2>1, <2>2, <2>3
<1> QED BY <1>4, <1>5

LEMMA PushedIsPart ==
    ASSUME ConeSearch, NEW c, NEW s \in PartFrames(c), Len(s.path) < query.depth,
           NEW l, Holds(Extensions(s), l)
    PROVE  Frame(l.dst, Append(s.path, l), s.forward) \in PartFrames(c)
<1>1. /\ s \in [nptr : NodePtrs, path : Seq(Link), forward : BOOLEAN]
      /\ FrameAt(s, c.nptr, query.sttypes, query.arrows) /\ s.forward = c.forward
      /\ NoRepeat(s.path) /\ Nodes(s.path) \subseteq query.admit
  BY DEF PartFrames
<1>2. Holds(LinksOf(s.nptr, TypesOf(c), query.arrows), l) /\ l \in Unvisited(s.path)
  BY FrameExtends
<1>3. PICK p \in Seq(Link) : p = s.path BY <1>1
<1>4. PICK a \in Nat : a = Len(p) OBVIOUS
<1>5. l \in Link /\ l.dst \in NodePtrs /\ l.dst \in query.admit /\ \A j \in 1 .. a : p[j].dst # l.dst
  <2>1. DOMAIN p = 1 .. a BY <1>4
  <2> QED BY <1>2, <1>3, <2>1 DEF Unvisited, Nodes, Link
<1>6. PICK v \in Seq(Link) : /\ v = Append(p, l) /\ Len(v) = a + 1 /\ v[a + 1] = l
                             /\ \A i \in 1 .. a : v[i] = p[i]
  <2>1. /\ Append(p, l) \in Seq(Link) /\ Len(Append(p, l)) = a + 1 /\ Append(p, l)[a + 1] = l
        /\ \A i \in 1 .. a : Append(p, l)[i] = p[i]
    BY <1>4, <1>5, AppendedIs
  <2> QED BY <2>1
<1>7. \A i \in 1 .. (a + 1) : i \in 1 .. a \/ i = a + 1 BY <1>4
<1>8. v # <<>> BY <1>6
<1>9. Walk(v, c.nptr, TypesOf(c), query.arrows) /\ Tip(v) = l.dst
  <2>1. Tip(v) = l.dst BY <1>6, <1>8, TipIsNode
  <2>2. CASE p = <<>>
    <3>1. s.nptr = c.nptr BY <1>1, <1>3, <2>2 DEF FrameAt
    <3>2. v = <<l>> BY <1>6, <2>2
    <3> QED BY <1>2, <1>5, <2>1, <3>1, <3>2, WalkBegins
  <2>3. CASE p # <<>>
    <3>1. Walk(p, c.nptr, TypesOf(c), query.arrows) /\ s.nptr = Tip(p)
      BY <1>1, <1>3, <2>3 DEF FrameAt, TypesOf
    <3> QED BY <1>2, <1>5, <1>6, <2>1, <3>1, WalkGoesOn
  <2> QED BY <2>2, <2>3
<1>10. NoRepeat(v)
  <2>1. \A i, j \in 1 .. a : p[i].dst = p[j].dst => i = j BY <1>1, <1>3, <1>4 DEF NoRepeat
  <2> SUFFICES ASSUME NEW i \in 1 .. (a + 1), NEW j \in 1 .. (a + 1), v[i].dst = v[j].dst PROVE i = j
    BY <1>6 DEF NoRepeat
  <2>2. CASE i \in 1 .. a /\ j \in 1 .. a BY <1>6, <2>1, <2>2
  <2>3. CASE i = a + 1 /\ j \in 1 .. a BY <1>5, <1>6, <2>3
  <2>4. CASE i \in 1 .. a /\ j = a + 1 BY <1>5, <1>6, <2>4
  <2> QED BY <1>7, <2>2, <2>3, <2>4
<1>11. Nodes(v) \subseteq query.admit
  <2>1. DOMAIN v = 1 .. (a + 1) /\ DOMAIN p = 1 .. a BY <1>4, <1>6
  <2>2. \A i \in 1 .. a : p[i].dst \in query.admit BY <1>1, <1>3, <2>1 DEF Nodes
  <2>3. \A i \in 1 .. (a + 1) : v[i].dst \in query.admit BY <1>5, <1>6, <1>7, <2>2
  <2> QED BY <2>1, <2>3 DEF Nodes
<1>12. Len(v) <= query.depth
  <2>1. query.depth \in Nat BY QueryIs DEF ConeSearch
  <2> QED BY <1>3, <1>4, <1>6, <2>1
<1>13. PICK f : f = Frame(l.dst, v, s.forward) OBVIOUS
<1>14. /\ f.nptr = l.dst /\ f.path = v /\ f.forward = s.forward
       /\ f \in [nptr : NodePtrs, path : Seq(Link), forward : BOOLEAN]
  BY <1>1, <1>5, <1>13 DEF Frame
<1>15. FrameAt(f, c.nptr, query.sttypes, query.arrows) BY <1>1, <1>8, <1>9, <1>14 DEF FrameAt, TypesOf
<1> QED BY <1>1, <1>3, <1>6, <1>10, <1>11, <1>12, <1>13, <1>14, <1>15 DEF PartFrames

-----------------------------------------------------------------------------
(* What a path enumeration returns. *)

(* Sorting by length rearranges the paths. *)
LEMMA SortedIs ==
    ASSUME query \in Queries, NEW paths \in Seq(Seq(Link)),
           \A i \in 1 .. Len(paths) : Len(paths[i]) \in 1 .. query.depth
    PROVE  /\ sortPathsByLength(paths) \in Seq(Seq(Link))
           /\ ToSet(sortPathsByLength(paths)) = ToSet(paths)
           /\ Len(sortPathsByLength(paths)) = Len(paths)
           /\ \A i, j \in 1 .. Len(sortPathsByLength(paths)) :
                 i < j => Len(sortPathsByLength(paths)[i]) <= Len(sortPathsByLength(paths)[j])
<1> DEFINE P(k) == {p \in Seq(Link) : Len(p) = k}
           ss == [k \in 1 .. query.depth |-> Those(paths, LAMBDA p : Len(p) = k)]
           at == [k \in 1 .. query.depth |-> CHOOSE a : Picked(ss[k], paths, P(k), a)]
<1>1. PICK S : S = Seq(Link) OBVIOUS
<1>2. PICK d \in Nat : d = query.depth BY QueryIs
<1>3. PICK m \in Nat : m = Len(paths) /\ DOMAIN paths = 1 .. m OBVIOUS
<1>4. paths \in Seq(S) /\ \A i \in 1 .. m : paths[i] \in Seq(Link) /\ Len(paths[i]) \in 1 .. d
  BY <1>1, <1>2, <1>3
<1>5. ASSUME NEW k \in 1 .. d PROVE ss[k] \in Seq(S) /\ Picked(ss[k], paths, P(k), at[k])
  <2>1. \A i \in DOMAIN paths : (Len(paths[i]) = k) <=> paths[i] \in P(k) BY <1>3, <1>4
  <2>2. ss[k] = Those(paths, LAMBDA p : Len(p) = k) BY <1>2
  <2>3. at[k] = CHOOSE a : Picked(ss[k], paths, P(k), a) BY <1>2
  <2> HIDE DEF P, ss, at
  <2>4. [i \in DOMAIN paths |-> IF Len(paths[i]) = k THEN <<paths[i]>> ELSE <<>>]
          = [i \in DOMAIN paths |-> IF paths[i] \in P(k) THEN <<paths[i]>> ELSE <<>>]
    BY <2>1
  <2>5. ss[k] = Sieve(paths, P(k)) BY <2>2, <2>4 DEF Those, Sieve
  <2>6. ss[k] \in Seq(S) /\ \E a : Picked(ss[k], paths, P(k), a) BY <1>4, <2>5, SievePlaces
  <2> QED BY <2>3, <2>6
<1>6. ss \in Seq(Seq(S)) /\ Len(ss) = d
  <2>1. ss = [k \in 1 .. d |-> ss[k]] BY <1>2
  <2> HIDE DEF ss, P, at
  <2>2. ss \in [1 .. d -> Seq(S)] BY <1>5, <2>1
  <2> QED BY <2>2, SequenceOf
<1>7. sortPathsByLength(paths) = FlattenSeq(ss) BY DEF sortPathsByLength
<1>8. \A k \in 1 .. d : \A p : p \in P(k) => Len(p) = k OBVIOUS
<1>9. \A i \in 1 .. m : paths[i] \in P(Len(paths[i])) BY <1>4
<1> HIDE DEF P, ss, at
<1>10. PICK q \in Seq(S) : q = FlattenSeq(ss) BY <1>6, FlattenElements
<1>11. PICK row, col : Placed(q, ss, d, row, col) BY <1>6, <1>10, FlattenPlaces
<1>12. PICK n \in Nat : n = Len(q) /\ DOMAIN q = 1 .. n BY <1>10
<1> DEFINE f == [j \in 1 .. n |-> at[row[j]][col[j]]]
<1>13. ASSUME NEW j \in 1 .. n
       PROVE  /\ row[j] \in 1 .. d /\ col[j] \in 1 .. Len(ss[row[j]])
              /\ f[j] = at[row[j]][col[j]] /\ f[j] \in 1 .. m /\ q[j] = paths[f[j]]
              /\ Len(q[j]) = row[j]
  <2>1. row[j] \in 1 .. d /\ col[j] \in 1 .. Len(ss[row[j]]) /\ q[j] = ss[row[j]][col[j]]
    BY <1>11, <1>12 DEF Placed
  <2>2. f[j] = at[row[j]][col[j]] OBVIOUS
  <2> HIDE DEF f
  <2>3. Picked(ss[row[j]], paths, P(row[j]), at[row[j]]) BY <1>5, <2>1
  <2>4. f[j] \in 1 .. m /\ q[j] = paths[f[j]] /\ q[j] \in P(row[j])
    BY <1>3, <2>1, <2>2, <2>3 DEF Picked
  <2> QED BY <1>8, <2>1, <2>2, <2>4
<1>14. f \in [1 .. n -> 1 .. m] BY <1>13
<1> HIDE DEF f
<1>15. ASSUME NEW i \in 1 .. n, NEW j \in 1 .. n, f[i] = f[j] PROVE i = j
  <2>1. row[i] = row[j]
    <3>1. q[i] = paths[f[i]] /\ Len(q[i]) = row[i] BY <1>13
    <3>2. q[j] = paths[f[j]] /\ Len(q[j]) = row[j] BY <1>13
    <3> QED BY <1>15, <3>1, <3>2
  <2>2. Picked(ss[row[i]], paths, P(row[i]), at[row[i]]) BY <1>5, <1>13
  <2>3. PICK b \in Nat : b = Len(ss[row[i]])
    <3>1. ss[row[i]] \in Seq(S) BY <1>5, <1>13
    <3> QED BY <3>1
  <2>4. col[i] \in 1 .. b /\ col[j] \in 1 .. b /\ f[i] = at[row[i]][col[i]] /\ f[j] = at[row[i]][col[j]]
    BY <1>13, <2>1, <2>3
  <2>5. f[i] \in Nat
    <3>1. f[i] \in 1 .. m BY <1>13
    <3> QED BY <3>1
  <2>6. ~(col[i] < col[j]) /\ ~(col[j] < col[i])
    <3>1. PICK a : a = at[row[i]] OBVIOUS
    <3>2. \A c, e \in 1 .. b : c < e => a[c] < a[e] BY <2>2, <2>3, <3>1 DEF Picked
    <3>3. a[col[i]] = f[i] /\ a[col[j]] = f[i] BY <1>15, <2>4, <3>1
    <3> QED BY <2>4, <2>5, <3>2, <3>3
  <2>7. col[i] = col[j] BY <2>4, <2>6
  <2>8. row[i] \in Nat /\ col[i] \in Nat
    <3>1. row[i] \in 1 .. d BY <1>13
    <3> QED BY <2>4, <3>1
  <2>9. /\ i < j => row[i] < row[j] \/ (row[i] = row[j] /\ col[i] < col[j])
        /\ j < i => row[j] < row[i] \/ (row[j] = row[i] /\ col[j] < col[i])
    BY <1>11, <1>12 DEF Placed
  <2>10. ~(i < j) /\ ~(j < i) BY <2>1, <2>7, <2>8, <2>9
  <2> QED BY <2>10
<1>16. ASSUME NEW i \in 1 .. m PROVE \E j \in 1 .. n : f[j] = i
  <2>1. PICK k \in 1 .. d : k = Len(paths[i]) /\ paths[i] \in P(k) BY <1>4, <1>9
  <2>2. Picked(ss[k], paths, P(k), at[k]) BY <1>5
  <2>3. PICK c \in 1 .. Len(ss[k]) : at[k][c] = i BY <1>3, <2>1, <2>2 DEF Picked
  <2>4. PICK j \in 1 .. n : row[j] = k /\ col[j] = c BY <1>11, <1>12 DEF Placed
  <2> QED BY <1>13, <2>3, <2>4
<1>17. n = m
  <2>1. f \in Injection(1 .. n, 1 .. m) BY <1>14, <1>15 DEF Injection, IsInjective
  <2>2. f \in Surjection(1 .. n, 1 .. m) BY <1>14, <1>16 DEF Surjection
  <2>3. ExistsBijection(1 .. n, 1 .. m) BY <2>1, <2>2 DEF ExistsBijection, Bijection
  <2>4. IsFiniteSet(1 .. n) /\ Cardinality(1 .. n) = n /\ Cardinality(1 .. m) = m BY FS_Interval
  <2> QED BY <2>3, <2>4, FS_Bijection
<1>18. ToSet(q) = ToSet(paths)
  <2>1. ToSet(q) = {q[j] : j \in 1 .. n} /\ ToSet(paths) = {paths[i] : i \in 1 .. m}
    BY <1>3, <1>12 DEF ToSet
  <2>2. \A j \in 1 .. n : \E i \in 1 .. m : q[j] = paths[i] BY <1>13
  <2>3. ASSUME NEW i \in 1 .. m PROVE \E j \in 1 .. n : q[j] = paths[i]
    <3>1. PICK j \in 1 .. n : f[j] = i BY <1>16
    <3> QED BY <1>13, <3>1
  <2> QED BY <2>1, <2>2, <2>3
<1>19. ASSUME NEW i \in 1 .. n, NEW j \in 1 .. n, i < j PROVE Len(q[i]) <= Len(q[j])
  <2>1. Len(q[i]) = row[i] /\ Len(q[j]) = row[j] /\ row[i] \in 1 .. d /\ row[j] \in 1 .. d BY <1>13
  <2>2. row[i] < row[j] \/ row[i] = row[j] BY <1>11, <1>12, <1>19 DEF Placed
  <2> QED BY <2>1, <2>2
<1> QED BY <1>1, <1>3, <1>7, <1>10, <1>12, <1>17, <1>18, <1>19

(* The promises of all the calls, each under the number of its call. *)
Promised(C) == UNION {{<<i, w>> : w \in Promise(C[i])} : i \in 1 .. Len(C)}

(* When nothing is left to do, the tags number the promises. *)
LEMMA AllAreFound ==
    ASSUME NEW C, Len(C) \in Nat, NEW fnd, NEW tag, Tagged(fnd, C, Len(C), tag),
           Kept(<<>>, fnd, C, Len(C), tag)
    PROVE  /\ ToSet(fnd) = {x[2] : x \in Promised(C)}
           /\ Len(fnd) = Cardinality(Promised(C))
<1>1. PICK m \in Nat : m = Len(fnd) /\ DOMAIN fnd = 1 .. m BY DEF Tagged
<1> DEFINE f == [k \in 1 .. m |-> <<tag[k], fnd[k]>>]
<1>2. \A k \in 1 .. m : tag[k] \in 1 .. Len(C) /\ fnd[k] \in Promise(C[tag[k]])
  BY <1>1 DEF Tagged
<1>3. \A x : x \in Promised(C) <=> \E i \in 1 .. Len(C) : \E w \in Promise(C[i]) : x = <<i, w>>
  BY DEF Promised
<1>4. ASSUME NEW i \in 1 .. Len(C), NEW w \in Promise(C[i])
      PROVE  \E k \in 1 .. m : tag[k] = i /\ fnd[k] = w
  <2>1. Len(<<>>) = 0 /\ 1 .. 0 = {} OBVIOUS
  <2> QED BY <1>1, <2>1 DEF Kept
<1>5. \A k \in 1 .. m : f[k] = <<tag[k], fnd[k]>> /\ f[k] \in Promised(C) BY <1>2, <1>3
<1>6. f \in [1 .. m -> Promised(C)] BY <1>5
<1> HIDE DEF f
<1>7. ASSUME NEW x \in Promised(C) PROVE \E k \in 1 .. m : f[k] = x
  <2>1. PICK i \in 1 .. Len(C) : \E w \in Promise(C[i]) : x = <<i, w>> BY <1>3
  <2>2. PICK w \in Promise(C[i]) : x = <<i, w>> BY <2>1
  <2>3. PICK k \in 1 .. m : tag[k] = i /\ fnd[k] = w BY <1>4
  <2> QED BY <1>5, <2>2, <2>3
<1>8. \A k, j \in 1 .. m : f[k] = f[j] => k = j
  <2> SUFFICES ASSUME NEW k \in 1 .. m, NEW j \in 1 .. m, f[k] = f[j] PROVE k = j OBVIOUS
  <2>1. tag[k] = tag[j] /\ fnd[k] = fnd[j] BY <1>5
  <2> QED BY <1>1, <2>1 DEF Tagged
<1>9. Cardinality(Promised(C)) = m
  <2>1. f \in Injection(1 .. m, Promised(C)) BY <1>6, <1>8 DEF Injection, IsInjective
  <2>2. f \in Surjection(1 .. m, Promised(C)) BY <1>6, <1>7 DEF Surjection
  <2>3. ExistsBijection(1 .. m, Promised(C)) BY <2>1, <2>2 DEF ExistsBijection, Bijection
  <2>4. IsFiniteSet(1 .. m) /\ Cardinality(1 .. m) = m BY FS_Interval
  <2> QED BY <2>3, <2>4, FS_Bijection
<1>10. ToSet(fnd) = {x[2] : x \in Promised(C)}
  <2>1. ToSet(fnd) = {fnd[k] : k \in 1 .. m} BY <1>1 DEF ToSet
  <2>2. \A k \in 1 .. m : \E x \in Promised(C) : x[2] = fnd[k] BY <1>5
  <2>3. \A x \in Promised(C) : \E k \in 1 .. m : x[2] = fnd[k] BY <1>5, <1>7
  <2> QED BY <2>1, <2>2, <2>3
<1> QED BY <1>1, <1>9, <1>10

-----------------------------------------------------------------------------
(* The invariant of a path enumeration. *)

AllCalls == Calls(query.starts, query.orientation)
Plain == query.kind = "cone" /\ query.loaded /\ IsInjective(query.sttypes)

(* cur calls have been made, and the last of them is on the stack. *)
Reached(cur) ==
    /\ Len(todo) = Len(AllCalls) - cur
    /\ \A k \in 1 .. Len(todo) : todo[k] = AllCalls[cur + k]
    /\ Covers(stack, found, AllCalls, cur)
ConeInv == (job = "cone" /\ Plain) => \E cur \in Nat : Reached(cur)

Result(paths) ==
    /\ ToSet(paths) = {x[2] : x \in Promised(AllCalls)}
    /\ Len(paths) = Cardinality(Promised(AllCalls))
    /\ query.sorted => \A i, j \in DOMAIN paths : i < j => Len(paths[i]) <= Len(paths[j])
ResultInv == (job = "done" /\ Plain /\ Len(answer) < query.limit) => Result(answer)

LEMMA PromisesStay ==
    ASSUME I' = I, query' = query
    PROVE  /\ \A c : Promise(c)' = Promise(c) /\ PartFrames(c)' = PartFrames(c)
           /\ AllCalls' = AllCalls /\ (Plain' <=> Plain)
<1>1. \A n, sts, arrows : LinksOf(n, sts, arrows)' = LinksOf(n, sts, arrows) BY LinksStay
<1>2. \A w, n, sts, arrows : Walk(w, n, sts, arrows)' <=> Walk(w, n, sts, arrows) BY <1>1 DEF Walk
<1>3. \A f, n, sts, arrows : FrameAt(f, n, sts, arrows)' <=> FrameAt(f, n, sts, arrows)
  BY <1>2 DEF FrameAt
<1>4. \A w, sts : GoesOn(w, sts)' <=> GoesOn(w, sts) BY <1>1 DEF GoesOn, Unvisited
<1>5. \A c : Promise(c)' = Promise(c) BY <1>2, <1>4 DEF Promise, TypesOf
<1>6. \A c : PartFrames(c)' = PartFrames(c) BY <1>3 DEF PartFrames
<1>7. AllCalls' = AllCalls /\ (Plain' <=> Plain) BY DEF AllCalls, Plain
<1> QED BY <1>5, <1>6, <1>7

LEMMA CoversStays ==
    ASSUME I' = I, query' = query, NEW cur, NEW stk, NEW fnd, stack' = stk, found' = fnd,
           Covers(stk, fnd, AllCalls, cur)
    PROVE  Covers(stack, found, AllCalls, cur)'
<1>1. \A c : Promise(c)' = Promise(c) /\ PartFrames(c)' = PartFrames(c) BY PromisesStay
<1>2. PICK C : C = AllCalls OBVIOUS
<1>3. AllCalls' = C BY <1>2, PromisesStay
<1>4. /\ cur \in 0 .. Len(C) /\ (stk # <<>> => cur # 0)
      /\ stk \in Seq(PartFrames(C[cur])) /\ Apart(stk)
  BY <1>2 DEF Covers
<1>5. PICK tag : /\ Tagged(fnd, C, cur, tag) /\ StillAhead(stk, fnd, cur, tag)
                 /\ Len(fnd) < query.limit => Kept(stk, fnd, C, cur, tag)
  BY <1>2 DEF Covers
<1>6. Tagged(found, AllCalls, cur, tag)' BY <1>1, <1>3, <1>5 DEF Tagged
<1>7. StillAhead(stack, found, cur, tag)' BY <1>5 DEF StillAhead
<1>8. Kept(stk, fnd, C, cur, tag) => Kept(stack, found, AllCalls, cur, tag)'
  BY <1>1, <1>3 DEF Kept
<1>9. Apart(stack)' BY <1>4 DEF Apart
<1> QED BY <1>1, <1>3, <1>4, <1>5, <1>6, <1>7, <1>8, <1>9 DEF Covers

LEMMA InitConeInv ==
    ASSUME PathsInit
    PROVE  ConeInv /\ ResultInv
<1>1. I \in Graphs /\ query \in Queries /\ job # "done" BY DEF PathsInit
<1>2. ASSUME job = "cone", Plain PROVE \E cur \in Nat : Reached(cur)
  <2>1. todo = AllCalls /\ stack = <<>> /\ found = <<>> BY <1>2 DEF PathsInit, Plain, AllCalls
  <2>2. AllCalls \in Seq(Fresh(query.starts)) BY <1>1, QueryIs, CallsAreFresh DEF AllCalls
  <2>3. PICK C \in Seq(Fresh(query.starts)) : C = AllCalls BY <2>2
  <2>4. Covers(<<>>, <<>>, C, 0)
    <3>1. Len(<<>>) = 0 /\ 1 .. 0 = {} OBVIOUS
    <3>2. PICK tag : tag = [k \in 1 .. 0 |-> 0] OBVIOUS
    <3>3. tag \in [1 .. 0 -> 1 .. 0] BY <3>1, <3>2
    <3>4. Tagged(<<>>, C, 0, tag) BY <3>1, <3>3 DEF Tagged
    <3>5. StillAhead(<<>>, <<>>, 0, tag) /\ Apart(<<>>) /\ Kept(<<>>, <<>>, C, 0, tag)
      BY <3>1 DEF StillAhead, Apart, Kept
    <3>6. 0 \in 0 .. Len(C) OBVIOUS
    <3> QED BY <3>4, <3>5, <3>6 DEF Covers
  <2>5. Reached(0) BY <2>1, <2>3, <2>4 DEF Reached
  <2> QED BY <2>5
<1> QED BY <1>1, <1>2 DEF ConeInv, ResultInv

LEMMA EnumerationKeepsCone ==
    ASSUME SearchInv, ConeInv, job = "cone", Plain, enumeratePaths \/ StopAtDepth \/ Expand \/ EmitLeaf
    PROVE  \E cur \in Nat : Reached(cur)'
<1>1. UNCHANGED <<I, query>> /\ Enumerating
  BY DEF enumeratePaths, StopAtDepth, Expand, EmitLeaf
<1>2. ConeSearch /\ query \in Queries /\ IsInjective(query.sttypes) BY DEF ConeSearch, SearchInv, Plain
<1>3. EnumDepth = query.depth /\ EnumLimit = query.limit BY DEF EnumDepth, EnumLimit
<1>4. PICK cur \in Nat : Reached(cur) BY DEF ConeInv
<1>5. PICK C \in Seq(Fresh(query.starts)) : C = AllCalls
  <2>1. AllCalls \in Seq(Fresh(query.starts)) BY <1>2, QueryIs, CallsAreFresh DEF AllCalls
  <2> QED BY <2>1
<1>6. AllCalls' = C BY <1>1, <1>5, PromisesStay
<1>7. /\ Len(todo) = Len(C) - cur /\ (\A k \in 1 .. Len(todo) : todo[k] = C[cur + k])
      /\ Covers(stack, found, C, cur)
  BY <1>4, <1>5 DEF Reached
<1>8. CASE enumeratePaths
  <2>1. /\ todo # <<>> /\ stack' = <<Head(todo)>> /\ todo' = Tail(todo) /\ found' = found
        /\ stack = <<>> \/ Len(found) >= query.limit
    BY <1>3, <1>8 DEF enumeratePaths, Exhausted
  <2>2. PICK F : todo \in Seq(F) BY <1>1, EnumIs
  <2>3. PICK b \in Nat : Len(todo) = b + 1
    <3>1. Len(todo) \in Nat /\ Len(todo) # 0 BY <2>1, <2>2
    <3> QED BY <3>1
  <2>4. /\ Head(todo) = todo[1] /\ Len(Tail(todo)) = b
        /\ \A k \in 1 .. b : Tail(todo)[k] = todo[k + 1] /\ k + 1 \in 1 .. (b + 1)
    BY <2>1, <2>2, <2>3
  <2>5. Head(todo) = C[cur + 1]
    <3>1. 1 \in 1 .. Len(todo) BY <2>3
    <3> QED BY <1>7, <2>4, <3>1
  <2>6. cur + 1 <= Len(C) /\ Len(C) \in Nat BY <1>7, <2>3
  <2>7. PICK stk, fnd : stk = stack /\ fnd = found OBVIOUS
  <2>8. Covers(<<C[cur + 1]>>, fnd, C, cur + 1)
    <3>1. Covers(stk, fnd, C, cur) /\ (stk = <<>> \/ Len(fnd) >= query.limit) BY <1>7, <2>1, <2>7
    <3> QED BY <1>2, <2>6, <3>1, NextCallCovers
  <2>9. Covers(stack, found, AllCalls, cur + 1)'
    BY <1>1, <1>5, <2>1, <2>5, <2>7, <2>8, CoversStays
  <2>10. Len(todo') = Len(C) - (cur + 1) BY <1>7, <2>1, <2>3, <2>4, <2>6
  <2>11. \A k \in 1 .. Len(todo') : todo'[k] = C[(cur + 1) + k]
    <3> SUFFICES ASSUME NEW k \in 1 .. b PROVE todo'[k] = C[(cur + 1) + k] BY <2>1, <2>4
    <3>1. todo'[k] = todo[k + 1] /\ k + 1 \in 1 .. Len(todo) BY <2>1, <2>3, <2>4
    <3>2. (cur + 1) + k = cur + (k + 1) OBVIOUS
    <3> QED BY <1>7, <3>1, <3>2
  <2>12. Reached(cur + 1)' BY <1>6, <2>9, <2>10, <2>11 DEF Reached
  <2> QED BY <2>12
<1>9. ASSUME ~Exhausted, todo' = todo, NEW stk, NEW fnd, stack' = stk, found' = fnd,
             Covers(stk, fnd, C, cur)
      PROVE  Reached(cur)'
  <2>1. Covers(stack, found, AllCalls, cur)' BY <1>1, <1>5, <1>9, CoversStays
  <2> QED BY <1>6, <1>7, <1>9, <2>1 DEF Reached
<1>10. PICK stk, fnd : stk = stack /\ fnd = found OBVIOUS
<1>11. Covers(stk, fnd, C, cur) BY <1>7, <1>10
<1>12. CASE StopAtDepth \/ EmitLeaf
  <2>1. /\ ~Exhausted /\ todo' = todo /\ stack' = Front(stk) /\ Emit(Last(stk).path)
        /\ Len(Last(stk).path) >= query.depth \/ Extensions(Last(stk)) = <<>>
    BY <1>3, <1>10, <1>12 DEF StopAtDepth, EmitLeaf
  <2>2. stk # <<>> BY <1>10, <2>1 DEF Exhausted
  <2>3. PICK s \in PartFrames(C[cur]) : s = Last(stk)
    <3>1. stk \in Seq(PartFrames(C[cur])) BY <1>11 DEF Covers
    <3> QED BY <2>2, <3>1, PoppedIs
  <2>4. /\ s.path # <<>> => s.path \in Promise(C[cur])
        /\ \A w \in Promise(C[cur]) : Begins(s.path, w) => w = s.path
    <3>1. Ended(s) BY <2>1, <2>3 DEF Ended
    <3> QED BY <1>2, <3>1, EndedFrame
  <2>5. CASE s.path = <<>>
    <3>1. found' = fnd BY <1>10, <2>1, <2>3, <2>5 DEF Emit
    <3>2. \A w \in Promise(C[cur]) : ~Begins(s.path, w) BY <2>4, <2>5 DEF Promise, Walk
    <3>3. Covers(Front(stk), fnd, C, cur) BY <1>11, <2>2, <2>3, <3>2, DropCovers
    <3> QED BY <1>9, <2>1, <3>1, <3>3
  <2>6. CASE s.path # <<>>
    <3>1. PICK p : p = s.path OBVIOUS
    <3>2. found' = Append(fnd, p) BY <1>10, <2>1, <2>3, <2>6, <3>1 DEF Emit
    <3>3. p = Last(stk).path /\ p \in Promise(C[cur]) /\ \A w \in Promise(C[cur]) : Begins(p, w) => w = p
      BY <2>3, <2>4, <2>6, <3>1
    <3>4. Covers(Front(stk), Append(fnd, p), C, cur) BY <1>2, <1>11, <2>2, <3>3, EmitCovers
    <3> QED BY <1>9, <2>1, <3>2, <3>4
  <2> QED BY <2>5, <2>6
<1>13. CASE Expand
  <2>1. PICK links : links = Extensions(Last(stk)) OBVIOUS
  <2> DEFINE Push(i) == Frame(links[i].dst, Append(Last(stk).path, links[i]), Last(stk).forward)
             new == [i \in DOMAIN links |-> Push(i)]
  <2>2. /\ ~Exhausted /\ todo' = todo /\ found' = fnd /\ stack' = Front(stk) \o new
        /\ Len(Last(stk).path) < query.depth
    BY <1>3, <1>10, <1>13, <2>1 DEF Expand
  <2>3. stk # <<>> BY <1>10, <2>2 DEF Exhausted
  <2>4. PICK s \in PartFrames(C[cur]) : s = Last(stk)
    <3>1. stk \in Seq(PartFrames(C[cur])) BY <1>11 DEF Covers
    <3> QED BY <2>3, <3>1, PoppedIs
  <2>5. /\ s \in [nptr : NodePtrs, path : Seq(Link), forward : BOOLEAN]
        /\ links \in Seq(Link) /\ Once(links)
    BY <1>2, <2>1, <2>4, FrameExtends
  <2>6. PICK b \in Nat : b = Len(links) /\ DOMAIN links = 1 .. b BY <2>5
  <2>7. PICK p \in Seq(Link) : p = s.path BY <2>5
  <2>8. \A i \in 1 .. b : Holds(links, links[i]) /\ links[i] \in Link BY <2>5, <2>6 DEF Holds
  <2>9. ASSUME NEW i \in 1 .. b PROVE new[i] \in PartFrames(C[cur]) /\ new[i].path = Append(p, links[i])
    <3>1. new[i] = Frame(links[i].dst, Append(s.path, links[i]), s.forward) BY <2>4, <2>6
    <3> HIDE DEF new
    <3>2. Frame(links[i].dst, Append(s.path, links[i]), s.forward) \in PartFrames(C[cur])
      BY <1>2, <2>1, <2>2, <2>4, <2>8, PushedIsPart
    <3> QED BY <2>7, <3>1, <3>2 DEF Frame
  <2>10. new = [i \in 1 .. b |-> new[i]] BY <2>6
  <2> HIDE DEF new
  <2>11. new \in Seq(PartFrames(C[cur])) /\ Len(new) = b
    <3>1. new \in [1 .. b -> PartFrames(C[cur])] BY <2>9, <2>10
    <3> QED BY <3>1, SequenceOf
  <2>12. ASSUME NEW w \in Promise(C[cur]), Begins(p, w)
         PROVE  \E i \in 1 .. b : Begins(Append(p, links[i]), w)
    <3>1. CASE Len(p) < Len(w)
      <4>1. PICK l : Holds(links, l) /\ Begins(Append(p, l), w)
        BY <1>2, <2>1, <2>4, <2>7, <2>12, <3>1, FrameLeadsOn
      <4> QED BY <2>6, <4>1 DEF Holds
    <3>2. CASE ~(Len(p) < Len(w))
      <4>1. Len(p) \in Nat /\ w \in Seq(Link) BY DEF Promise
      <4>2. w = p BY <1>2, <2>4, <2>7, <2>12, <3>2, <4>1, FrameLeadsOn
      <4>3. Len(w) < query.depth /\ ~GoesOn(w, TypesOf(C[cur])) /\ w # <<>>
        BY <2>2, <2>4, <2>7, <4>2 DEF Promise, Walk
      <4>4. links # <<>> BY <1>10, <1>13, <2>1 DEF Expand
      <4>5. 1 \in 1 .. b BY <2>5, <2>6, <4>4
      <4>6. /\ Holds(LinksOf(s.nptr, TypesOf(C[cur]), query.arrows), links[1])
            /\ links[1] \in Unvisited(p)
        BY <1>2, <2>1, <2>4, <2>7, <2>8, <4>5, FrameExtends
      <4>7. s.nptr = Tip(p) BY <2>7, <4>2, <4>3 DEF PartFrames, FrameAt
      <4> QED BY <4>2, <4>3, <4>6, <4>7 DEF GoesOn
    <3> QED BY <3>1, <3>2
  <2>13. Covers(Front(stk) \o new, fnd, C, cur)
    <3>1. p = Last(stk).path BY <2>4, <2>7
    <3>2. Len(new) = Len(links) BY <2>6, <2>11
    <3>3. \A i \in 1 .. Len(links) : new[i].path = Append(p, links[i]) BY <2>6, <2>9
    <3>4. \A w \in Promise(C[cur]) : Begins(p, w) =>
              \E i \in 1 .. Len(links) : Begins(Append(p, links[i]), w)
      BY <2>6, <2>12
    <3> QED BY <1>11, <2>3, <2>5, <2>11, <3>1, <3>2, <3>3, <3>4, BranchCovers
  <2> QED BY <1>9, <2>2, <2>13
<1> QED BY <1>8, <1>12, <1>13

LEMMA ResultStays ==
    ASSUME I' = I, query' = query, NEW paths, answer' = paths, Result(paths)
    PROVE  Result(answer)'
<1>1. \A c : Promise(c)' = Promise(c) BY PromisesStay
<1>2. PICK C : C = AllCalls OBVIOUS
<1>3. AllCalls' = C BY <1>2, PromisesStay
<1>4. PICK P : P = Promised(C) OBVIOUS
<1>5. Promised(AllCalls)' = P BY <1>1, <1>3, <1>4 DEF Promised
<1> QED BY <1>2, <1>4, <1>5 DEF Result

LEMMA ReturnIsResult ==
    ASSUME SearchInv, ConeInv, job = "cone", Plain, ReturnCone, Len(answer') < query.limit
    PROVE  Result(answer)'
<1>1. /\ UNCHANGED <<I, query>> /\ Exhausted /\ todo = <<>> /\ EnumLimit = query.limit
      /\ answer' = IF query.sorted THEN sortPathsByLength(found) ELSE found
  BY DEF ReturnCone, Answer, EnumLimit
<1>2. query \in Queries /\ query.limit \in Nat BY QueryIs DEF SearchInv
<1>3. PICK cur \in Nat : Reached(cur) BY DEF ConeInv
<1>4. PICK C \in Seq(Fresh(query.starts)) : C = AllCalls
  <2>1. AllCalls \in Seq(Fresh(query.starts)) BY <1>2, QueryIs, CallsAreFresh DEF AllCalls
  <2> QED BY <2>1
<1>5. cur = Len(C) /\ Len(C) \in Nat
  <2>1. Len(todo) = 0 BY <1>1
  <2>2. Len(todo) = Len(C) - cur BY <1>3, <1>4 DEF Reached
  <2> QED BY <2>1, <2>2
<1>6. Covers(stack, found, C, Len(C)) BY <1>3, <1>4, <1>5 DEF Reached
<1>7. PICK tag : /\ Tagged(found, C, Len(C), tag)
                 /\ Len(found) < query.limit => Kept(stack, found, C, Len(C), tag)
  BY <1>6 DEF Covers
<1>8. PICK fnd : fnd = found OBVIOUS
<1>9. /\ fnd \in Seq(Seq(Link)) /\ Tagged(fnd, C, Len(C), tag)
      /\ \A k \in 1 .. Len(fnd) : fnd[k] \in Promise(C[tag[k]])
  BY <1>7, <1>8 DEF Tagged
<1>10. \A k \in 1 .. Len(fnd) : Len(fnd[k]) \in 1 .. query.depth
  <2> SUFFICES ASSUME NEW k \in 1 .. Len(fnd) PROVE Len(fnd[k]) \in 1 .. query.depth OBVIOUS
  <2>1. fnd[k] \in Seq(Link) /\ fnd[k] # <<>> /\ Len(fnd[k]) <= query.depth
    BY <1>9 DEF Promise, Walk
  <2>2. Len(fnd[k]) \in Nat /\ Len(fnd[k]) # 0 /\ query.depth \in Nat BY <1>2, <2>1, QueryIs
  <2> QED BY <2>1, <2>2
<1>11. PICK paths : paths = IF query.sorted THEN sortPathsByLength(fnd) ELSE fnd OBVIOUS
<1>12. /\ ToSet(paths) = ToSet(fnd) /\ Len(paths) = Len(fnd)
       /\ query.sorted => \A i, j \in DOMAIN paths : i < j => Len(paths[i]) <= Len(paths[j])
  <2>1. CASE query.sorted
    <3>1. PICK q : q = sortPathsByLength(fnd) OBVIOUS
    <3>2. /\ q \in Seq(Seq(Link)) /\ ToSet(q) = ToSet(fnd) /\ Len(q) = Len(fnd)
          /\ \A i, j \in 1 .. Len(q) : i < j => Len(q[i]) <= Len(q[j])
      BY <1>2, <1>9, <1>10, <3>1, SortedIs
    <3>3. DOMAIN q = 1 .. Len(q) BY <3>2
    <3> QED BY <1>11, <2>1, <3>1, <3>2, <3>3
  <2>2. CASE ~query.sorted BY <1>11, <2>2
  <2> QED BY <2>1, <2>2
<1>13. answer' = paths BY <1>1, <1>8, <1>11
<1>14. Len(fnd) < query.limit BY <1>12, <1>13
<1>15. stack = <<>>
  <2>1. Len(fnd) \in Nat BY <1>9
  <2> QED BY <1>1, <1>2, <1>8, <1>14, <2>1 DEF Exhausted
<1>16. Kept(<<>>, fnd, C, Len(C), tag) BY <1>7, <1>8, <1>14, <1>15
<1>17. ToSet(fnd) = {x[2] : x \in Promised(C)} /\ Len(fnd) = Cardinality(Promised(C))
  BY <1>5, <1>9, <1>16, AllAreFound
<1>18. Result(paths) BY <1>4, <1>12, <1>17 DEF Result
<1> QED BY <1>1, <1>13, <1>18, ResultStays

LEMMA StepKeepsCone ==
    ASSUME SearchInv, ConeInv, ResultInv, [PathsNext]_pathVars
    PROVE  (ConeInv /\ ResultInv)'
<1>1. UNCHANGED <<I, query>>
  BY DEF PathsNext, pathVars, GetFwdConeAsNodes, GetFwdConeAsLinks, enumeratePaths, StopAtDepth, Expand,
         EmitLeaf, ReturnCone, PrimeLeft, PrimeRight, ReturnSolutions, ReturnLoops, ExpandLeft,
         ExpandRight, GiveUp
<1>2. Plain' <=> Plain BY <1>1, PromisesStay
<1>3. CASE UNCHANGED pathVars
  <2>1. UNCHANGED <<job, todo, stack, found, answer>> BY <1>3 DEF pathVars
  <2>2. ASSUME NEW cur \in Nat, Reached(cur) PROVE Reached(cur)'
    <3>1. PICK stk, fnd : stk = stack /\ fnd = found OBVIOUS
    <3>2. Covers(stk, fnd, AllCalls, cur) BY <2>2, <3>1 DEF Reached
    <3>3. Covers(stack, found, AllCalls, cur)' BY <1>1, <2>1, <3>1, <3>2, CoversStays
    <3>4. AllCalls' = AllCalls BY <1>1, PromisesStay
    <3> QED BY <2>1, <2>2, <3>3, <3>4 DEF Reached
  <2>3. ConeInv' BY <1>2, <2>1, <2>2 DEF ConeInv
  <2>4. ResultInv'
    <3>1. Result(answer) => Result(answer)'
      <4>1. PICK paths : paths = answer OBVIOUS
      <4> QED BY <1>1, <2>1, <4>1, ResultStays
    <3> QED BY <1>1, <1>2, <2>1, <3>1 DEF ResultInv
  <2> QED BY <2>3, <2>4
<1>4. CASE enumeratePaths \/ StopAtDepth \/ Expand \/ EmitLeaf
  <2>1. job' = job /\ job # "done"
    BY <1>4 DEF enumeratePaths, StopAtDepth, Expand, EmitLeaf, Enumerating
  <2>2. ASSUME job = "cone", Plain PROVE \E cur \in Nat : Reached(cur)'
    BY <1>4, <2>2, EnumerationKeepsCone
  <2> QED BY <1>2, <2>1, <2>2 DEF ConeInv, ResultInv
<1>5. CASE ReturnCone
  <2>1. job' = "done" /\ job = "cone" BY <1>5 DEF ReturnCone, Answer
  <2>2. ASSUME Plain, Len(answer') < query.limit PROVE Result(answer)'
    BY <1>5, <2>1, <2>2, ReturnIsResult
  <2> QED BY <1>1, <1>2, <2>1, <2>2 DEF ConeInv, ResultInv
<1>6. CASE GetFwdConeAsNodes \/ GetFwdConeAsLinks
  <2>1. job' = "done" /\ query.kind # "cone"
    BY <1>6 DEF GetFwdConeAsNodes, GetFwdConeAsLinks, Answer
  <2> QED BY <1>2, <2>1 DEF ConeInv, ResultInv, Plain
<1>7. CASE PrimeLeft \/ PrimeRight \/ ReturnSolutions \/ ReturnLoops \/ ExpandLeft \/ ExpandRight \/ GiveUp
  <2>1. query.kind = "paths"
    BY <1>7 DEF SearchInv, PrimeLeft, PrimeRight, ReturnSolutions, ReturnLoops, ExpandLeft, ExpandRight,
                GiveUp, InRange
  <2> QED BY <1>2, <2>1 DEF ConeInv, ResultInv, Plain
<1> QED BY <1>3, <1>4, <1>5, <1>6, <1>7 DEF PathsNext

LEMMA ConeInvariant == PathsSpec => [](SearchInv /\ ConeInv /\ ResultInv)
<1>1. PathsInit => ConeInv /\ ResultInv BY InitConeInv
<1>2. SearchInv /\ (ConeInv /\ ResultInv) /\ [PathsNext]_pathVars => (ConeInv /\ ResultInv)'
  BY StepKeepsCone
<1> QED BY <1>1, <1>2, SearchInvariant, PTL DEF PathsSpec

(* As EnumerationExact has them. *)
Pairs(calls) == UNION {{<<i, w>> : w \in Maximal(calls[i])} : i \in DOMAIN calls}
ReturnedOnce(promised) ==
    /\ ToSet(answer) = {x[2] : x \in promised}
    /\ Len(answer) = Cardinality(promised)
    /\ query.sorted => \A i, j \in DOMAIN answer : i < j => Len(answer[i]) <= Len(answer[j])

(* Below its limit, a path enumeration (GetEntireConePathsAsLinks,         *)
(* GetFwdPathsAsLinks) returns every maximal trail of every call once and  *)
(* nothing else, the shortest first where the function sorts.              *)
THEOREM EveryTrailOnce == PathsSpec => []EnumerationExact
<1>1. ASSUME SearchInv, ResultInv, Plain, job = "done", Len(answer) < query.limit
      PROVE  ReturnedOnce(Pairs(AllCalls))
  <2>1. Result(answer) BY <1>1 DEF ResultInv
  <2>2. I \in Graphs /\ query \in Queries BY <1>1 DEF SearchInv
  <2>3. PICK C \in Seq(Fresh(query.starts)) : C = AllCalls
    <3>1. AllCalls \in Seq(Fresh(query.starts)) BY <2>2, QueryIs, CallsAreFresh DEF AllCalls
    <3> QED BY <3>1
  <2>4. DOMAIN C = 1 .. Len(C) OBVIOUS
  <2>5. \A i \in 1 .. Len(C) : Maximal(C[i]) = Promise(C[i])
    <3> SUFFICES ASSUME NEW i \in 1 .. Len(C) PROVE Maximal(C[i]) = Promise(C[i]) OBVIOUS
    <3>1. C[i].nptr \in NodePtrs BY DEF Fresh
    <3> QED BY <2>2, <3>1, MaximalIsPromise
  <2>6. Pairs(C) = Promised(C) BY <2>4, <2>5 DEF Pairs, Promised
  <2>7. PICK P : P = Promised(AllCalls) OBVIOUS
  <2>8. ReturnedOnce(P) BY <2>1, <2>7 DEF Result, ReturnedOnce
  <2> QED BY <2>3, <2>6, <2>7, <2>8
<1>2. SearchInv /\ ResultInv => EnumerationExact
  BY <1>1, Zenon DEF EnumerationExact, Plain, ReturnedOnce, Pairs, AllCalls
<1> QED BY <1>2, ConeInvariant, PTL

-----------------------------------------------------------------------------
(* Cones, layer by layer. *)

(* S and what is one link of type st away from it. *)
Onto(S, st) == S \cup UNION {Hops(m, <<st>>, {}) : m \in S}
(* b[k] holds the nodes at most k such links away from n. *)
Balls(b, n, st, D) ==
    /\ b \in [0 .. D -> SUBSET NodePtrs]
    /\ b[0] = {n} /\ \A k \in 1 .. D : b[k] = Onto(b[k - 1], st)

LEMMA ElementsFinite ==
    ASSUME NEW S, NEW s \in Seq(S)
    PROVE  IsFiniteSet(ToSet(s)) /\ (Once(s) => Cardinality(ToSet(s)) = Len(s))
<1>1. PICK n \in Nat : n = Len(s) /\ DOMAIN s = 1 .. n OBVIOUS
<1>2. s \in Surjection(1 .. n, ToSet(s)) BY <1>1 DEF Surjection, ToSet
<1>3. IsFiniteSet(1 .. n) /\ Cardinality(1 .. n) = n BY FS_Interval
<1>4. Once(s) => s \in Injection(1 .. n, ToSet(s))
  <2>1. s \in [1 .. n -> ToSet(s)] BY <1>2 DEF Surjection
  <2> QED BY <1>1, <2>1 DEF Once, Injection, IsInjective
<1> QED BY <1>1, <1>2, <1>3, <1>4, FS_Surjection

LEMMA HopsAre ==
    ASSUME I \in Graphs, NEW m \in NodePtrs, NEW st \in STTypes
    PROVE  /\ Hops(m, <<st>>, {}) \in SUBSET NodePtrs /\ IsFiniteSet(Hops(m, <<st>>, {}))
           /\ \A x : x \in Hops(m, <<st>>, {}) <=> \E l : Holds(LinksOf(m, <<st>>, {}), l) /\ x = l.dst
<1>1. <<st>> \in Seq(STTypes) OBVIOUS
<1>2. PICK s \in Seq(Link) : s = LinksOf(m, <<st>>, {}) BY <1>1, LinksOfElements
<1>3. Hops(m, <<st>>, {}) = {l.dst : l \in ToSet(s)} BY <1>2 DEF Hops
<1>4. \A l : Holds(s, l) <=> l \in ToSet(s) BY HoldsIsElement
<1>5. \A l \in ToSet(s) : l \in Link /\ l.dst \in NodePtrs
  <2>1. \A l \in Link : l.dst \in NodePtrs BY DEF Link
  <2> QED BY <1>4, <2>1, HoldsIsElement
<1>6. IsFiniteSet({l.dst : l \in ToSet(s)})
  <2> DEFINE T == {l.dst : l \in ToSet(s)}
             f == [l \in ToSet(s) |-> l.dst]
  <2>1. f \in Surjection(ToSet(s), T) BY DEF Surjection
  <2>2. IsFiniteSet(ToSet(s)) BY ElementsFinite
  <2> HIDE DEF f, T
  <2>3. IsFiniteSet(T) BY <2>1, <2>2, FS_Surjection
  <2> QED BY <2>3 DEF T
<1> QED BY <1>2, <1>3, <1>4, <1>5, <1>6

LEMMA OntoIs ==
    ASSUME I \in Graphs, NEW S \in SUBSET NodePtrs, NEW st \in STTypes
    PROVE  /\ Onto(S, st) \in SUBSET NodePtrs
           /\ \A x : x \in Onto(S, st) <=>
                         x \in S \/ \E m \in S : \E l : Holds(LinksOf(m, <<st>>, {}), l) /\ x = l.dst
           /\ IsFiniteSet(S) => IsFiniteSet(Onto(S, st))
<1> DEFINE H(m) == Hops(m, <<st>>, {})
<1>1. \A m \in S : /\ H(m) \in SUBSET NodePtrs /\ IsFiniteSet(H(m))
                   /\ \A x : x \in H(m) <=> \E l : Holds(LinksOf(m, <<st>>, {}), l) /\ x = l.dst
  BY HopsAre
<1> HIDE DEF H
<1>2. Onto(S, st) = S \cup UNION {H(m) : m \in S} BY DEF Onto, H
<1>3. ASSUME IsFiniteSet(S) PROVE IsFiniteSet(Onto(S, st))
  <2> DEFINE T == {H(m) : m \in S}
             f == [m \in S |-> H(m)]
  <2>1. f \in Surjection(S, T) BY DEF Surjection
  <2>2. \A t \in T : IsFiniteSet(t) BY <1>1
  <2> HIDE DEF f, T
  <2>3. IsFiniteSet(T) BY <1>3, <2>1, FS_Surjection
  <2>4. IsFiniteSet(UNION T) BY <2>2, <2>3, FS_UNION
  <2>5. IsFiniteSet(S \cup UNION T) BY <1>3, <2>4, FS_Union
  <2> QED BY <1>2, <2>5 DEF T
<1> QED BY <1>1, <1>2, <1>3

LEMMA BallsExist ==
    ASSUME I \in Graphs, NEW n \in NodePtrs, NEW st \in STTypes, NEW D \in Nat
    PROVE  \E b : Balls(b, n, st, D)
<1> DEFINE X == SUBSET NodePtrs
           F == [x \in X \X (1 .. D) |-> Onto(x[1], st)]
<1>1. \A S \in X : Onto(S, st) \in X BY OntoIs
<1>2. F \in [X \X (1 .. D) -> X] /\ {n} \in X BY <1>1
<1>3. \A S \in X, k \in 1 .. D : F[S, k] = Onto(S, st) OBVIOUS
<1> HIDE DEF F, X
<1>4. PICK b \in [0 .. D -> X] : IsRun(b, {n}, D, F) BY <1>2, RunExists
<1>5. \A k \in 1 .. D : k - 1 \in 0 .. D OBVIOUS
<1>6. b[0] = {n} /\ \A k \in 1 .. D : b[k] = Onto(b[k - 1], st) BY <1>3, <1>4, <1>5 DEF IsRun
<1> QED BY <1>4, <1>6 DEF Balls, X

LEMMA WithinIs ==
    ASSUME NEW n, NEW st, NEW D \in Nat, NEW b, Balls(b, n, st, D), NEW d \in 0 .. D
    PROVE  Within(n, st, d) = b[d] \ {n}
<1> DEFINE Def(f) == f = [k \in 0 .. d |-> IF k = 0 THEN {n}
                              ELSE f[k - 1] \cup UNION {Hops(m, <<st>>, {}) : m \in f[k - 1]}]
           ball == CHOOSE f : Def(f)
           c == [k \in 0 .. d |-> b[k]]
<1>1. Within(n, st, d) = ball[d] \ {n} BY DEF Within
<1>2. \A k \in 0 .. d : k \in 0 .. D /\ (k # 0 => k \in 1 .. D /\ k - 1 \in 0 .. d) OBVIOUS
<1>3. \A k \in 0 .. d : b[k] = IF k = 0 THEN {n}
                                   ELSE b[k - 1] \cup UNION {Hops(m, <<st>>, {}) : m \in b[k - 1]}
  BY <1>2 DEF Balls, Onto
<1>4. Def(c)
  <2>1. \A k \in 0 .. d : c[k] = b[k] OBVIOUS
  <2>2. \A k \in 0 .. d : k # 0 => c[k - 1] = b[k - 1] BY <1>2
  <2>3. c = [k \in 0 .. d |-> c[k]] OBVIOUS
  <2> HIDE DEF c
  <2>4. \A k \in 0 .. d : c[k] = IF k = 0 THEN {n}
                                   ELSE c[k - 1] \cup UNION {Hops(m, <<st>>, {}) : m \in c[k - 1]}
    BY <1>3, <2>1, <2>2
  <2>5. [k \in 0 .. d |-> c[k]] = [k \in 0 .. d |-> IF k = 0 THEN {n}
                                   ELSE c[k - 1] \cup UNION {Hops(m, <<st>>, {}) : m \in c[k - 1]}]
    BY <2>4
  <2> QED BY <2>3, <2>5
<1>5. Def(ball)
  <2> HIDE DEF Def, c
  <2> QED BY <1>4
<1> HIDE DEF ball
<1>6. \A k \in 0 .. d : ball[k] = IF k = 0 THEN {n}
                                   ELSE ball[k - 1] \cup UNION {Hops(m, <<st>>, {}) : m \in ball[k - 1]}
  BY <1>5
<1> HIDE DEF Def
<1> DEFINE S == {k \in 0 .. d : ball[k] = b[k]}
<1>7. 0 \in S
  <2>1. 0 \in 0 .. d OBVIOUS
  <2> QED BY <1>3, <1>6, <2>1
<1>8. ASSUME NEW k \in 1 .. d, k - 1 \in S PROVE k \in S
  <2>1. k \in 0 .. d /\ k # 0 /\ ball[k - 1] = b[k - 1] BY <1>8
  <2> QED BY <1>3, <1>6, <2>1
<1>9. S \in SUBSET (0 .. d) OBVIOUS
<1>10. d \in S
  <2> HIDE DEF S
  <2>1. S = 0 .. d BY <1>7, <1>8, <1>9, InductionOnSteps
  <2> QED BY <2>1
<1> QED BY <1>1, <1>10

LEMMA BallsGrow ==
    ASSUME I \in Graphs, NEW n \in NodePtrs, NEW st \in STTypes, NEW D \in Nat, NEW b,
           Balls(b, n, st, D)
    PROVE  /\ \A k \in 0 .. D : n \in b[k] /\ IsFiniteSet(b[k])
           /\ \A j \in 0 .. D, k \in 0 .. D : j <= k => b[j] \subseteq b[k]
<1>1. \A k \in 1 .. D : b[k - 1] \in SUBSET NodePtrs /\ b[k] = Onto(b[k - 1], st) BY DEF Balls
<1>2. ASSUME NEW k \in 1 .. D
      PROVE  b[k - 1] \subseteq b[k] /\ (IsFiniteSet(b[k - 1]) => IsFiniteSet(b[k]))
  <2>1. PICK T \in SUBSET NodePtrs : T = b[k - 1] BY <1>1
  <2>2. b[k] = Onto(T, st) BY <1>1, <2>1
  <2>3. T \subseteq Onto(T, st) BY DEF Onto
  <2>4. IsFiniteSet(T) => IsFiniteSet(Onto(T, st)) BY OntoIs
  <2> QED BY <2>1, <2>2, <2>3, <2>4
<1> DEFINE S == {k \in 0 .. D : n \in b[k] /\ IsFiniteSet(b[k]) /\ \A j \in 0 .. k : b[j] \subseteq b[k]}
<1>3. 0 \in S
  <2>1. IsFiniteSet({n}) BY FS_Singleton
  <2>3. b[0] = {n} /\ 0 \in 0 .. D BY DEF Balls
  <2>2. \A j \in 0 .. 0 : j = 0 OBVIOUS
  <2> QED BY <2>1, <2>2, <2>3
<1>4. ASSUME NEW k \in 1 .. D, k - 1 \in S PROVE k \in S
  <2>1. \A j \in 0 .. k : j = k \/ j \in 0 .. (k - 1) OBVIOUS
  <2>2. k \in 0 .. D OBVIOUS
  <2> QED BY <1>2, <1>4, <2>1, <2>2
<1>5. S \in SUBSET (0 .. D) OBVIOUS
<1>6. \A k \in 0 .. D : n \in b[k] /\ IsFiniteSet(b[k]) /\ \A j \in 0 .. k : b[j] \subseteq b[k]
  <2>1. S = 0 .. D
    <3> HIDE DEF S
    <3> QED BY <1>3, <1>4, <1>5, InductionOnSteps
  <2> QED BY <2>1
<1>7. ASSUME NEW j \in 0 .. D, NEW k \in 0 .. D, j <= k PROVE j \in 0 .. k BY <1>7
<1> QED BY <1>6, <1>7

(* What the search of a layer keeps; its list holds nodes or links. *)
Item(kind) == IF kind = "nodes" THEN NodePtrs ELSE Link
Cones(kind) == [visited : SUBSET NodePtrs, out : Seq(Item(kind)), queue : Seq(NodePtrs), full : BOOLEAN]

LEMMA AppendedOnce ==
    ASSUME NEW S, NEW q \in Seq(S), NEW x \in S
    PROVE  /\ Append(q, x) \in Seq(S) /\ Len(Append(q, x)) = Len(q) + 1
           /\ \A y : Holds(Append(q, x), y) <=> Holds(q, y) \/ y = x
           /\ Once(q) /\ ~Holds(q, x) => Once(Append(q, x))
<1>1. PICK n \in Nat : n = Len(q) OBVIOUS
<1>2. PICK p \in Seq(S) : /\ p = Append(q, x) /\ Len(p) = n + 1 /\ p[n + 1] = x
                          /\ \A i \in 1 .. n : p[i] = q[i]
  <2>1. /\ Append(q, x) \in Seq(S) /\ Len(Append(q, x)) = Len(q) + 1
        /\ Append(q, x)[Len(q) + 1] = x /\ \A i \in 1 .. Len(q) : Append(q, x)[i] = q[i]
    BY AppendedIs
  <2>2. PICK p \in Seq(S) : p = Append(q, x) BY <2>1
  <2> QED BY <1>1, <2>1, <2>2
<1>3. \A i \in 1 .. (n + 1) : i \in 1 .. n \/ i = n + 1 OBVIOUS
<1>4. n + 1 \in 1 .. (n + 1) /\ \A i \in 1 .. n : i \in 1 .. (n + 1) OBVIOUS
<1>5. \A y : Holds(p, y) <=> Holds(q, y) \/ y = x BY <1>1, <1>2, <1>3, <1>4 DEF Holds
<1>6. ASSUME Once(q), ~Holds(q, x) PROVE Once(p)
  <2> SUFFICES ASSUME NEW i \in 1 .. (n + 1), NEW j \in 1 .. (n + 1), p[i] = p[j] PROVE i = j
    BY <1>2 DEF Once
  <2>1. CASE i \in 1 .. n /\ j \in 1 .. n BY <1>1, <1>2, <1>6, <2>1 DEF Once
  <2>2. CASE i \in 1 .. n /\ j = n + 1 BY <1>1, <1>2, <1>6, <2>2 DEF Holds
  <2>3. CASE i = n + 1 /\ j \in 1 .. n BY <1>1, <1>2, <1>6, <2>3 DEF Holds
  <2> QED BY <1>3, <2>1, <2>2, <2>3
<1> QED BY <1>1, <1>2, <1>5, <1>6

LEMMA MeetIs ==
    ASSUME NEW kind \in {"nodes", "links"}, NEW limit \in Nat, NEW acc \in Cones(kind), NEW l \in Link
    PROVE  Meet(kind, limit, acc, l) \in Cones(kind)
<1>1. /\ acc.visited \in SUBSET NodePtrs /\ acc.out \in Seq(Item(kind)) /\ acc.queue \in Seq(NodePtrs)
      /\ acc.full \in BOOLEAN /\ l.dst \in NodePtrs
  BY DEF Cones, Link
<1>2. Append(acc.queue, l.dst) \in Seq(NodePtrs) /\ acc.visited \cup {l.dst} \in SUBSET NodePtrs BY <1>1
<1>3. CASE kind = "nodes"
  <2>1. Append(acc.out, l.dst) \in Seq(Item(kind)) BY <1>1, <1>3 DEF Item
  <2>2. (Len(acc.out) + 1 >= limit) \in BOOLEAN OBVIOUS
  <2> QED BY <1>1, <1>2, <1>3, <2>1, <2>2 DEF Meet, MeetNode, Cones
<1>4. CASE kind = "links"
  <2>1. Append(acc.out, l) \in Seq(Item(kind)) BY <1>1, <1>4 DEF Item
  <2> QED BY <1>1, <1>2, <1>4, <2>1 DEF Meet, MeetLink, Cones
<1> QED BY <1>3, <1>4

(* The fold of a layer as a run. *)
LEMMA MeetRun ==
    ASSUME NEW kind \in {"nodes", "links"}, NEW limit \in Nat, NEW acc \in Cones(kind),
           NEW scan \in Seq(Link)
    PROVE  \E r \in [0 .. Len(scan) -> Cones(kind)] :
               /\ r[0] = acc /\ \A k \in 1 .. Len(scan) : r[k] = Meet(kind, limit, r[k - 1], scan[k])
               /\ r[Len(scan)] = MeetAll(kind, limit, acc, scan)
<1> DEFINE n == Len(scan)
           X == Cones(kind)
           F == [x \in X \X (1 .. n) |-> Meet(kind, limit, x[1], scan[x[2]])]
           Def(g) == g = [s \in SUBSET DOMAIN scan |->
                            IF s = {} THEN acc
                            ELSE LET x == Max(s) IN Meet(kind, limit, g[s \ {x}], scan[x])]
           iter == CHOOSE g : Def(g)
           r == [k \in 0 .. n |-> iter[1 .. k]]
<1>1. MeetAll(kind, limit, acc, scan) = iter[DOMAIN scan]
  BY Zenon DEF MeetAll, FoldLeft, MapThenFoldSet
<1>2. DOMAIN scan = 1 .. n /\ n \in Nat /\ \A k \in 1 .. n : scan[k] \in Link OBVIOUS
<1>3. acc \in X /\ F \in [X \X (1 .. n) -> X]
  <2>1. \A m \in X, k \in 1 .. n : Meet(kind, limit, m, scan[k]) \in X BY <1>2, MeetIs
  <2> HIDE DEF n
  <2>2. acc \in X OBVIOUS
  <2> HIDE DEF X
  <2> QED BY <2>1, <2>2
<1> HIDE DEF n
<1>4. \A m \in X, k \in 1 .. n : F[m, k] = Meet(kind, limit, m, scan[k]) OBVIOUS
<1> HIDE DEF F, X
<1>5. PICK g \in [SUBSET (1 .. n) -> X] : IsFold(g, acc, n, F) BY <1>2, <1>3, FoldExists
<1>6. Def(g)
  <2>1. ASSUME NEW s \in SUBSET (1 .. n), s # {}
        PROVE  g[s] = Meet(kind, limit, g[s \ {Max(s)}], scan[Max(s)])
    <3>1. g[s] = F[g[s \ {Max(s)}], Max(s)] BY <1>5, <2>1 DEF IsFold
    <3>2. s \ {Max(s)} \in SUBSET (1 .. n) /\ Max(s) \in 1 .. n BY <1>2, <2>1, GreatestExists
    <3>3. g[s \ {Max(s)}] \in X BY <1>5, <3>2
    <3> QED BY <1>4, <3>1, <3>2, <3>3
  <2>2. {} \in SUBSET (1 .. n) /\ g[{}] = acc BY <1>5 DEF IsFold
  <2> QED BY <1>2, <1>5, <2>1, <2>2
<1>7. Def(iter)
  <2> HIDE DEF Def
  <2> QED BY <1>6
<1>8. \A s \in SUBSET (1 .. n) : iter[s] = IF s = {} THEN acc
                                               ELSE Meet(kind, limit, iter[s \ {Max(s)}], scan[Max(s)])
  <2> HIDE DEF iter
  <2> QED BY <1>2, <1>7
<1> HIDE DEF iter, Def
<1>9. r[0] = acc /\ r[n] = iter[1 .. n]
  <2>1. 1 .. 0 = {} /\ {} \in SUBSET (1 .. n) OBVIOUS
  <2>2. iter[{}] = acc BY <1>8, <2>1
  <2>3. 0 \in 0 .. n /\ n \in 0 .. n BY <1>2
  <2> QED BY <2>1, <2>2, <2>3
<1>10. ASSUME NEW k \in 1 .. n PROVE r[k] = Meet(kind, limit, r[k - 1], scan[k])
  <2>1. 1 .. k \in SUBSET (1 .. n) /\ 1 .. k # {} /\ Max(1 .. k) = k
          /\ (1 .. k) \ {k} = 1 .. (k - 1)
    BY <1>2, Intervals
  <2>2. iter[1 .. k] = Meet(kind, limit, iter[1 .. (k - 1)], scan[k]) BY <1>8, <2>1
  <2>3. k \in 0 .. n /\ k - 1 \in 0 .. n BY <1>2
  <2> QED BY <2>2, <2>3
<1> HIDE DEF r
<1>11. \A k \in 0 .. n : r[k] \in X
  <2>1. Passes(r, acc, n, X, F) BY <1>4, <1>9, <1>10 DEF Passes
  <2> QED BY <1>2, <1>3, <2>1, PassesIsRun
<1>12. r \in [0 .. n -> X] BY <1>11 DEF r
<1> QED BY <1>1, <1>2, <1>9, <1>10, <1>12 DEF X, n

(* From V the links met lead to D; unless the list is full, what was not   *)
(* visited before is on the queue, once.                                   *)
Swept(acc, V, D) ==
    /\ V \subseteq acc.visited /\ acc.visited \subseteq V \cup D
    /\ ~acc.full => /\ acc.visited = V \cup D /\ Once(acc.queue)
                    /\ \A x : Holds(acc.queue, x) <=> x \in D \ V
(* The list of nodes is what was visited, without the start, up to its limit. *)
Collected(acc, start, limit) ==
    /\ start \in acc.visited /\ Once(acc.out)
    /\ \A x : Holds(acc.out, x) <=> x \in acc.visited \ {start}
    /\ IF acc.full THEN Len(acc.out) = limit ELSE Len(acc.out) < limit

LEMMA MeetSweeps ==
    ASSUME NEW kind \in {"nodes", "links"}, NEW limit \in Nat, NEW acc \in Cones(kind), NEW l \in Link,
           NEW V, NEW D, Swept(acc, V, D), kind = "links" => ~acc.full
    PROVE  Swept(Meet(kind, limit, acc, l), V, D \cup {l.dst})
<1>1. PICK next : next = Meet(kind, limit, acc, l) OBVIOUS
<1>2. acc.queue \in Seq(NodePtrs) /\ l.dst \in NodePtrs BY DEF Cones, Link
<1>3. CASE acc.full \/ l.dst \in acc.visited
  <2>1. next.visited = acc.visited /\ next.queue = acc.queue /\ (~next.full => ~acc.full)
    <3>1. CASE kind = "nodes" BY <1>1, <1>3, <3>1 DEF Meet, MeetNode
    <3>2. CASE kind = "links"
      <4>1. l.dst \in acc.visited BY <1>3, <3>2
      <4>2. acc.visited \cup {l.dst} = acc.visited BY <4>1
      <4> QED BY <1>1, <3>2, <4>1, <4>2 DEF Meet, MeetLink
    <3> QED BY <3>1, <3>2
  <2>2. ~next.full => l.dst \in V \cup D BY <1>3, <2>1 DEF Swept
  <2>3. V \subseteq next.visited /\ next.visited \subseteq V \cup (D \cup {l.dst}) BY <2>1 DEF Swept
  <2>4. ASSUME ~next.full
        PROVE  /\ next.visited = V \cup (D \cup {l.dst}) /\ Once(next.queue)
               /\ \A x : Holds(next.queue, x) <=> x \in (D \cup {l.dst}) \ V
    BY <2>1, <2>2, <2>4 DEF Swept
  <2>5. Swept(next, V, D \cup {l.dst}) BY <2>3, <2>4 DEF Swept
  <2> QED BY <1>1, <2>5
<1>4. CASE ~acc.full /\ l.dst \notin acc.visited
  <2>1. next.visited = acc.visited \cup {l.dst} /\ next.queue = Append(acc.queue, l.dst)
    BY <1>1, <1>4 DEF Meet, MeetNode, MeetLink
  <2>2. /\ acc.visited = V \cup D /\ Once(acc.queue)
        /\ \A x : Holds(acc.queue, x) <=> x \in D \ V
    BY <1>4 DEF Swept
  <2>3. ~Holds(acc.queue, l.dst) BY <1>4, <2>2
  <2>4. Once(next.queue) /\ \A x : Holds(next.queue, x) <=> Holds(acc.queue, x) \/ x = l.dst
    BY <1>2, <2>1, <2>2, <2>3, AppendedOnce
  <2>5. next.visited = V \cup (D \cup {l.dst}) BY <2>1, <2>2
  <2>6. \A x : Holds(next.queue, x) <=> x \in (D \cup {l.dst}) \ V BY <1>4, <2>2, <2>4
  <2>7. Swept(next, V, D \cup {l.dst}) BY <2>4, <2>5, <2>6 DEF Swept
  <2> QED BY <1>1, <2>7
<1> QED BY <1>3, <1>4

LEMMA MeetCollects ==
    ASSUME NEW limit \in Nat, NEW acc \in Cones("nodes"), NEW l \in Link, NEW start,
           Collected(acc, start, limit)
    PROVE  Collected(MeetNode(limit, acc, l), start, limit)
<1>1. CASE acc.full \/ l.dst \in acc.visited BY <1>1 DEF MeetNode
<1>2. CASE ~acc.full /\ l.dst \notin acc.visited
  <2>1. PICK next : next = MeetNode(limit, acc, l) OBVIOUS
  <2>2. /\ next.visited = acc.visited \cup {l.dst} /\ next.out = Append(acc.out, l.dst)
        /\ next.full <=> Len(acc.out) + 1 >= limit
    BY <1>2, <2>1 DEF MeetNode
  <2>3. acc.out \in Seq(NodePtrs) /\ l.dst \in NodePtrs BY DEF Cones, Item, Link
  <2>4. /\ start \in acc.visited /\ Once(acc.out) /\ Len(acc.out) < limit
        /\ \A x : Holds(acc.out, x) <=> x \in acc.visited \ {start}
    BY <1>2 DEF Collected
  <2>5. ~Holds(acc.out, l.dst) BY <1>2, <2>4
  <2>6. /\ Once(next.out) /\ Len(next.out) = Len(acc.out) + 1
        /\ \A x : Holds(next.out, x) <=> Holds(acc.out, x) \/ x = l.dst
    BY <2>2, <2>3, <2>4, <2>5, AppendedOnce
  <2>7. \A x : Holds(next.out, x) <=> x \in next.visited \ {start} BY <1>2, <2>2, <2>4, <2>6
  <2>8. IF next.full THEN Len(next.out) = limit ELSE Len(next.out) < limit
    <3>1. PICK n \in Nat : n = Len(acc.out) BY <2>3
    <3>2. n < limit /\ (next.full <=> n + 1 >= limit) /\ Len(next.out) = n + 1 BY <2>2, <2>4, <2>6, <3>1
    <3> QED BY <3>2
  <2>9. start \in next.visited BY <2>2, <2>4
  <2> QED BY <2>1, <2>6, <2>7, <2>8, <2>9 DEF Collected
<1> QED BY <1>1, <1>2

(* Where the first k links lead. *)
Ends(scan, k) == {scan[i].dst : i \in 1 .. k}
(* out goes on with the first k links. *)
GoneOn(out, list, scan, k) ==
    /\ Len(out) = Len(list) + k /\ \A i \in 1 .. Len(list) : out[i] = list[i]
    /\ \A i \in 1 .. k : out[Len(list) + i] = scan[i]

LEMMA MeetGoesOn ==
    ASSUME NEW acc \in Cones("links"), NEW list \in Seq(Link), NEW scan \in Seq(Link),
           NEW k \in 1 .. Len(scan), GoneOn(acc.out, list, scan, k - 1)
    PROVE  GoneOn(MeetLink(acc, scan[k]).out, list, scan, k)
<1>1. MeetLink(acc, scan[k]).out = Append(acc.out, scan[k]) BY DEF MeetLink
<1>2. acc.out \in Seq(Link) /\ scan[k] \in Link BY DEF Cones, Item
<1>3. PICK a \in Nat : a = Len(list) OBVIOUS
<1>9. k \in Nat /\ Len(scan) \in Nat OBVIOUS
<1>4. k \in Nat /\ Len(acc.out) = a + (k - 1) /\ (\A i \in 1 .. a : acc.out[i] = list[i])
        /\ \A i \in 1 .. (k - 1) : acc.out[a + i] = scan[i]
  BY <1>3, <1>9 DEF GoneOn
<1>5. PICK q \in Seq(Link) : /\ q = Append(acc.out, scan[k]) /\ Len(q) = Len(acc.out) + 1
                             /\ q[Len(acc.out) + 1] = scan[k]
                             /\ \A i \in 1 .. Len(acc.out) : q[i] = acc.out[i]
  <2>1. /\ Append(acc.out, scan[k]) \in Seq(Link) /\ Len(Append(acc.out, scan[k])) = Len(acc.out) + 1
        /\ Append(acc.out, scan[k])[Len(acc.out) + 1] = scan[k]
        /\ \A i \in 1 .. Len(acc.out) : Append(acc.out, scan[k])[i] = acc.out[i]
    BY <1>2, AppendedIs
  <2>2. PICK q \in Seq(Link) : q = Append(acc.out, scan[k]) BY <2>1
  <2> QED BY <2>1, <2>2
<1>6. Len(acc.out) + 1 = a + k BY <1>3, <1>4
<1>7. \A i \in 1 .. a : q[i] = list[i]
  <2>1. \A i \in 1 .. a : i \in 1 .. (a + (k - 1)) BY <1>3, <1>4
  <2> QED BY <1>4, <1>5, <2>1
<1>8. \A i \in 1 .. k : q[a + i] = scan[i]
  <2>1. \A i \in 1 .. k : i = k \/ (i \in 1 .. (k - 1) /\ a + i \in 1 .. (a + (k - 1))) BY <1>3, <1>4
  <2> QED BY <1>4, <1>5, <1>6, <2>1
<1> QED BY <1>1, <1>3, <1>5, <1>6, <1>7, <1>8 DEF GoneOn

LEMMA LayerSweeps ==
    ASSUME NEW kind \in {"nodes", "links"}, NEW limit \in Nat, NEW acc \in Cones(kind),
           ~acc.full, acc.queue = <<>>, NEW scan \in Seq(Link), NEW start, NEW n \in Nat, n = Len(scan)
    PROVE  \E next \in Cones(kind) :
               /\ next = MeetAll(kind, limit, acc, scan) /\ Swept(next, acc.visited, Ends(scan, n))
               /\ kind = "nodes" /\ Collected(acc, start, limit) => Collected(next, start, limit)
               /\ kind = "links" => ~next.full /\ GoneOn(next.out, acc.out, scan, n)
<1>1. PICK r \in [0 .. n -> Cones(kind)] :
          /\ r[0] = acc /\ \A k \in 1 .. n : r[k] = Meet(kind, limit, r[k - 1], scan[k])
          /\ r[n] = MeetAll(kind, limit, acc, scan)
  BY MeetRun
<1> DEFINE Good(x, k) ==
               /\ Swept(x, acc.visited, Ends(scan, k))
               /\ kind = "nodes" /\ Collected(acc, start, limit) => Collected(x, start, limit)
               /\ kind = "links" => ~x.full /\ GoneOn(x.out, acc.out, scan, k)
           S == {k \in 0 .. n : Good(r[k], k)}
<1>2. 0 \in S
  <2>1. Ends(scan, 0) = {}
    <3>1. 1 .. 0 = {} OBVIOUS
    <3> QED BY <3>1 DEF Ends
  <2>2. Once(<<>>) /\ \A x : ~Holds(<<>>, x)
    <3>1. Len(<<>>) = 0 /\ 1 .. 0 = {} OBVIOUS
    <3> QED BY <3>1 DEF Once, Holds
  <2>3. Swept(acc, acc.visited, {}) BY <2>2 DEF Swept
  <2>4. kind = "links" => GoneOn(acc.out, acc.out, scan, 0)
    <3>1. acc.out \in Seq(Item(kind)) BY DEF Cones
    <3>2. Len(acc.out) + 0 = Len(acc.out) BY <3>1
    <3>3. 1 .. 0 = {} OBVIOUS
    <3> QED BY <3>2, <3>3 DEF GoneOn
  <2>5. 0 \in 0 .. n OBVIOUS
  <2> QED BY <1>1, <2>1, <2>3, <2>4, <2>5
<1>3. ASSUME NEW k \in 1 .. n, k - 1 \in S PROVE k \in S
  <2>1. k \in 0 .. n /\ k - 1 \in 0 .. n /\ Good(r[k - 1], k - 1) BY <1>3
  <2>2. PICK x \in Cones(kind) : x = r[k - 1] BY <1>1, <2>1
  <2>3. PICK y : y = Meet(kind, limit, x, scan[k]) /\ y = r[k] BY <1>1, <2>2
  <2>4. scan[k] \in Link OBVIOUS
  <2>5. Ends(scan, k) = Ends(scan, k - 1) \cup {scan[k].dst}
    <3>1. \A i : i \in 1 .. k <=> i \in 1 .. (k - 1) \/ i = k BY <2>1
    <3> QED BY <3>1 DEF Ends
  <2>6. Swept(y, acc.visited, Ends(scan, k))
    <3>1. PICK l \in Link : l = scan[k] BY <2>4
    <3>2. PICK D : D = Ends(scan, k - 1) OBVIOUS
    <3>3. Swept(x, acc.visited, D) /\ (kind = "links" => ~x.full) BY <2>1, <2>2, <3>2
    <3>4. Swept(Meet(kind, limit, x, l), acc.visited, D \cup {l.dst}) BY <3>3, MeetSweeps
    <3> QED BY <2>3, <2>5, <3>1, <3>2, <3>4
  <2>7. kind = "nodes" /\ Collected(acc, start, limit) => Collected(y, start, limit)
    BY <2>1, <2>2, <2>3, <2>4, MeetCollects DEF Meet
  <2>8. kind = "links" => ~y.full /\ GoneOn(y.out, acc.out, scan, k)
    <3> SUFFICES ASSUME kind = "links" PROVE ~y.full /\ GoneOn(y.out, acc.out, scan, k) OBVIOUS
    <3>1. y = MeetLink(x, scan[k]) BY <2>3 DEF Meet
    <3>2. ~y.full BY <3>1 DEF MeetLink
    <3>3. acc.out \in Seq(Link) BY DEF Cones, Item
    <3>4. GoneOn(x.out, acc.out, scan, k - 1) BY <2>1, <2>2
    <3> QED BY <2>2, <3>1, <3>2, <3>3, <3>4, MeetGoesOn
  <2> QED BY <2>1, <2>3, <2>6, <2>7, <2>8
<1>4. n \in S
  <2>1. S \in SUBSET (0 .. n) OBVIOUS
  <2>2. S = 0 .. n
    <3> HIDE DEF S
    <3> QED BY <1>2, <1>3, <2>1, InductionOnSteps
  <2> QED BY <2>2
<1>5. Good(r[n], n) /\ r[n] \in Cones(kind)
  <2>1. n \in 0 .. n OBVIOUS
  <2> QED BY <1>1, <1>4, <2>1
<1> QED BY <1>1, <1>5

(* The links of the queue, node by node. *)
LEMMA LayerIs ==
    ASSUME I \in Graphs, query.loaded, NEW kind, NEW limit, NEW st \in STTypes,
           NEW acc \in Cones(kind), ~acc.full
    PROVE  \E ss \in Seq(Seq(Link)) :
               /\ Len(ss) = Len(acc.queue)
               /\ \A i \in 1 .. Len(acc.queue) : ss[i] = LinksOf(acc.queue[i], <<st>>, {})
               /\ Layer(kind, st, limit, acc)
                    = MeetAll(kind, limit, [acc EXCEPT !.queue = <<>>], FlattenSeq(ss))
<1>1. acc.queue \in Seq(NodePtrs) BY DEF Cones
<1>2. PICK q \in Seq(NodePtrs), m \in Nat : q = acc.queue /\ m = Len(q) /\ DOMAIN q = 1 .. m BY <1>1
<1> DEFINE ss == [i \in DOMAIN acc.queue |-> LinksOf(acc.queue[i], <<st>>, {})]
<1>3. [i \in DOMAIN acc.queue |-> MemoryLinks(acc.queue[i], <<st>>, {})] = ss BY DEF MemoryLinks
<1>4. ss \in [1 .. m -> Seq(Link)]
  <2>1. <<st>> \in Seq(STTypes) OBVIOUS
  <2>3. \A i \in 1 .. m : q[i] \in NodePtrs BY <1>2
  <2>2. \A i \in 1 .. m : LinksOf(q[i], <<st>>, {}) \in Seq(Link) BY <2>1, <2>3, LinksOfElements
  <2> QED BY <1>2, <2>2
<1>5. \A i \in 1 .. m : ss[i] = LinksOf(acc.queue[i], <<st>>, {}) BY <1>2
<1>6. PICK links : links = FlattenSeq(ss) OBVIOUS
<1>7. Layer(kind, st, limit, acc) = MeetAll(kind, limit, [acc EXCEPT !.queue = <<>>], links)
  <2> HIDE DEF ss
  <2> QED BY <1>3, <1>6 DEF Layer
<1> HIDE DEF ss
<1>8. ss \in Seq(Seq(Link)) /\ Len(ss) = m
  <2>1. PICK S : S = Seq(Link) OBVIOUS
  <2>2. ss \in [1 .. m -> S] BY <1>4, <2>1
  <2>3. ss \in Seq(S) /\ Len(ss) = m BY <2>2, SequenceOf
  <2> QED BY <2>1, <2>3
<1> QED BY <1>2, <1>5, <1>6, <1>7, <1>8

(* What the layers before d visited. *)
Inner(b, d) == IF d = 0 THEN {} ELSE b[d - 1]
(* Unless the list is full, the queue holds what layer d has met first. *)
Frontier(acc, b, d) ==
    ~acc.full => /\ acc.visited = b[d] /\ Once(acc.queue)
                 /\ \A x : Holds(acc.queue, x) <=> x \in b[d] \ Inner(b, d)

(* The step from layer d - 1 to layer d, whose n links are scanned from ss. *)
Advanced(kind, start, st, limit, b, d, acc, ss, n, next) ==
    /\ Len(ss) = Len(acc.queue) /\ n = Len(FlattenSeq(ss)) /\ next = Layer(kind, st, limit, acc)
    /\ \A i \in 1 .. Len(acc.queue) : ss[i] = LinksOf(acc.queue[i], <<st>>, {})
    /\ Frontier(next, b, d) /\ b[d - 1] \subseteq next.visited /\ next.visited \subseteq b[d]
    /\ kind = "nodes" /\ Collected(acc, start, limit) => Collected(next, start, limit)
    /\ kind = "links" => ~next.full /\ GoneOn(next.out, acc.out, FlattenSeq(ss), n)

LEMMA FrontierNext ==
    ASSUME I \in Graphs, query.loaded, NEW kind \in {"nodes", "links"}, NEW limit \in Nat,
           NEW st \in STTypes, NEW start \in NodePtrs, NEW D \in Nat, NEW b, Balls(b, start, st, D),
           NEW d \in 1 .. D, NEW acc \in Cones(kind), ~acc.full, Frontier(acc, b, d - 1)
    PROVE  \E ss \in Seq(Seq(Link)), n \in Nat, next \in Cones(kind) :
               Advanced(kind, start, st, limit, b, d, acc, ss, n, next)
<1>1. PICK ss \in Seq(Seq(Link)) :
          /\ Len(ss) = Len(acc.queue)
          /\ \A i \in 1 .. Len(acc.queue) : ss[i] = LinksOf(acc.queue[i], <<st>>, {})
          /\ Layer(kind, st, limit, acc)
               = MeetAll(kind, limit, [acc EXCEPT !.queue = <<>>], FlattenSeq(ss))
  <2>1. PICK k2 : k2 = kind OBVIOUS
  <2>2. acc \in Cones(k2) BY <2>1
  <2>3. \E ss \in Seq(Seq(Link)) :
            /\ Len(ss) = Len(acc.queue)
            /\ \A i \in 1 .. Len(acc.queue) : ss[i] = LinksOf(acc.queue[i], <<st>>, {})
            /\ Layer(k2, st, limit, acc)
                 = MeetAll(k2, limit, [acc EXCEPT !.queue = <<>>], FlattenSeq(ss))
    BY <2>2, LayerIs
  <2> QED BY <2>1, <2>3
<1>2. PICK scan \in Seq(Link) :
          /\ scan = FlattenSeq(ss)
          /\ \A l : Holds(scan, l) <=> \E i \in 1 .. Len(ss) : Holds(ss[i], l)
  BY FlattenElements
<1>3. PICK n \in Nat : n = Len(scan) OBVIOUS
<1>4. PICK base \in Cones(kind) : /\ base = [acc EXCEPT !.queue = <<>>] /\ ~base.full /\ base.queue = <<>>
                                  /\ base.visited = acc.visited /\ base.out = acc.out
  <2>1. <<>> \in Seq(NodePtrs) OBVIOUS
  <2>2. [acc EXCEPT !.queue = <<>>] \in Cones(kind) BY <2>1 DEF Cones
  <2>3. PICK base \in Cones(kind) : base = [acc EXCEPT !.queue = <<>>] BY <2>2
  <2> QED BY <2>3 DEF Cones
<1>5. PICK next \in Cones(kind) :
          /\ next = MeetAll(kind, limit, base, scan) /\ Swept(next, base.visited, Ends(scan, n))
          /\ kind = "nodes" /\ Collected(base, start, limit) => Collected(next, start, limit)
          /\ kind = "links" => ~next.full /\ GoneOn(next.out, base.out, scan, n)
  <2>1. ~base.full /\ base.queue = <<>> BY <1>4
  <2>2. \E next \in Cones(kind) :
          /\ next = MeetAll(kind, limit, base, scan) /\ Swept(next, base.visited, Ends(scan, n))
          /\ kind = "nodes" /\ Collected(base, start, limit) => Collected(next, start, limit)
          /\ kind = "links" => ~next.full /\ GoneOn(next.out, base.out, scan, n)
    BY <1>3, <2>1, LayerSweeps
  <2> QED BY <2>2
<1>6. /\ acc.visited = b[d - 1] /\ Once(acc.queue)
      /\ \A x : Holds(acc.queue, x) <=> x \in b[d - 1] \ Inner(b, d - 1)
  BY DEF Frontier
<1>7. \A l : Holds(scan, l) <=>
                 \E m \in b[d - 1] \ Inner(b, d - 1) : Holds(LinksOf(m, <<st>>, {}), l)
  <2> SUFFICES ASSUME NEW l
               PROVE  Holds(scan, l) <=>
                          \E m \in b[d - 1] \ Inner(b, d - 1) : Holds(LinksOf(m, <<st>>, {}), l)
    OBVIOUS
  <2>1. \A m : m \in b[d - 1] \ Inner(b, d - 1) <=> \E i \in 1 .. Len(acc.queue) : acc.queue[i] = m
    BY <1>6 DEF Holds
  <2>2. Holds(scan, l) <=> \E i \in 1 .. Len(acc.queue) : Holds(LinksOf(acc.queue[i], <<st>>, {}), l)
    BY <1>1, <1>2
  <2> QED BY <2>1, <2>2
<1>8. \A x : x \in Ends(scan, n) <=> \E l : Holds(scan, l) /\ x = l.dst BY <1>3 DEF Ends, Holds
<1>9. d - 1 \in 0 .. D /\ b[d - 1] \in SUBSET NodePtrs /\ b[d] = Onto(b[d - 1], st)
  <2>1. d - 1 \in 0 .. D OBVIOUS
  <2> QED BY <2>1 DEF Balls
<1>10. \A x : x \in b[d] <=>
           x \in b[d - 1] \/ \E m \in b[d - 1] : \E l : Holds(LinksOf(m, <<st>>, {}), l) /\ x = l.dst
  <2>1. PICK S \in SUBSET NodePtrs : S = b[d - 1] BY <1>9
  <2>2. \A x : x \in Onto(S, st) <=>
            x \in S \/ \E m \in S : \E l : Holds(LinksOf(m, <<st>>, {}), l) /\ x = l.dst
    BY OntoIs
  <2>3. b[d] = Onto(S, st) BY <1>9, <2>1
  <2> QED BY <2>1, <2>2, <2>3
<1>11. ASSUME NEW m \in Inner(b, d - 1), NEW l, Holds(LinksOf(m, <<st>>, {}), l)
       PROVE  l.dst \in b[d - 1]
  <2>1. d - 1 # 0 /\ m \in b[(d - 1) - 1] BY <1>11 DEF Inner
  <2>2. PICK k \in 1 .. D : k = d - 1 BY <2>1
  <2>3. k - 1 \in 0 .. D BY <2>2
  <2>4. b[k] = Onto(b[k - 1], st) /\ b[k - 1] \in SUBSET NodePtrs BY <2>3 DEF Balls
  <2>5. l.dst \in Onto(b[k - 1], st) BY <1>11, <2>1, <2>2, <2>4, OntoIs
  <2> QED BY <2>2, <2>4, <2>5
<1>12. b[d - 1] \cup Ends(scan, n) = b[d]
  <2>1. ASSUME NEW x \in Ends(scan, n) PROVE x \in b[d] BY <1>7, <1>8, <1>10
  <2>2. ASSUME NEW x \in b[d], x \notin b[d - 1] PROVE x \in Ends(scan, n)
    <3>1. PICK m \in b[d - 1] : \E l : Holds(LinksOf(m, <<st>>, {}), l) /\ x = l.dst BY <1>10, <2>2
    <3>2. PICK l : Holds(LinksOf(m, <<st>>, {}), l) /\ x = l.dst BY <3>1
    <3>3. m \notin Inner(b, d - 1) BY <1>11, <2>2, <3>2
    <3> QED BY <1>7, <1>8, <3>2, <3>3
  <2>3. b[d - 1] \subseteq b[d] BY <1>10
  <2> QED BY <2>1, <2>2, <2>3
<1>13. PICK V, E : V = b[d - 1] /\ E = Ends(scan, n) OBVIOUS
<1>14. Swept(next, V, E) /\ V \cup E = b[d] BY <1>4, <1>5, <1>6, <1>12, <1>13
<1>15. Frontier(next, b, d)
  <2>1. Inner(b, d) = V BY <1>13 DEF Inner
  <2>2. E \ V = b[d] \ V BY <1>14
  <2> QED BY <1>14, <2>1, <2>2 DEF Frontier, Swept
<1>16. b[d - 1] \subseteq next.visited /\ next.visited \subseteq b[d] BY <1>13, <1>14 DEF Swept
<1>17. Collected(acc, start, limit) => Collected(base, start, limit)
  BY <1>4 DEF Collected
<1>18. next = Layer(kind, st, limit, acc) BY <1>1, <1>2, <1>4, <1>5
<1>19. Advanced(kind, start, st, limit, b, d, acc, ss, n, next)
  BY <1>1, <1>2, <1>3, <1>4, <1>5, <1>15, <1>16, <1>17, <1>18 DEF Advanced
<1> QED BY <1>19

(* The list holds the links of the nodes of P, each under its node. *)
Carried(out, tag, P, st) ==
    /\ \A i \in 1 .. Len(out) : tag[i] \in P /\ Holds(LinksOf(tag[i], <<st>>, {}), out[i])
    /\ \A n \in P : \A l : Holds(LinksOf(n, <<st>>, {}), l) =>
                               \E i \in 1 .. Len(out) : tag[i] = n /\ out[i] = l
    /\ \A i, j \in 1 .. Len(out) : tag[i] = tag[j] /\ out[i] = out[j] => i = j

LEMMA CarriedNext ==
    ASSUME I \in Graphs, NEW st \in STTypes, NEW list \in Seq(Link), NEW tag, NEW P,
           Carried(list, tag, P, st), NEW queue \in Seq(NodePtrs), Once(queue),
           NEW Q, \A x : Holds(queue, x) <=> x \in Q, P \cap Q = {},
           NEW ss \in Seq(Seq(Link)), Len(ss) = Len(queue),
           \A i \in 1 .. Len(queue) : ss[i] = LinksOf(queue[i], <<st>>, {}),
           NEW scan \in Seq(Link), scan = FlattenSeq(ss), NEW n \in Nat, n = Len(scan),
           NEW out \in Seq(Link), GoneOn(out, list, scan, n)
    PROVE  \E tag2 : Carried(out, tag2, P \cup Q, st)
<1>1. PICK m \in Nat : m = Len(queue) /\ \A k \in 1 .. m : queue[k] \in NodePtrs OBVIOUS
<1>2. PICK row, col : Placed(scan, ss, m, row, col) BY <1>1, FlattenPlaces
<1>3. PICK a \in Nat : a = Len(list) OBVIOUS
<1>4. /\ Len(out) = a + n /\ \A i \in 1 .. a : out[i] = list[i]
      /\ \A i \in 1 .. n : out[a + i] = scan[i]
  BY <1>3 DEF GoneOn
<1> DEFINE tag2 == [i \in 1 .. (a + n) |-> IF i <= a THEN tag[i] ELSE queue[row[i - a]]]
<1>5. /\ \A i \in 1 .. a : i \in 1 .. (a + n) /\ tag2[i] = tag[i]
      /\ \A i \in 1 .. n : a + i \in 1 .. (a + n) /\ tag2[a + i] = queue[row[i]]
  <2>1. \A i \in 1 .. a : i \in 1 .. (a + n) /\ i <= a OBVIOUS
  <2>2. \A i \in 1 .. n : a + i \in 1 .. (a + n) /\ ~(a + i <= a) /\ (a + i) - a = i OBVIOUS
  <2> QED BY <2>1, <2>2
<1> HIDE DEF tag2
<1>6. \A i \in 1 .. (a + n) : i \in 1 .. a \/ \E j \in 1 .. n : i = a + j
  <2> SUFFICES ASSUME NEW i \in 1 .. (a + n), i \notin 1 .. a PROVE \E j \in 1 .. n : i = a + j OBVIOUS
  <2>1. i - a \in 1 .. n /\ i = a + (i - a) OBVIOUS
  <2> QED BY <2>1
<1>7. ASSUME NEW j \in 1 .. n
      PROVE  /\ row[j] \in 1 .. m /\ queue[row[j]] \in Q
             /\ Holds(LinksOf(queue[row[j]], <<st>>, {}), scan[j])
  <2>1. row[j] \in 1 .. m /\ col[j] \in 1 .. Len(ss[row[j]]) /\ scan[j] = ss[row[j]][col[j]]
    BY <1>2 DEF Placed
  <2>2. Holds(ss[row[j]], scan[j]) BY <2>1 DEF Holds
  <2>3. Holds(queue, queue[row[j]]) BY <1>1, <2>1 DEF Holds
  <2> QED BY <1>1, <2>1, <2>2, <2>3
<1>8. \A i \in 1 .. a : tag[i] \in P /\ Holds(LinksOf(tag[i], <<st>>, {}), list[i])
  BY <1>3 DEF Carried
<1>9. ASSUME NEW i \in 1 .. (a + n)
      PROVE  tag2[i] \in P \cup Q /\ Holds(LinksOf(tag2[i], <<st>>, {}), out[i])
  <2>1. CASE i \in 1 .. a BY <1>4, <1>5, <1>8, <2>1
  <2>2. CASE i \notin 1 .. a
    <3>1. PICK j \in 1 .. n : i = a + j BY <1>6, <2>2
    <3> QED BY <1>4, <1>5, <1>7, <3>1
  <2> QED BY <2>1, <2>2
<1>10. ASSUME NEW x \in P \cup Q, NEW l, Holds(LinksOf(x, <<st>>, {}), l)
       PROVE  \E i \in 1 .. (a + n) : tag2[i] = x /\ out[i] = l
  <2>1. CASE x \in P
    <3>1. PICK i \in 1 .. a : tag[i] = x /\ list[i] = l BY <1>3, <1>10, <2>1 DEF Carried
    <3> QED BY <1>4, <1>5, <3>1
  <2>2. CASE x \in Q
    <3>1. PICK k \in 1 .. m : queue[k] = x BY <1>1, <2>2 DEF Holds
    <3>2. ss[k] = LinksOf(x, <<st>>, {}) BY <1>1, <3>1
    <3>3. PICK c \in 1 .. Len(ss[k]) : ss[k][c] = l BY <1>10, <3>2 DEF Holds
    <3>4. PICK j \in 1 .. n : row[j] = k /\ col[j] = c BY <1>2, <3>3 DEF Placed
    <3>5. scan[j] = l BY <1>2, <3>3, <3>4 DEF Placed
    <3> QED BY <1>4, <1>5, <3>1, <3>4, <3>5
  <2> QED BY <1>10, <2>1, <2>2
<1>11. ASSUME NEW i \in 1 .. (a + n), NEW j \in 1 .. (a + n), tag2[i] = tag2[j], out[i] = out[j]
       PROVE  i = j
  <2>1. CASE i \in 1 .. a /\ j \in 1 .. a BY <1>3, <1>4, <1>5, <1>11, <2>1 DEF Carried
  <2>2. CASE i \in 1 .. a /\ j \notin 1 .. a
    <3>1. PICK k \in 1 .. n : j = a + k BY <1>6, <2>2
    <3>2. tag2[i] \in P /\ tag2[j] \in Q BY <1>5, <1>7, <1>8, <2>2, <3>1
    <3> QED BY <1>11, <3>2
  <2>3. CASE i \notin 1 .. a /\ j \in 1 .. a
    <3>1. PICK k \in 1 .. n : i = a + k BY <1>6, <2>3
    <3>2. tag2[j] \in P /\ tag2[i] \in Q BY <1>5, <1>7, <1>8, <2>3, <3>1
    <3> QED BY <1>11, <3>2
  <2>4. CASE i \notin 1 .. a /\ j \notin 1 .. a
    <3>1. PICK k \in 1 .. n : i = a + k BY <1>6, <2>4
    <3>2. PICK h \in 1 .. n : j = a + h BY <1>6, <2>4
    <3>3. queue[row[k]] = queue[row[h]] /\ scan[k] = scan[h] BY <1>4, <1>5, <1>11, <3>1, <3>2
    <3>4. row[k] = row[h] BY <1>1, <1>7, <3>3 DEF Once
    <3>5. Once(ss[row[k]])
      <4>1. <<st>> \in Seq(STTypes) /\ Once(<<st>>) BY DEF Once
      <4>2. queue[row[k]] \in NodePtrs BY <1>1, <1>7
      <4>3. Once(LinksOf(queue[row[k]], <<st>>, {})) BY <4>1, <4>2, LinksOnce
      <4> QED BY <1>1, <1>7, <4>3
    <3>6. col[k] = col[h]
      <4>1. /\ col[k] \in 1 .. Len(ss[row[k]]) /\ scan[k] = ss[row[k]][col[k]]
            /\ col[h] \in 1 .. Len(ss[row[k]]) /\ scan[h] = ss[row[k]][col[h]]
        BY <1>2, <3>4 DEF Placed
      <4> QED BY <3>3, <3>5, <4>1 DEF Once
    <3>7. k = h
      <4>1. \A i1, j1 \in 1 .. n : i1 < j1 => row[i1] < row[j1] \/ (row[i1] = row[j1] /\ col[i1] < col[j1])
        BY <1>2 DEF Placed
      <4>2. ASSUME NEW u \in 1 .. n, NEW v \in 1 .. n, u < v, row[u] = row[v], col[u] = col[v] PROVE FALSE
        <5>1. PICK r, c : r = row[u] /\ c = col[u] OBVIOUS
        <5>2. r \in Int /\ c \in Int
          <6>1. row[u] \in 1 .. m /\ col[u] \in 1 .. Len(ss[row[u]]) BY <1>2 DEF Placed
          <6> QED BY <5>1, <6>1
        <5>3. r < r \/ (r = r /\ c < c) BY <4>1, <4>2, <5>1
        <5> QED BY <5>2, <5>3
      <4>3. ~(k < h) /\ ~(h < k) BY <3>4, <3>6, <4>2
      <4> QED BY <4>3
    <3> QED BY <3>1, <3>2, <3>7
  <2> QED BY <2>1, <2>2, <2>3, <2>4
<1>12. PICK R : R = P \cup Q OBVIOUS
<1>13. PICK t : t = tag2 OBVIOUS
<1>14. Carried(out, t, R, st)
  <2>1. \A i \in 1 .. Len(out) : t[i] \in R /\ Holds(LinksOf(t[i], <<st>>, {}), out[i])
    BY <1>4, <1>9, <1>12, <1>13
  <2>2. \A x \in R : \A l : Holds(LinksOf(x, <<st>>, {}), l) =>
                                \E i \in 1 .. Len(out) : t[i] = x /\ out[i] = l
    BY <1>4, <1>10, <1>12, <1>13
  <2>3. \A i, j \in 1 .. Len(out) : t[i] = t[j] /\ out[i] = out[j] => i = j
    BY <1>4, <1>11, <1>13
  <2> QED BY <2>1, <2>2, <2>3 DEF Carried
<1> QED BY <1>12, <1>14

FirstLayer(start) == [visited |-> {start}, out |-> <<>>, queue |-> <<start>>, full |-> FALSE]

(* What is found by layer d; a list that is full lies between two balls. *)
Between(S, b, d) == \E e \in 0 .. d : Inner(b, e) \subseteq S /\ S \subseteq b[e]
NodesLayer(acc, b, d, start, limit) ==
    Frontier(acc, b, d) /\ Between(acc.visited, b, d) /\ Collected(acc, start, limit)
LinksLayer(acc, b, d, st) ==
    ~acc.full /\ Frontier(acc, b, d) /\ \E tag : Carried(acc.out, tag, Inner(b, d), st)
LayerInv(kind, acc, b, d, start, st, limit) ==
    /\ kind = "nodes" => NodesLayer(acc, b, d, start, limit)
    /\ kind = "links" => LinksLayer(acc, b, d, st)

LEMMA FirstLayerIs ==
    ASSUME NEW kind \in {"nodes", "links"}, NEW limit \in Nat, kind = "nodes" => limit # 0,
           NEW st \in STTypes, NEW start \in NodePtrs,
           NEW D \in Nat, NEW b, Balls(b, start, st, D)
    PROVE  /\ FirstLayer(start) \in Cones(kind)
           /\ LayerInv(kind, FirstLayer(start), b, 0, start, st, limit)
<1>1. PICK acc : acc = FirstLayer(start) OBVIOUS
<1>2. acc.visited = {start} /\ acc.out = <<>> /\ acc.queue = <<start>> /\ ~acc.full
  BY <1>1 DEF FirstLayer
<1>3. <<>> \in Seq(Item(kind)) /\ <<start>> \in Seq(NodePtrs) /\ {start} \in SUBSET NodePtrs OBVIOUS
<1>4. acc \in Cones(kind) BY <1>1, <1>3 DEF FirstLayer, Cones
<1>5. b[0] = {start} /\ Inner(b, 0) = {} BY DEF Balls, Inner
<1>6. Once(<<start>>) /\ \A x : Holds(<<start>>, x) <=> x = start
  <2>1. Len(<<start>>) = 1 /\ <<start>>[1] = start /\ 1 .. 1 = {1} OBVIOUS
  <2> QED BY <2>1 DEF Once, Holds
<1>7. Len(<<>>) = 0 /\ Once(<<>>) /\ \A x : ~Holds(<<>>, x)
  <2>1. Len(<<>>) = 0 /\ 1 .. 0 = {} OBVIOUS
  <2> QED BY <2>1 DEF Once, Holds
<1>8. Frontier(acc, b, 0) BY <1>2, <1>5, <1>6 DEF Frontier
<1>9. Between(acc.visited, b, 0)
  <2>1. 0 \in 0 .. 0 OBVIOUS
  <2> QED BY <1>2, <1>5, <2>1 DEF Between
<1>10. kind = "nodes" => Collected(acc, start, limit)
  <2>1. \A x : x \notin {start} \ {start} OBVIOUS
  <2>2. limit # 0 => 0 < limit OBVIOUS
  <2> QED BY <1>2, <1>7, <2>1, <2>2 DEF Collected
<1>11. \E tag : Carried(acc.out, tag, Inner(b, 0), st)
  <2>1. 1 .. 0 = {} OBVIOUS
  <2> QED BY <1>2, <1>5, <1>7, <2>1 DEF Carried
<1> QED BY <1>1, <1>2, <1>4, <1>8, <1>9, <1>10, <1>11 DEF LayerInv, NodesLayer, LinksLayer

LEMMA LayerInCones ==
    ASSUME I \in Graphs, query.loaded, NEW kind \in {"nodes", "links"}, NEW limit \in Nat,
           NEW st \in STTypes, NEW acc \in Cones(kind)
    PROVE  Layer(kind, st, limit, acc) \in Cones(kind)
<1>1. CASE acc.full BY <1>1 DEF Layer
<1>2. CASE ~acc.full
  <2>1. PICK ss \in Seq(Seq(Link)) :
            Layer(kind, st, limit, acc) = MeetAll(kind, limit, [acc EXCEPT !.queue = <<>>], FlattenSeq(ss))
    <3>1. PICK k2 : k2 = kind OBVIOUS
    <3>2. acc \in Cones(k2) BY <3>1
    <3>3. \E ss \in Seq(Seq(Link)) :
            /\ Len(ss) = Len(acc.queue)
            /\ \A i \in 1 .. Len(acc.queue) : ss[i] = LinksOf(acc.queue[i], <<st>>, {})
            /\ Layer(k2, st, limit, acc)
                 = MeetAll(k2, limit, [acc EXCEPT !.queue = <<>>], FlattenSeq(ss))
      BY <1>2, <3>2, LayerIs
    <3> QED BY <3>1, <3>3
  <2>2. PICK scan \in Seq(Link) : scan = FlattenSeq(ss) BY FlattenElements
  <2>3. PICK base \in Cones(kind) : base = [acc EXCEPT !.queue = <<>>] /\ ~base.full /\ base.queue = <<>>
    <3>1. <<>> \in Seq(NodePtrs) OBVIOUS
    <3>2. [acc EXCEPT !.queue = <<>>] \in Cones(kind) BY <3>1 DEF Cones
    <3>3. PICK base \in Cones(kind) : base = [acc EXCEPT !.queue = <<>>] BY <3>2
    <3> QED BY <1>2, <3>3 DEF Cones
  <2>4. PICK n \in Nat : n = Len(scan) OBVIOUS
  <2> DEFINE start == acc
  <2>5. \E next \in Cones(kind) :
          /\ next = MeetAll(kind, limit, base, scan) /\ Swept(next, base.visited, Ends(scan, n))
          /\ kind = "nodes" /\ Collected(base, start, limit) => Collected(next, start, limit)
          /\ kind = "links" => ~next.full /\ GoneOn(next.out, base.out, scan, n)
    <3>1. ~base.full /\ base.queue = <<>> BY <2>3
    <3> HIDE DEF start
    <3> QED BY <2>4, <3>1, LayerSweeps
  <2> QED BY <2>1, <2>2, <2>3, <2>5
<1> QED BY <1>1, <1>2

LEMMA LayerKeeps ==
    ASSUME I \in Graphs, query.loaded, NEW kind \in {"nodes", "links"}, NEW limit \in Nat,
           NEW st \in STTypes, NEW start \in NodePtrs, NEW D \in Nat, NEW b, Balls(b, start, st, D),
           NEW d \in 1 .. D, NEW acc \in Cones(kind), LayerInv(kind, acc, b, d - 1, start, st, limit)
    PROVE  LayerInv(kind, Layer(kind, st, limit, acc), b, d, start, st, limit)
<1>1. d \in Nat /\ d - 1 \in 0 .. D /\ d \in 0 .. D /\ d # 0 OBVIOUS
<1>2. Inner(b, d) = b[d - 1] BY <1>1 DEF Inner
<1>3. CASE acc.full
  <2>1. kind = "nodes" /\ Layer(kind, st, limit, acc) = acc BY <1>3 DEF LayerInv, LinksLayer, Layer
  <2>2. Frontier(acc, b, d) BY <1>3 DEF Frontier
  <2>3. Between(acc.visited, b, d)
    <3>1. PICK e \in 0 .. (d - 1) : Inner(b, e) \subseteq acc.visited /\ acc.visited \subseteq b[e]
      BY <2>1 DEF LayerInv, NodesLayer, Between
    <3>2. e \in 0 .. d OBVIOUS
    <3> QED BY <3>1, <3>2 DEF Between
  <2> QED BY <2>1, <2>2, <2>3 DEF LayerInv, NodesLayer
<1>4. CASE ~acc.full
  <2>1. Frontier(acc, b, d - 1) BY DEF LayerInv, NodesLayer, LinksLayer
  <2>2. PICK ss \in Seq(Seq(Link)), n \in Nat, next \in Cones(kind) :
            Advanced(kind, start, st, limit, b, d, acc, ss, n, next)
    BY <1>4, <2>1, FrontierNext
  <2>4. /\ Len(ss) = Len(acc.queue) /\ n = Len(FlattenSeq(ss)) /\ next = Layer(kind, st, limit, acc)
        /\ \A i \in 1 .. Len(acc.queue) : ss[i] = LinksOf(acc.queue[i], <<st>>, {})
        /\ Frontier(next, b, d) /\ b[d - 1] \subseteq next.visited /\ next.visited \subseteq b[d]
        /\ kind = "nodes" /\ Collected(acc, start, limit) => Collected(next, start, limit)
        /\ kind = "links" => ~next.full /\ GoneOn(next.out, acc.out, FlattenSeq(ss), n)
    BY <2>2 DEF Advanced
  <2>5. CASE kind = "nodes"
    <3>1. Between(next.visited, b, d)
      <4>1. d \in 0 .. d BY <1>1
      <4> QED BY <1>2, <2>4, <4>1 DEF Between
    <3>2. Collected(next, start, limit) BY <2>4, <2>5 DEF LayerInv, NodesLayer
    <3>3. NodesLayer(next, b, d, start, limit) BY <2>4, <3>1, <3>2 DEF NodesLayer
    <3> QED BY <2>4, <2>5, <3>3 DEF LayerInv
  <2>6. CASE kind = "links"
    <3>1. PICK tag : Carried(acc.out, tag, Inner(b, d - 1), st) BY <2>6 DEF LayerInv, LinksLayer
    <3>2. PICK P, Q : P = Inner(b, d - 1) /\ Q = b[d - 1] \ P OBVIOUS
    <3>3. P \cap Q = {} /\ P \cup Q = b[d - 1]
      <4>1. CASE d - 1 = 0 BY <3>2, <4>1 DEF Inner
      <4>2. CASE d - 1 # 0
        <5>1. P = b[(d - 1) - 1] BY <3>2, <4>2 DEF Inner
        <5>2. (d - 1) - 1 \in 0 .. D /\ d - 1 \in 0 .. D /\ (d - 1) - 1 <= d - 1 BY <1>1, <4>2
        <5>3. P \subseteq b[d - 1] BY <5>1, <5>2, BallsGrow
        <5> QED BY <3>2, <5>3
      <4> QED BY <4>1, <4>2
    <3>4. Once(acc.queue) /\ \A x : Holds(acc.queue, x) <=> x \in Q BY <1>4, <2>1, <3>2 DEF Frontier
    <3>5. acc.queue \in Seq(NodePtrs) /\ acc.out \in Seq(Link) /\ next.out \in Seq(Link)
      BY <2>6 DEF Cones, Item
    <3>6. PICK scan \in Seq(Link) : scan = FlattenSeq(ss) BY FlattenElements
    <3>7. PICK list, out, queue : list = acc.out /\ out = next.out /\ queue = acc.queue OBVIOUS
    <3>8. \E tag2 : Carried(out, tag2, P \cup Q, st)
      <4>1. list \in Seq(Link) /\ out \in Seq(Link) /\ queue \in Seq(NodePtrs) BY <3>5, <3>7
      <4>2. Carried(list, tag, P, st) BY <3>1, <3>2, <3>7
      <4>3. Once(queue) /\ \A x : Holds(queue, x) <=> x \in Q BY <3>4, <3>7
      <4>4. Len(ss) = Len(queue) /\ \A i \in 1 .. Len(queue) : ss[i] = LinksOf(queue[i], <<st>>, {})
        BY <2>4, <3>7
      <4>5. n = Len(scan) /\ GoneOn(out, list, scan, n) BY <2>4, <2>6, <3>6, <3>7
      <4> QED BY <3>3, <3>6, <4>1, <4>2, <4>3, <4>4, <4>5, CarriedNext
    <3>9. PICK R : R = P \cup Q OBVIOUS
    <3>10. Inner(b, d) = R BY <1>2, <3>3, <3>9
    <3>11. \E tag2 : Carried(next.out, tag2, Inner(b, d), st) BY <3>7, <3>8, <3>9, <3>10
    <3>12. LinksLayer(next, b, d, st) BY <2>4, <2>6, <3>11 DEF LinksLayer
    <3> QED BY <2>4, <2>6, <3>12 DEF LayerInv
  <2> QED BY <2>5, <2>6
<1> QED BY <1>3, <1>4

(* A cone is what the last layer of a run holds. *)
LEMMA ConeRun ==
    ASSUME I \in Graphs, query.loaded, NEW kind \in {"nodes", "links"}, NEW limit \in Nat,
           kind = "nodes" => limit # 0, NEW st \in STTypes, NEW start \in NodePtrs,
           NEW D \in Nat, NEW b, Balls(b, start, st, D)
    PROVE  \E acc \in Cones(kind) : /\ Cone(kind, start, st, D, limit) = acc.out
                                    /\ LayerInv(kind, acc, b, D, start, st, limit)
<1> DEFINE X == Cones(kind)
           first == FirstLayer(start)
           F == [x \in X \X (1 .. D) |-> Layer(kind, st, limit, x[1])]
           Def(f) == f = [d \in 0 .. D |-> IF d = 0 THEN first ELSE Layer(kind, st, limit, f[d - 1])]
           layers == CHOOSE f : Def(f)
<1>1. Cone(kind, start, st, D, limit) = layers[D].out BY Zenon DEF Cone, FirstLayer
<1>2. first \in X /\ \A x \in X : Layer(kind, st, limit, x) \in X BY FirstLayerIs, LayerInCones
<1> HIDE DEF X, first
<1>3. F \in [X \X (1 .. D) -> X] /\ \A x \in X, k \in 1 .. D : F[x, k] = Layer(kind, st, limit, x)
  BY <1>2
<1> HIDE DEF F
<1>4. PICK r \in [0 .. D -> X] : IsRun(r, first, D, F) BY <1>2, <1>3, RunExists
<1>5. \A k \in 1 .. D : k - 1 \in 0 .. D /\ k \in 0 .. D /\ k # 0 OBVIOUS
<1>6. r[0] = first /\ \A k \in 1 .. D : r[k] = Layer(kind, st, limit, r[k - 1])
  BY <1>3, <1>4, <1>5 DEF IsRun
<1>7. Def(r)
  <2>1. \A k \in 0 .. D : r[k] = IF k = 0 THEN first ELSE Layer(kind, st, limit, r[k - 1])
    <3>1. \A k \in 0 .. D : k # 0 => k \in 1 .. D OBVIOUS
    <3> QED BY <1>6, <3>1
  <2>2. r = [k \in 0 .. D |-> r[k]] BY <1>4
  <2>3. [k \in 0 .. D |-> r[k]]
          = [k \in 0 .. D |-> IF k = 0 THEN first ELSE Layer(kind, st, limit, r[k - 1])]
    BY <2>1
  <2> QED BY <2>2, <2>3
<1>8. Def(layers)
  <2> HIDE DEF Def
  <2> QED BY <1>7
<1> HIDE DEF layers
<1>9. \A k \in 0 .. D : layers[k] = IF k = 0 THEN first ELSE Layer(kind, st, limit, layers[k - 1])
  BY <1>8
<1> HIDE DEF Def
<1> DEFINE S == {k \in 0 .. D : /\ layers[k] \in X
                                /\ LayerInv(kind, layers[k], b, k, start, st, limit)}
<1>10. 0 \in S
  <2>1. 0 \in 0 .. D OBVIOUS
  <2>2. layers[0] = first BY <1>9, <2>1
  <2>3. LayerInv(kind, first, b, 0, start, st, limit) BY FirstLayerIs DEF first
  <2> QED BY <1>2, <2>1, <2>2, <2>3
<1>11. ASSUME NEW k \in 1 .. D, k - 1 \in S PROVE k \in S
  <2>1. k \in 0 .. D /\ k - 1 \in 0 .. D /\ k # 0 BY <1>5
  <2>2. PICK acc \in X : acc = layers[k - 1] /\ LayerInv(kind, acc, b, k - 1, start, st, limit)
    BY <1>11
  <2>3. layers[k] = Layer(kind, st, limit, acc) BY <1>9, <2>1, <2>2
  <2>4. LayerInv(kind, Layer(kind, st, limit, acc), b, k, start, st, limit)
    BY <2>2, LayerKeeps DEF X
  <2> QED BY <1>2, <2>1, <2>2, <2>3, <2>4
<1>12. S \in SUBSET (0 .. D) OBVIOUS
<1>13. D \in S
  <2> HIDE DEF S
  <2>1. S = 0 .. D BY <1>10, <1>11, <1>12, InductionOnSteps
  <2> QED BY <2>1
<1> QED BY <1>1, <1>13 DEF X

(* What GetFwdConeAsNodes promises of its list. *)
NodesFound(list, b, start, D, limit) ==
    /\ list \in Seq(NodePtrs) /\ Once(list) /\ ToSet(list) \subseteq b[D] \ {start}
    /\ Len(list) = (IF Cardinality(b[D] \ {start}) < limit THEN Cardinality(b[D] \ {start}) ELSE limit)
    /\ \A d \in 1 .. D : b[d] \ {start} \subseteq ToSet(list) \/ ToSet(list) \subseteq b[d] \ {start}

LEMMA NodesAreFound ==
    ASSUME I \in Graphs, NEW limit \in Nat, NEW st \in STTypes, NEW start \in NodePtrs,
           NEW D \in Nat, NEW b, Balls(b, start, st, D),
           NEW acc \in Cones("nodes"), NodesLayer(acc, b, D, start, limit)
    PROVE  NodesFound(acc.out, b, start, D, limit)
<1>1. PICK list \in Seq(NodePtrs) : list = acc.out BY DEF Cones, Item
<1>2. Once(list) /\ ToSet(list) = acc.visited \ {start}
  <2>1. Once(list) /\ \A x : Holds(list, x) <=> x \in acc.visited \ {start}
    BY <1>1 DEF NodesLayer, Collected
  <2>2. \A x : x \in ToSet(list) <=> x \in acc.visited \ {start} BY <2>1, HoldsIsElement
  <2> QED BY <2>1, <2>2
<1>3. /\ \A k \in 0 .. D : start \in b[k] /\ IsFiniteSet(b[k])
      /\ \A j \in 0 .. D, k \in 0 .. D : j <= k => b[j] \subseteq b[k]
  BY BallsGrow
<1>4. PICK e \in 0 .. D : Inner(b, e) \subseteq acc.visited /\ acc.visited \subseteq b[e]
  BY DEF NodesLayer, Between
<1>5. D \in 0 .. D /\ e <= D OBVIOUS
<1>6. PICK all : all = b[D] \ {start} OBVIOUS
<1>7. acc.visited \subseteq b[D] BY <1>3, <1>4, <1>5
<1>8. ToSet(list) \subseteq all BY <1>2, <1>6, <1>7
<1>9. IsFiniteSet(all) BY <1>3, <1>5, <1>6, FS_Subset
<1>10. Cardinality(ToSet(list)) = Len(list) BY <1>2, ElementsFinite
<1>11. Len(list) = (IF Cardinality(all) < limit THEN Cardinality(all) ELSE limit)
  <2>0. Cardinality(all) \in Nat BY <1>9, FS_CardinalityType
  <2>1. CASE acc.full
    <3>1. Len(list) = limit BY <1>1, <2>1 DEF NodesLayer, Collected
    <3>2. Cardinality(ToSet(list)) <= Cardinality(all) BY <1>8, <1>9, FS_Subset
    <3> QED BY <1>10, <2>0, <3>1, <3>2
  <2>2. CASE ~acc.full
    <3>1. acc.visited = b[D] /\ Len(list) < limit
      BY <1>1, <2>2 DEF NodesLayer, Frontier, Collected
    <3>2. ToSet(list) = all BY <1>2, <1>6, <3>1
    <3> QED BY <1>10, <3>1, <3>2
  <2> QED BY <2>1, <2>2
<1>12. ASSUME NEW d \in 1 .. D
       PROVE  b[d] \ {start} \subseteq ToSet(list) \/ ToSet(list) \subseteq b[d] \ {start}
  <2>1. d \in 0 .. D OBVIOUS
  <2>2. CASE e <= d
    <3>1. b[e] \subseteq b[d] BY <1>3, <2>1, <2>2
    <3> QED BY <1>2, <1>4, <3>1
  <2>3. CASE d < e
    <3>1. e - 1 \in 0 .. D /\ d <= e - 1 /\ e # 0 BY <2>3
    <3>2. b[d] \subseteq b[e - 1] BY <1>3, <2>1, <3>1
    <3>3. Inner(b, e) = b[e - 1] BY <3>1 DEF Inner
    <3> QED BY <1>2, <1>4, <3>2, <3>3
  <2> QED BY <2>2, <2>3
<1>13. NodesFound(list, b, start, D, limit) BY <1>2, <1>6, <1>8, <1>11, <1>12 DEF NodesFound
<1> QED BY <1>1, <1>13

(* The links of a set of nodes, each with its node. *)
LinksOut(P, st) == {x \in P \X Link : x[2] \in ToSet(I[x[1]][st])}
LinksFound(list, P, st) ==
    Len(list) = Cardinality(LinksOut(P, st)) /\ ToSet(list) = UNION {ToSet(I[n][st]) : n \in P}

LEMMA LinksAreFound ==
    ASSUME I \in Graphs, NEW st \in STTypes, NEW P \in SUBSET NodePtrs, NEW list \in Seq(Link),
           NEW tag, Carried(list, tag, P, st)
    PROVE  LinksFound(list, P, st)
<1>1. PICK m \in Nat : m = Len(list) /\ DOMAIN list = 1 .. m OBVIOUS
<1>2. ASSUME NEW n \in NodePtrs, NEW l
      PROVE  (Holds(LinksOf(n, <<st>>, {}), l) <=> l \in ToSet(I[n][st])) /\ (l \in ToSet(I[n][st]) => l \in Link)
  <2>1. <<st>> \in Seq(STTypes) /\ Len(<<st>>) = 1 /\ <<st>>[1] = st OBVIOUS
  <2>2. PICK s \in Seq(Link) : s = I[n][st] BY SlotIs
  <2>3. Holds(LinksOf(n, <<st>>, {}), l) <=>
          l \in Link /\ Allowed(l, {}) /\ \E k \in 1 .. Len(<<st>>) : Holds(I[n][<<st>>[k]], l)
    BY <2>1, LinksOfElements
  <2>4. (\E k \in 1 .. Len(<<st>>) : Holds(I[n][<<st>>[k]], l)) <=> Holds(s, l) BY <2>1, <2>2
  <2>5. Holds(s, l) <=> l \in ToSet(s) BY HoldsIsElement
  <2>6. Holds(s, l) => l \in Link BY HoldsIsElement
  <2> QED BY <2>2, <2>3, <2>4, <2>5, <2>6 DEF Allowed
<1>3. \A k \in 1 .. m : tag[k] \in P /\ list[k] \in Link /\ list[k] \in ToSet(I[tag[k]][st])
  BY <1>1, <1>2 DEF Carried
<1>4. ASSUME NEW n \in P, NEW l, l \in ToSet(I[n][st])
      PROVE  \E k \in 1 .. m : tag[k] = n /\ list[k] = l
  BY <1>1, <1>2, <1>4 DEF Carried
<1>5. PICK T : T = LinksOut(P, st) OBVIOUS
<1>6. \A x : x \in T <=> \E n \in P : \E l \in Link : x = <<n, l>> /\ l \in ToSet(I[n][st])
  BY <1>5 DEF LinksOut
<1> DEFINE f == [k \in 1 .. m |-> <<tag[k], list[k]>>]
<1>7. \A k \in 1 .. m : f[k] = <<tag[k], list[k]>> /\ f[k] \in T BY <1>3, <1>6
<1>8. f \in [1 .. m -> T] BY <1>7
<1> HIDE DEF f
<1>9. ASSUME NEW x \in T PROVE \E k \in 1 .. m : f[k] = x
  <2>1. PICK n \in P : \E l \in Link : x = <<n, l>> /\ l \in ToSet(I[n][st]) BY <1>6
  <2>2. PICK l \in Link : x = <<n, l>> /\ l \in ToSet(I[n][st]) BY <2>1
  <2>3. PICK k \in 1 .. m : tag[k] = n /\ list[k] = l BY <1>4, <2>2
  <2> QED BY <1>7, <2>2, <2>3
<1>10. \A k, j \in 1 .. m : f[k] = f[j] => k = j
  <2> SUFFICES ASSUME NEW k \in 1 .. m, NEW j \in 1 .. m, f[k] = f[j] PROVE k = j OBVIOUS
  <2>1. tag[k] = tag[j] /\ list[k] = list[j] BY <1>7
  <2> QED BY <1>1, <2>1 DEF Carried
<1>11. Cardinality(T) = m
  <2>1. f \in Injection(1 .. m, T) BY <1>8, <1>10 DEF Injection, IsInjective
  <2>2. f \in Surjection(1 .. m, T) BY <1>8, <1>9 DEF Surjection
  <2>3. ExistsBijection(1 .. m, T) BY <2>1, <2>2 DEF ExistsBijection, Bijection
  <2>4. IsFiniteSet(1 .. m) /\ Cardinality(1 .. m) = m BY FS_Interval
  <2> QED BY <2>3, <2>4, FS_Bijection
<1>12. ToSet(list) = UNION {ToSet(I[n][st]) : n \in P}
  <2>1. \A l : l \in ToSet(list) <=> \E k \in 1 .. m : list[k] = l BY <1>1 DEF ToSet
  <2>2. ASSUME NEW l \in ToSet(list) PROVE \E n \in P : l \in ToSet(I[n][st])
    <3>1. PICK k \in 1 .. m : list[k] = l BY <2>1
    <3> QED BY <1>3, <3>1
  <2>3. ASSUME NEW n \in P, NEW l \in ToSet(I[n][st]) PROVE l \in ToSet(list) BY <1>4, <2>1
  <2> QED BY <2>2, <2>3
<1> QED BY <1>1, <1>5, <1>11, <1>12 DEF LinksFound

(* The searches LayersExact is about, and what it says of an answer. *)
Layering ==
    /\ query.kind \in {"nodes", "links"} /\ query.loaded
    /\ query.kind = "nodes" => query.limit # 0
Layered(list, b, start, st, D) ==
    /\ query.kind = "nodes" => NodesFound(list, b, start, D, query.limit)
    /\ query.kind = "links" => LinksFound(list, b[D - 1], st)
LayersInv ==
    (job = "done" /\ Layering) =>
        \E b : /\ Balls(b, query.starts[1], query.sttypes[1], query.depth)
               /\ Layered(answer, b, query.starts[1], query.sttypes[1], query.depth)

LEMMA ConeQuery ==
    ASSUME query \in Queries, query.kind \in {"nodes", "links"}
    PROVE  query.starts[1] \in NodePtrs /\ query.sttypes[1] \in STTypes
<1>1. /\ query.starts \in Seq(NodePtrs) /\ query.sttypes \in Seq(STTypes)
      /\ query.starts # <<>> /\ query.sttypes # <<>>
  BY QueryIs, PathsAssumption
<1>2. PICK s \in Seq(NodePtrs), t \in Seq(STTypes) : s = query.starts /\ t = query.sttypes BY <1>1
<1>3. 1 \in 1 .. Len(s) /\ 1 \in 1 .. Len(t) BY <1>1, <1>2
<1> QED BY <1>2, <1>3

LEMMA LayersStay ==
    ASSUME I' = I, query' = query, NEW list, answer' = list, NEW b,
           Balls(b, query.starts[1], query.sttypes[1], query.depth),
           Layered(list, b, query.starts[1], query.sttypes[1], query.depth)
    PROVE  (\E c : /\ Balls(c, query.starts[1], query.sttypes[1], query.depth)
                   /\ Layered(answer, c, query.starts[1], query.sttypes[1], query.depth))'
<1>1. \A n, sts, arrows : LinksOf(n, sts, arrows)' = LinksOf(n, sts, arrows) BY LinksStay
<1>2. \A n, sts, arrows : Hops(n, sts, arrows)' = Hops(n, sts, arrows) BY <1>1 DEF Hops
<1>3. \A S, st : Onto(S, st)' = Onto(S, st) BY <1>2 DEF Onto
<1>4. PICK n, st, D : n = query.starts[1] /\ st = query.sttypes[1] /\ D = query.depth OBVIOUS
<1>5. Balls(b, n, st, D)' BY <1>3, <1>4 DEF Balls
<1>6. \A P : LinksFound(list, P, st) => LinksFound(list, P, st)' BY DEF LinksFound, LinksOut
<1>7. Layered(list, b, n, st, D)' BY <1>4, <1>6 DEF Layered, NodesFound
<1>8. /\ Balls(b, query.starts[1], query.sttypes[1], query.depth)'
      /\ Layered(answer, b, query.starts[1], query.sttypes[1], query.depth)'
  BY <1>4, <1>5, <1>7
<1> QED BY <1>8

LEMMA ConeIsLayered ==
    ASSUME I \in Graphs, query \in Queries, Layering
    PROVE  \E b : /\ Balls(b, query.starts[1], query.sttypes[1], query.depth)
                  /\ Layered(Cone(query.kind, query.starts[1], query.sttypes[1], query.depth, query.limit),
                             b, query.starts[1], query.sttypes[1], query.depth)
<1>1. PICK kind \in {"nodes", "links"}, start \in NodePtrs, st \in STTypes, D \in Nat \ {0}, limit \in Nat :
          /\ kind = query.kind /\ start = query.starts[1] /\ st = query.sttypes[1]
          /\ D = query.depth /\ limit = query.limit
  BY ConeQuery, QueryIs DEF Layering
<1>2. D \in Nat /\ query.loaded /\ (kind = "nodes" => limit # 0) BY <1>1 DEF Layering
<1>3. PICK b : Balls(b, start, st, D) BY <1>2, BallsExist
<1>4. PICK acc \in Cones(kind) : /\ Cone(kind, start, st, D, limit) = acc.out
                                 /\ LayerInv(kind, acc, b, D, start, st, limit)
  BY <1>2, <1>3, ConeRun
<1>5. CASE kind = "nodes"
  <2>1. NodesLayer(acc, b, D, start, limit) BY <1>4, <1>5 DEF LayerInv
  <2>2. NodesFound(acc.out, b, start, D, limit) BY <1>2, <1>3, <1>5, <2>1, NodesAreFound
  <2> QED BY <1>1, <1>3, <1>4, <1>5, <2>2 DEF Layered
<1>6. CASE kind = "links"
  <2>1. PICK tag : Carried(acc.out, tag, Inner(b, D), st) BY <1>4, <1>6 DEF LayerInv, LinksLayer
  <2>2. Inner(b, D) = b[D - 1] BY DEF Inner
  <2>3. PICK P \in SUBSET NodePtrs : P = b[D - 1]
    <3>1. D - 1 \in 0 .. D BY <1>2
    <3> QED BY <1>3, <3>1 DEF Balls
  <2>4. PICK list \in Seq(Link) : list = acc.out BY <1>6 DEF Cones, Item
  <2>5. LinksFound(list, P, st) BY <2>1, <2>2, <2>3, <2>4, LinksAreFound
  <2> QED BY <1>1, <1>3, <1>4, <1>6, <2>3, <2>4, <2>5 DEF Layered
<1> QED BY <1>5, <1>6

LEMMA StepKeepsLayers ==
    ASSUME SearchInv, LayersInv, [PathsNext]_pathVars
    PROVE  LayersInv'
<1>1. UNCHANGED <<I, query>>
  BY DEF PathsNext, pathVars, GetFwdConeAsNodes, GetFwdConeAsLinks, enumeratePaths, StopAtDepth, Expand,
         EmitLeaf, ReturnCone, PrimeLeft, PrimeRight, ReturnSolutions, ReturnLoops, ExpandLeft,
         ExpandRight, GiveUp
<1>2. Layering' <=> Layering BY <1>1 DEF Layering
<1>3. CASE UNCHANGED pathVars
  <2>1. job' = job /\ answer' = answer BY <1>3 DEF pathVars
  <2> SUFFICES ASSUME job = "done", Layering
               PROVE  (\E b : /\ Balls(b, query.starts[1], query.sttypes[1], query.depth)
                              /\ Layered(answer, b, query.starts[1], query.sttypes[1], query.depth))'
    BY <1>2, <2>1 DEF LayersInv
  <2>2. PICK b : /\ Balls(b, query.starts[1], query.sttypes[1], query.depth)
                 /\ Layered(answer, b, query.starts[1], query.sttypes[1], query.depth)
    BY DEF LayersInv
  <2>3. PICK list : list = answer OBVIOUS
  <2> QED BY <1>1, <2>1, <2>2, <2>3, LayersStay
<1>4. CASE GetFwdConeAsNodes \/ GetFwdConeAsLinks
  <2>1. answer' = Cone(query.kind, query.starts[1], query.sttypes[1], query.depth, query.limit)
    BY <1>4 DEF GetFwdConeAsNodes, GetFwdConeAsLinks, Answer
  <2> SUFFICES ASSUME Layering
               PROVE  (\E b : /\ Balls(b, query.starts[1], query.sttypes[1], query.depth)
                              /\ Layered(answer, b, query.starts[1], query.sttypes[1], query.depth))'
    BY <1>2 DEF LayersInv
  <2>2. PICK list : list = Cone(query.kind, query.starts[1], query.sttypes[1], query.depth, query.limit)
    OBVIOUS
  <2>3. PICK b : /\ Balls(b, query.starts[1], query.sttypes[1], query.depth)
                 /\ Layered(list, b, query.starts[1], query.sttypes[1], query.depth)
    BY <2>2, ConeIsLayered DEF SearchInv
  <2> QED BY <1>1, <2>1, <2>2, <2>3, LayersStay
<1>5. CASE enumeratePaths \/ StopAtDepth \/ Expand \/ EmitLeaf
  <2>1. job' = job /\ job # "done"
    BY <1>5 DEF enumeratePaths, StopAtDepth, Expand, EmitLeaf, Enumerating
  <2> QED BY <2>1 DEF LayersInv
<1>6. CASE ReturnCone
  <2>1. query.kind \in {"cone", "paths"} BY <1>6 DEF ReturnCone, Enumerating
  <2> QED BY <1>2, <2>1 DEF LayersInv, Layering
<1>7. CASE PrimeLeft \/ PrimeRight \/ ReturnSolutions \/ ReturnLoops \/ ExpandLeft \/ ExpandRight \/ GiveUp
  <2>1. query.kind = "paths"
    BY <1>7 DEF SearchInv, PrimeLeft, PrimeRight, ReturnSolutions, ReturnLoops, ExpandLeft, ExpandRight,
                GiveUp, InRange
  <2> QED BY <1>2, <2>1 DEF LayersInv, Layering
<1> QED BY <1>3, <1>4, <1>5, <1>6, <1>7 DEF PathsNext

LEMMA LayersInvariant == PathsSpec => [](SearchInv /\ LayersInv)
<1>1. PathsInit => LayersInv BY DEF PathsInit, LayersInv
<1>2. SearchInv /\ LayersInv /\ [PathsNext]_pathVars => LayersInv' BY StepKeepsLayers
<1> QED BY <1>1, <1>2, SearchInvariant, PTL DEF PathsSpec

(* As LayersExact has them. *)
NodesExact(list, start, st, D, limit) ==
    LET all == Within(start, st, D)
        got == ToSet(list)
    IN  /\ IsInjective(list) /\ got \subseteq all
        /\ Len(list) = (IF Cardinality(all) < limit THEN Cardinality(all) ELSE limit)
        /\ \A d \in 1 .. D :
              LET near == Within(start, st, d)
              IN  near \subseteq got \/ got \subseteq near
LinksExact(list, start, st, inner) ==
    /\ Len(list) = Cardinality({x \in ({start} \cup inner) \X Link : x[2] \in ToSet(I[x[1]][st])})
    /\ ToSet(list) = UNION {ToSet(I[n][st]) : n \in {start} \cup inner}

(* The functions of the cones (GetFwdConeAsNodes, GetFwdConeAsLinks,       *)
(* GetEntireConePathsAsLinks, GetFwdPathsAsLinks) return what their names  *)
(* promise: the nodes of the cone, each once and the nearer ones first, up *)
(* to the limit; the links of its inner nodes; every maximal path once.    *)
THEOREM ConesAreExact == PathsSpec => []ConeExact
<1>1. ASSUME SearchInv, LayersInv, job = "done", Layering
      PROVE  IF query.kind = "nodes"
             THEN NodesExact(answer, query.starts[1], query.sttypes[1], query.depth, query.limit)
             ELSE LinksExact(answer, query.starts[1], query.sttypes[1],
                             Within(query.starts[1], query.sttypes[1], query.depth - 1))
  <2>1. PICK b : /\ Balls(b, query.starts[1], query.sttypes[1], query.depth)
                 /\ Layered(answer, b, query.starts[1], query.sttypes[1], query.depth)
    BY <1>1 DEF LayersInv
  <2>2. PICK start \in NodePtrs, st \in STTypes, D \in Nat \ {0}, limit \in Nat,
            list \in {answer} :
            /\ start = query.starts[1] /\ st = query.sttypes[1]
            /\ D = query.depth /\ limit = query.limit
    BY <1>1, ConeQuery, QueryIs DEF Layering, SearchInv
  <2>3. I \in Graphs /\ Balls(b, start, st, D) BY <1>1, <2>1, <2>2 DEF SearchInv
  <2>4. \A d \in 0 .. D : Within(start, st, d) = b[d] \ {start} BY <2>3, WithinIs
  <2>5. D \in 0 .. D /\ D - 1 \in 0 .. D /\ \A d \in 1 .. D : d \in 0 .. D OBVIOUS
  <2>6. CASE query.kind = "nodes"
    <3>1. NodesFound(list, b, start, D, limit) BY <2>1, <2>2, <2>6 DEF Layered
    <3>2. DOMAIN list = 1 .. Len(list) BY <3>1 DEF NodesFound
    <3>3. IsInjective(list) BY <3>1, <3>2 DEF NodesFound, Once, IsInjective
    <3>4. NodesExact(list, start, st, D, limit) BY <2>4, <2>5, <3>1, <3>3 DEF NodesFound, NodesExact
    <3> QED BY <2>2, <2>6, <3>4
  <2>7. CASE query.kind # "nodes"
    <3>1. query.kind = "links" BY <1>1, <2>7 DEF Layering
    <3>2. LinksFound(list, b[D - 1], st) BY <2>1, <2>2, <3>1 DEF Layered
    <3>3. PICK inner, P : inner = Within(start, st, D - 1) /\ P = {start} \cup inner OBVIOUS
    <3>4. start \in b[D - 1] BY <2>3, <2>5, BallsGrow
    <3>5. P = b[D - 1] BY <2>4, <2>5, <3>3, <3>4
    <3>6. LinksFound(list, P, st) BY <3>2, <3>5
    <3>7. LinksExact(list, start, st, inner) BY <3>3, <3>6 DEF LinksFound, LinksOut, LinksExact
    <3> QED BY <2>2, <2>7, <3>3, <3>7
  <2> QED BY <2>6, <2>7
<1>2. SearchInv /\ LayersInv => LayersExact
  BY <1>1, Zenon DEF LayersExact, Layering, NodesExact, LinksExact
<1>3. PathsSpec => []LayersExact BY <1>2, LayersInvariant, PTL
<1>4. EnumerationExact /\ LayersExact => ConeExact BY DEF ConeExact
<1> QED BY <1>3, <1>4, EveryTrailOnce, PTL

-----------------------------------------------------------------------------
(* Where the waves meet first.  Below the links are the pairs of nodes     *)
(* they join, and E is a set of such pairs.                                *)

(* The k nodes a walk visits after its start n. *)
Course(E, n, d, k) ==
    /\ d \in [1 .. k -> NodePtrs] /\ <<n, d[1]>> \in E
    /\ \A i \in 1 .. (k - 1) : <<d[i], d[i + 1]>> \in E
Distinct(d, k) == \A i, j \in 1 .. k : d[i] = d[j] => i = j

(* The nodes of a left path of l links and, backwards, of a right path of  *)
(* r links that ends where the left one does.                              *)
Spliced(a, b, l, r) == [i \in 1 .. (l + r - 1) |-> IF i <= l THEN a[i] ELSE b[l + r - i]]

(* A meeting of the two. *)
Halves(L, R, n, m, l, r, h, a, b) ==
    /\ Course(L, n, a, l) /\ Distinct(a, l)
    /\ Course(R, m, b, r) /\ Distinct(b, r)
    /\ a[l] = b[r] /\ h = Spliced(a, b, l, r)

(* The links of a side as pairs of nodes. *)
Edges(sts, arrows) == {x \in NodePtrs \X NodePtrs : x[2] \in Hops(x[1], sts, arrows)}

LEMMA EdgesAre ==
    ASSUME I \in Graphs, NEW sts \in Seq(STTypes), NEW arrows, NEW n \in NodePtrs, NEW m
    PROVE  /\ <<n, m>> \in Edges(sts, arrows) <=> \E l : Holds(LinksOf(n, sts, arrows), l) /\ m = l.dst
           /\ m \in Hops(n, sts, arrows) <=> <<n, m>> \in Edges(sts, arrows)
<1>1. PICK s \in Seq(Link) : s = LinksOf(n, sts, arrows) BY LinksOfElements
<1>2. Hops(n, sts, arrows) = {l.dst : l \in ToSet(s)} BY <1>1 DEF Hops
<1>3. \A l : Holds(s, l) <=> l \in ToSet(s) BY HoldsIsElement
<1>4. \A l \in ToSet(s) : l \in Link /\ l.dst \in NodePtrs
  <2>1. \A l \in Link : l.dst \in NodePtrs BY DEF Link
  <2> QED BY <1>3, <2>1, HoldsIsElement
<1>5. m \in Hops(n, sts, arrows) <=> \E l : Holds(s, l) /\ m = l.dst BY <1>2, <1>3
<1>6. m \in Hops(n, sts, arrows) => m \in NodePtrs BY <1>2, <1>4
<1>7. <<n, m>> \in Edges(sts, arrows) <=> m \in NodePtrs /\ m \in Hops(n, sts, arrows) BY DEF Edges
<1> QED BY <1>1, <1>5, <1>6, <1>7

-----------------------------------------------------------------------------
(* The paths of a wave visit the nodes of every walk of their length       *)
(* without a repetition, and of no other.                                  *)
Sweeps(cone, E, n, k) ==
    /\ cone \in Seq(Seq(Link)) /\ OfLength(cone, k)
    /\ \A p \in 1 .. Len(cone) : Course(E, n, Dsts(cone[p]), k) /\ Distinct(Dsts(cone[p]), k)
    /\ \A d : Course(E, n, d, k) /\ Distinct(d, k) => \E p \in 1 .. Len(cone) : Dsts(cone[p]) = d

LEMMA DstsAre ==
    ASSUME NEW w \in Seq(Link)
    PROVE  /\ Dsts(w) \in [1 .. Len(w) -> NodePtrs]
           /\ \A i \in 1 .. Len(w) : Dsts(w)[i] = w[i].dst
           /\ \A x : x \in Nodes(w) <=> \E i \in 1 .. Len(w) : x = Dsts(w)[i]
           /\ NoRepeat(w) <=> Distinct(Dsts(w), Len(w))
<1>1. DOMAIN w = 1 .. Len(w) /\ \A i \in 1 .. Len(w) : w[i] \in Link OBVIOUS
<1>2. \A i \in 1 .. Len(w) : Dsts(w)[i] = w[i].dst /\ w[i].dst \in NodePtrs BY <1>1 DEF Dsts, Link
<1>3. Dsts(w) \in [1 .. Len(w) -> NodePtrs] BY <1>1, <1>2 DEF Dsts
<1>4. \A x : x \in Nodes(w) <=> \E i \in 1 .. Len(w) : x = w[i].dst BY <1>1 DEF Nodes
<1>5. NoRepeat(w) <=> Distinct(Dsts(w), Len(w)) BY <1>2 DEF NoRepeat, Distinct
<1> QED BY <1>2, <1>3, <1>4, <1>5

(* f visits x after the k nodes of d. *)
Onward(f, d, k, x) ==
    f \in [1 .. (k + 1) -> NodePtrs] /\ f[k + 1] = x /\ \A i \in 1 .. k : f[i] = d[i]

(* A walk and the node it goes on to. *)
LEMMA DstsGoOn ==
    ASSUME NEW w \in Seq(Link), NEW k \in Nat \ {0}, Len(w) = k, NEW l \in Link
    PROVE  /\ Tip(w) = Dsts(w)[k] /\ Append(w, l) \in Seq(Link) /\ Len(Append(w, l)) = k + 1
           /\ Onward(Dsts(Append(w, l)), Dsts(w), k, l.dst)
<1>0. Append(w, l) \in Seq(Link) OBVIOUS
<1>1. PICK v \in Seq(Link) : v = Append(w, l) BY <1>0
<1>2. Len(v) = k + 1 /\ v[k + 1] = l /\ \A i \in 1 .. k : v[i] = w[i] BY <1>1
<1>3. Tip(w) = Dsts(w)[k]
  <2>1. w # <<>> /\ k \in 1 .. k OBVIOUS
  <2> QED BY <2>1, TipIsNode, DstsAre
<1>4. Onward(Dsts(v), Dsts(w), k, l.dst)
  <2>1. k + 1 \in 1 .. (k + 1) /\ \A i \in 1 .. k : i \in 1 .. (k + 1) OBVIOUS
  <2>2. Dsts(v) \in [1 .. (k + 1) -> NodePtrs] /\ \A i \in 1 .. (k + 1) : Dsts(v)[i] = v[i].dst
    BY <1>2, DstsAre
  <2>3. \A i \in 1 .. k : Dsts(w)[i] = w[i].dst BY DstsAre
  <2> QED BY <1>2, <2>1, <2>2, <2>3 DEF Onward
<1> QED BY <1>1, <1>2, <1>3, <1>4

LEMMA OnwardIsOne ==
    ASSUME NEW k \in Nat, NEW d, NEW x, NEW f, Onward(f, d, k, x), NEW g, Onward(g, d, k, x)
    PROVE  f = g
<1>1. \A i \in 1 .. (k + 1) : i \in 1 .. k \/ i = k + 1 OBVIOUS
<1>2. \A i \in 1 .. (k + 1) : f[i] = g[i] BY <1>1 DEF Onward
<1> QED BY <1>2 DEF Onward

LEMMA CourseGoesOn ==
    ASSUME NEW E, NEW n, NEW k \in Nat \ {0}, NEW d, d \in [1 .. k -> NodePtrs], NEW x \in NodePtrs,
           NEW f, Onward(f, d, k, x)
    PROVE  (Course(E, n, f, k + 1) /\ Distinct(f, k + 1)) <=>
               /\ Course(E, n, d, k) /\ Distinct(d, k)
               /\ <<d[k], x>> \in E /\ \A i \in 1 .. k : d[i] # x
<1>1. /\ f[k + 1] = x /\ \A i \in 1 .. k : f[i] = d[i]
      /\ f \in [1 .. (k + 1) -> NodePtrs]
  BY DEF Onward
<1>2. 1 \in 1 .. k /\ k \in 1 .. k /\ (k + 1) - 1 = k OBVIOUS
<1>3. \A i \in 1 .. k : i = k \/ (i \in 1 .. (k - 1) /\ i + 1 \in 1 .. k) OBVIOUS
<1>4. \A i \in 1 .. (k - 1) : i \in 1 .. k /\ i + 1 \in 1 .. k OBVIOUS
<1>5. Course(E, n, f, k + 1) <=> Course(E, n, d, k) /\ <<d[k], x>> \in E
  <2>1. ASSUME Course(E, n, f, k + 1) PROVE Course(E, n, d, k) /\ <<d[k], x>> \in E
    <3>1. <<n, d[1]>> \in E BY <1>1, <1>2, <2>1 DEF Course
    <3>2. \A i \in 1 .. k : <<f[i], f[i + 1]>> \in E BY <1>2, <2>1 DEF Course
    <3>3. <<d[k], x>> \in E BY <1>1, <1>2, <3>2
    <3>4. \A i \in 1 .. (k - 1) : <<d[i], d[i + 1]>> \in E BY <1>1, <1>4, <3>2
    <3> QED BY <3>1, <3>3, <3>4 DEF Course
  <2>2. ASSUME Course(E, n, d, k), <<d[k], x>> \in E PROVE Course(E, n, f, k + 1)
    <3>1. <<n, f[1]>> \in E BY <1>1, <1>2, <2>2 DEF Course
    <3>2. ASSUME NEW i \in 1 .. k PROVE <<f[i], f[i + 1]>> \in E
      <4>1. CASE i = k BY <1>1, <1>2, <2>2, <4>1
      <4>2. CASE i # k
        <5>1. i \in 1 .. (k - 1) /\ i + 1 \in 1 .. k BY <1>3, <4>2
        <5>2. <<d[i], d[i + 1]>> \in E BY <2>2, <5>1 DEF Course
        <5> QED BY <1>1, <5>1, <5>2
      <4> QED BY <4>1, <4>2
    <3> QED BY <1>1, <1>2, <3>1, <3>2 DEF Course
  <2> QED BY <2>1, <2>2
<1>6. Distinct(f, k + 1) <=> Distinct(d, k) /\ \A i \in 1 .. k : d[i] # x
  <2>1. ASSUME Distinct(f, k + 1) PROVE Distinct(d, k) /\ \A i \in 1 .. k : d[i] # x
    <3>1. \A i \in 1 .. k : i \in 1 .. (k + 1) /\ i # k + 1 OBVIOUS
    <3>2. k + 1 \in 1 .. (k + 1) OBVIOUS
    <3> QED BY <1>1, <2>1, <3>1, <3>2 DEF Distinct
  <2>2. ASSUME Distinct(d, k), \A i \in 1 .. k : d[i] # x PROVE Distinct(f, k + 1)
    <3>1. \A i \in 1 .. (k + 1) : i \in 1 .. k \/ i = k + 1 OBVIOUS
    <3> QED BY <1>1, <2>2, <3>1 DEF Distinct
  <2> QED BY <2>1, <2>2
<1> QED BY <1>5, <1>6

(* Nothing is cut off when a node has no more links than the depth. *)
LEMMA AllConstrained ==
    ASSUME I \in Graphs, query \in Queries, query.stored, NEW n \in NodePtrs,
           NEW sts \in Seq(STTypes), NEW arrows, Len(LinksOf(n, sts, arrows)) <= query.depth
    PROVE  GetConstrainedFwdLinks(n, sts, arrows) = LinksOf(n, sts, arrows)
<1>1. PICK s \in Seq(Link) : s = LinksOf(n, sts, arrows) BY LinksOfElements
<1>2. query.depth \in Nat /\ Len(s) \in Nat /\ Len(s) <= query.depth BY <1>1, QueryIs
<1>3. (IF Len(s) < query.depth THEN Len(s) ELSE query.depth) = Len(s) BY <1>2
<1>4. SubSeq(s, 1, Len(s)) = s OBVIOUS
<1> QED BY <1>1, <1>3, <1>4 DEF GetConstrainedFwdLinks

(* Of the links to a node there is a first. *)
FirstTo(s, i, x) == s[i].dst = x /\ \A j \in 1 .. (i - 1) : s[j].dst # x
LEMMA FirstLink ==
    ASSUME NEW s \in Seq(Link), NEW x, NEW l, Holds(s, l), l.dst = x
    PROVE  \E i \in 1 .. Len(s) : FirstTo(s, i, x)
<1> DEFINE S == {i \in 1 .. Len(s) : s[i].dst = x}
<1>1. S \in SUBSET Nat /\ S # {} BY DEF Holds
<1>2. PICK i \in S : \A j \in S : i <= j
  <2> HIDE DEF S
  <2> QED BY <1>1, LeastNatural
<1>3. ASSUME NEW j \in 1 .. (i - 1), s[j].dst = x PROVE FALSE
  <2>1. j \in 1 .. Len(s) /\ ~(i <= j) OBVIOUS
  <2> QED BY <1>2, <1>3, <2>1
<1> QED BY <1>2, <1>3 DEF FirstTo

(* A step of a wave goes on from every walk to every node it does not visit. *)
LEMMA WaveSweeps ==
    ASSUME I \in Graphs, query \in Queries, query.stored,
           NEW sts \in Seq(STTypes), NEW arrows,
           \A x \in NodePtrs : Len(LinksOf(x, sts, arrows)) <= query.depth,
           NEW n \in NodePtrs, NEW k \in Nat \ {0}, NEW cone,
           Sweeps(cone, Edges(sts, arrows), n, k)
    PROVE  Sweeps(IncConstraintConeLinks(cone, sts, arrows), Edges(sts, arrows), n, k + 1)
<1>1. PICK E : E = Edges(sts, arrows) OBVIOUS
<1>2. PICK next : next = IncConstraintConeLinks(cone, sts, arrows) OBVIOUS
<1>3. cone \in Seq(Seq(Link)) /\ \A p \in 1 .. Len(cone) : Len(cone[p]) = k /\ cone[p] \in Seq(Link)
  BY DEF Sweeps, OfLength
<1>4. \A p \in 1 .. Len(cone) : cone[p] # <<>>
  <2>1. Len(<<>>) = 0 OBVIOUS
  <2> QED BY <1>3, <2>1
<1>5. next \in Seq(Seq(Link)) /\ \A w : Holds(next, w) <=> Shot(cone, sts, arrows, w)
  BY <1>2, <1>3, <1>4, WaveElements
<1>6. OfLength(next, k + 1) BY <1>2, <1>3, WaveLengths DEF Sweeps
<1>7. ASSUME NEW p \in 1 .. Len(cone), NEW l \in Link
      PROVE  LET b == cone[p]
                 d == Dsts(b)
                 f == Dsts(Append(b, l))
             IN  /\ Tip(b) = d[k] /\ d[k] \in NodePtrs
                 /\ d \in [1 .. k -> NodePtrs]
                 /\ Onward(f, d, k, l.dst)
                 /\ l.dst \in NodePtrs
                 /\ l.dst \notin Nodes(b) <=> \A i \in 1 .. k : d[i] # l.dst
                 /\ <<d[k], l.dst>> \in E <=> \E m : Holds(LinksOf(d[k], sts, arrows), m) /\ l.dst = m.dst
                 /\ Course(E, n, d, k) /\ Distinct(d, k)
  <2>1. PICK b \in Seq(Link) : b = cone[p] /\ Len(b) = k BY <1>3
  <2>2. PICK d : d = Dsts(b) OBVIOUS
  <2>3. Course(E, n, d, k) /\ Distinct(d, k) BY <1>1, <2>1, <2>2 DEF Sweeps
  <2>4. d \in [1 .. k -> NodePtrs] /\ \A x : x \in Nodes(b) <=> \E i \in 1 .. k : x = d[i]
    BY <2>1, <2>2, DstsAre
  <2>5. k \in 1 .. k /\ d[k] \in NodePtrs BY <2>4
  <2>6. l.dst \in NodePtrs BY DEF Link
  <2>7. Tip(b) = d[k] /\ Onward(Dsts(Append(b, l)), d, k, l.dst)
    BY <2>1, <2>2, DstsGoOn
  <2>8. <<d[k], l.dst>> \in E <=> \E m : Holds(LinksOf(d[k], sts, arrows), m) /\ l.dst = m.dst
    BY <1>1, <2>5, EdgesAre
  <2> QED BY <2>1, <2>2, <2>3, <2>4, <2>5, <2>6, <2>7, <2>8
<1>8. ASSUME NEW q \in 1 .. Len(next)
      PROVE  Course(E, n, Dsts(next[q]), k + 1) /\ Distinct(Dsts(next[q]), k + 1)
  <2>1. Shot(cone, sts, arrows, next[q]) BY <1>5 DEF Holds
  <2>2. PICK p \in 1 .. Len(cone) :
            \E i \in 1 .. Len(GetConstrainedFwdLinks(Tip(cone[p]), sts, arrows)) :
                /\ Goes(GetConstrainedFwdLinks(Tip(cone[p]), sts, arrows), cone[p], i)
                /\ next[q] = Append(cone[p], GetConstrainedFwdLinks(Tip(cone[p]), sts, arrows)[i])
    BY <2>1 DEF Shot
  <2>3. PICK b \in Seq(Link) : b = cone[p] /\ Len(b) = k /\ b # <<>> BY <1>3, <1>4
  <2>4. Tip(b) \in NodePtrs BY <2>3, TipIsNode
  <2>5. PICK s \in Seq(Link) : s = LinksOf(Tip(b), sts, arrows) BY <2>4, LinksOfElements
  <2>6. GetConstrainedFwdLinks(Tip(b), sts, arrows) = s BY <2>4, <2>5, AllConstrained
  <2>7. PICK i \in 1 .. Len(s) : Goes(s, b, i) /\ next[q] = Append(b, s[i]) BY <2>2, <2>3, <2>6
  <2>8. PICK l \in Link : l = s[i] OBVIOUS
  <2>9. PICK d : d = Dsts(b) OBVIOUS
  <2>10. PICK f : f = Dsts(next[q]) OBVIOUS
  <2>11. /\ Tip(b) = d[k] /\ d \in [1 .. k -> NodePtrs]
         /\ Onward(f, d, k, l.dst)
         /\ l.dst \in NodePtrs
         /\ l.dst \notin Nodes(b) <=> \A j \in 1 .. k : d[j] # l.dst
         /\ <<d[k], l.dst>> \in E <=> \E m : Holds(LinksOf(d[k], sts, arrows), m) /\ l.dst = m.dst
         /\ Course(E, n, d, k) /\ Distinct(d, k)
    BY <1>7, <2>3, <2>7, <2>8, <2>9, <2>10
  <2>12. l.dst \notin Nodes(b) BY <2>7, <2>8 DEF Goes
  <2>13. Holds(LinksOf(d[k], sts, arrows), l) BY <2>5, <2>8, <2>11 DEF Holds
  <2>14. <<d[k], l.dst>> \in E BY <2>11, <2>13
  <2>15. PICK x \in NodePtrs : x = l.dst BY <2>11
  <2>16. /\ d \in [1 .. k -> NodePtrs] /\ Onward(f, d, k, x) /\ Course(E, n, d, k) /\ Distinct(d, k)
         /\ <<d[k], x>> \in E /\ \A j \in 1 .. k : d[j] # x
    BY <2>11, <2>12, <2>14, <2>15
  <2>17. Course(E, n, f, k + 1) /\ Distinct(f, k + 1) BY <2>16, CourseGoesOn
  <2> QED BY <2>10, <2>17
<1>9. ASSUME NEW f, Course(E, n, f, k + 1), Distinct(f, k + 1)
      PROVE  \E q \in 1 .. Len(next) : Dsts(next[q]) = f
  <2>1. f \in [1 .. (k + 1) -> NodePtrs] BY <1>9 DEF Course
  <2>2. PICK d : d = [i \in 1 .. k |-> f[i]] OBVIOUS
  <2>3. \A i \in 1 .. k : i \in 1 .. (k + 1) /\ i <= k OBVIOUS
  <2>4. d \in [1 .. k -> NodePtrs] BY <2>1, <2>2, <2>3
  <2>5. PICK x \in NodePtrs : x = f[k + 1] BY <2>1
  <2>6. Onward(f, d, k, x) BY <2>1, <2>2, <2>5 DEF Onward
  <2>7. /\ Course(E, n, d, k) /\ Distinct(d, k)
        /\ <<d[k], x>> \in E /\ \A i \in 1 .. k : d[i] # x
    BY <1>9, <2>4, <2>6, CourseGoesOn
  <2>8. PICK p \in 1 .. Len(cone) : Dsts(cone[p]) = d BY <1>1, <2>7 DEF Sweeps
  <2>9. PICK b \in Seq(Link) : b = cone[p] /\ Len(b) = k /\ b # <<>> BY <1>3, <1>4
  <2>10. Tip(b) \in NodePtrs BY <2>9, TipIsNode
  <2>11. PICK s \in Seq(Link) : s = LinksOf(Tip(b), sts, arrows) BY <2>10, LinksOfElements
  <2>12. GetConstrainedFwdLinks(Tip(b), sts, arrows) = s BY <2>10, <2>11, AllConstrained
  <2>13. k \in 1 .. k /\ d[k] \in NodePtrs BY <2>4
  <2>14. Tip(b) = d[k]
    <3>1. b # <<>> /\ Tip(b) = b[k].dst BY <2>9, TipIsNode
    <3> QED BY <2>8, <2>9, <2>13, <3>1, DstsAre
  <2>15. PICK m : Holds(s, m) /\ m.dst = x BY <1>1, <2>7, <2>11, <2>13, <2>14, EdgesAre
  <2>16. PICK i \in 1 .. Len(s) : FirstTo(s, i, x) BY <2>15, FirstLink
  <2>17. PICK l \in Link : l = s[i] /\ l.dst = x BY <2>16 DEF FirstTo
  <2>18. l.dst \notin Nodes(b)
    <3>1. \A y : y \in Nodes(b) <=> \E j \in 1 .. k : y = d[j] BY <2>8, <2>9, DstsAre
    <3> QED BY <2>7, <2>17, <3>1
  <2>19. Goes(s, b, i) BY <2>16, <2>17, <2>18 DEF FirstTo, Goes
  <2>20. PICK w : w = Append(b, l) OBVIOUS
  <2>21. Shot(cone, sts, arrows, w) BY <2>9, <2>12, <2>17, <2>19, <2>20 DEF Shot
  <2>22. PICK q \in 1 .. Len(next) : next[q] = w BY <1>5, <2>21 DEF Holds
  <2>23. Onward(Dsts(w), d, k, x)
    <3>1. Onward(Dsts(Append(b, l)), Dsts(b), k, l.dst) BY <2>9, DstsGoOn
    <3> QED BY <2>8, <2>9, <2>17, <2>20, <3>1
  <2> QED BY <2>6, <2>22, <2>23, OnwardIsOne
<1> QED BY <1>1, <1>2, <1>5, <1>6, <1>8, <1>9 DEF Sweeps

-----------------------------------------------------------------------------
(* The meetings of the waves. *)

(* What is at each place of two sequences put together. *)
LEMMA JoinedAt ==
    ASSUME NEW S, NEW a \in Seq(S), NEW b \in Seq(S)
    PROVE  /\ a \o b \in Seq(S) /\ Len(a \o b) = Len(a) + Len(b)
           /\ \A i \in 1 .. Len(a) : (a \o b)[i] = a[i]
           /\ \A i \in (Len(a) + 1) .. (Len(a) + Len(b)) : (a \o b)[i] = b[i - Len(a)]
<1>1. a \o b \in Seq(S) /\ Len(a \o b) = Len(a) + Len(b) OBVIOUS
<1>2. ASSUME NEW i \in 1 .. Len(a) PROVE (a \o b)[i] = a[i] OBVIOUS
<1>3. ASSUME NEW i \in (Len(a) + 1) .. (Len(a) + Len(b)) PROVE (a \o b)[i] = b[i - Len(a)]
  OBVIOUS
<1> QED BY <1>1, <1>2, <1>3

LEMMA SpliceDsts ==
    ASSUME NEW L \in Seq(Link), NEW R \in Seq(Link), NEW l \in Nat \ {0}, NEW r \in Nat \ {0},
           Len(L) = l, Len(R) = r
    PROVE  Dsts(L \o Tail(AdjointLinkPath(R))) = Spliced(Dsts(L), Dsts(R), l, r)
<1>1. PICK A \in Seq(Link) : A = AdjointLinkPath(R) /\ Len(A) = r BY AdjointIs
<1>2. ASSUME NEW j \in 1 .. r PROVE A[j].dst = R[r + 1 - j].dst
  <2>1. A = [i \in 1 .. r |-> [arr |-> INVERSE_ARROWS[IF i = 1 THEN INVERSE_ARROWS[FirstArrow]
                                                      ELSE R[r + 2 - i].arr],
                               dst |-> R[r + 1 - i].dst]]
    BY <1>1 DEF AdjointLinkPath
  <2> QED BY <2>1
<1>3. PICK T \in Seq(Link) : T = Tail(A) /\ Len(T) = r - 1 /\ \A j \in 1 .. (r - 1) : T[j] = A[j + 1]
  <2>1. A # <<>> BY <1>1
  <2>2. Tail(A) \in Seq(Link) /\ Len(Tail(A)) = r - 1 /\ \A j \in 1 .. (r - 1) : Tail(A)[j] = A[j + 1]
    BY <1>1, <2>1
  <2> QED BY <2>2
<1>4. PICK w \in Seq(Link) : /\ w = L \o T /\ Len(w) = l + r - 1
                             /\ \A i \in 1 .. l : w[i] = L[i]
                             /\ \A i \in (l + 1) .. (l + r - 1) : w[i] = T[i - l]
  <2>1. /\ L \o T \in Seq(Link) /\ Len(L \o T) = l + r - 1
        /\ \A i \in 1 .. l : (L \o T)[i] = L[i]
        /\ \A i \in (l + 1) .. (l + r - 1) : (L \o T)[i] = T[i - l]
    <3>1. /\ L \o T \in Seq(Link) /\ Len(L \o T) = Len(L) + Len(T)
          /\ \A i \in 1 .. Len(L) : (L \o T)[i] = L[i]
          /\ \A i \in (Len(L) + 1) .. (Len(L) + Len(T)) : (L \o T)[i] = T[i - Len(L)]
      BY Zenon, JoinedAt
    <3>2. Len(L) = l /\ Len(T) = r - 1 BY <1>3
    <3>3. l + (r - 1) = l + r - 1 OBVIOUS
    <3> QED BY Zenon, <3>1, <3>2, <3>3
  <2> QED BY <2>1
<1>5. PICK k \in Nat \ {0} : k = l + r - 1 OBVIOUS
<1>6. ASSUME NEW i \in 1 .. k PROVE w[i].dst = IF i <= l THEN Dsts(L)[i] ELSE Dsts(R)[l + r - i]
  <2>1. CASE i <= l
    <3>1. i \in 1 .. l /\ w[i] = L[i] BY <1>4, <2>1
    <3>2. Dsts(L)[i] = L[i].dst BY <3>1, DstsAre
    <3> QED BY <2>1, <3>1, <3>2
  <2>2. CASE ~(i <= l)
    <3>1. PICK j \in 1 .. (r - 1) : j = i - l BY <1>5, <2>2
    <3>2. w[i] = T[j] BY <1>4, <1>5, <2>2, <3>1
    <3>3. j + 1 \in 1 .. r /\ l + r - i \in 1 .. r /\ r + 1 - (j + 1) = l + r - i BY <1>5, <2>2, <3>1
    <3>4. w[i].dst = R[l + r - i].dst BY <1>2, <1>3, <3>2, <3>3
    <3>5. Dsts(R)[l + r - i] = R[l + r - i].dst BY <3>3, DstsAre
    <3> QED BY <2>2, <3>4, <3>5
  <2> QED BY <2>1, <2>2
<1>7. DOMAIN w = 1 .. k BY <1>4, <1>5
<1>8. Dsts(w) = [i \in 1 .. k |-> IF i <= l THEN Dsts(L)[i] ELSE Dsts(R)[l + r - i]]
  BY <1>6, <1>7 DEF Dsts
<1> QED BY <1>1, <1>3, <1>4, <1>5, <1>8 DEF Spliced

(* The meetings over k nodes: the left wave has taken as many steps as the *)
(* right one, or one more.                                                 *)
Meets(d, k) ==
    \E l, r \in Nat \ {0} :
        /\ l + r = k + 1 /\ l \in {r, r + 1}
        /\ \E a, b : Halves(Edges(LeftTypes, LeftArrows), Edges(RightTypes, RightArrows),
                           query.starts[1], query.ends[1], l, r, d, a, b)
Exhaustive ==
    /\ I \in Graphs /\ query \in Queries /\ query.kind = "paths" /\ query.mindepth = 0
    /\ query.loaded /\ query.stored /\ query.admit = NodePtrs
    /\ Len(query.starts) = 1 /\ Len(query.ends) = 1
    /\ \A n \in NodePtrs : /\ Len(LinksOf(n, LeftTypes, LeftArrows)) <= query.depth
                           /\ Len(LinksOf(n, RightTypes, RightArrows)) <= query.depth
WavesSweep ==
    /\ ldepth \in Nat \ {0} /\ rdepth \in Nat \ {0}
    /\ Sweeps(left, Edges(LeftTypes, LeftArrows), query.starts[1], ldepth)
    /\ Sweeps(right, Edges(RightTypes, RightArrows), query.ends[1], rdepth)

LEMMA EndsAre ==
    ASSUME Exhaustive
    PROVE  /\ query.starts[1] \in NodePtrs /\ query.ends[1] \in NodePtrs
           /\ ToSet(query.starts) = {query.starts[1]} /\ ToSet(query.ends) = {query.ends[1]}
           /\ query.starts = <<query.starts[1]>> /\ query.ends = <<query.ends[1]>>
<1>1. PICK s \in Seq(NodePtrs), e \in Seq(NodePtrs) : s = query.starts /\ e = query.ends
  BY QueryIs DEF Exhaustive
<1>2. Len(s) = 1 /\ Len(e) = 1 BY <1>1 DEF Exhaustive
<1>3. s[1] \in NodePtrs /\ e[1] \in NodePtrs /\ s = <<s[1]>> /\ e = <<e[1]>> BY <1>2
<1>4. ToSet(s) = {s[1]} /\ ToSet(e) = {e[1]}
  <2>1. DOMAIN s = 1 .. 1 /\ DOMAIN e = 1 .. 1 /\ 1 .. 1 = {1} BY <1>2
  <2> QED BY <2>1 DEF ToSet
<1> QED BY <1>1, <1>3, <1>4

LEMMA MeetingsAre ==
    ASSUME Exhaustive, WavesSweep, ldepth \in {rdepth, rdepth + 1}, NEW pair \in NodesOverlap
    PROVE  /\ Splice(pair) \in Seq(Link) /\ Meets(Dsts(Splice(pair)), ldepth + rdepth - 1)
           /\ pair \in DagPairs <=> Distinct(Dsts(Splice(pair)), ldepth + rdepth - 1)
<1>1. /\ pair[1] \in DOMAIN left /\ pair[2] \in DOMAIN right
      /\ Tip(left[pair[1]]) = Tip(right[pair[2]])
  BY DEF NodesOverlap
<1>2. /\ left \in Seq(Seq(Link)) /\ right \in Seq(Seq(Link))
      /\ \A p \in 1 .. Len(left) : Len(left[p]) = ldepth
      /\ \A p \in 1 .. Len(right) : Len(right[p]) = rdepth
  BY DEF WavesSweep, Sweeps, OfLength
<1>3. pair[1] \in 1 .. Len(left) /\ pair[2] \in 1 .. Len(right) BY <1>1, <1>2
<1>4. PICK L \in Seq(Link) : L = left[pair[1]] /\ Len(L) = ldepth BY <1>2, <1>3
<1>5. PICK R \in Seq(Link) : R = right[pair[2]] /\ Len(R) = rdepth BY <1>2, <1>3
<1>6. ldepth \in Nat \ {0} /\ rdepth \in Nat \ {0} BY DEF WavesSweep
<1>7. PICK l \in Nat \ {0}, r \in Nat \ {0} : l = ldepth /\ r = rdepth /\ l \in {r, r + 1} BY <1>6
<1>8. PICK a : a = Dsts(L) OBVIOUS
<1>9. PICK b : b = Dsts(R) OBVIOUS
<1>10. Course(Edges(LeftTypes, LeftArrows), query.starts[1], a, l) /\ Distinct(a, l)
  BY <1>3, <1>4, <1>7, <1>8 DEF WavesSweep, Sweeps
<1>11. Course(Edges(RightTypes, RightArrows), query.ends[1], b, r) /\ Distinct(b, r)
  BY <1>3, <1>5, <1>7, <1>9 DEF WavesSweep, Sweeps
<1>12. a[l] = b[r]
  <2>1. L # <<>> /\ R # <<>> /\ l \in 1 .. l /\ r \in 1 .. r BY <1>4, <1>5, <1>7
  <2>2. Tip(L) = L[l].dst /\ Tip(R) = R[r].dst BY <1>4, <1>5, <1>7, <2>1, TipIsNode
  <2>3. a[l] = L[l].dst /\ b[r] = R[r].dst BY <1>4, <1>5, <1>7, <1>8, <1>9, <2>1, DstsAre
  <2> QED BY <1>1, <1>4, <1>5, <2>2, <2>3
<1>13. PICK h, k : h = Spliced(a, b, l, r) /\ k = l + r - 1 /\ l + r = k + 1 OBVIOUS
<1>14. Halves(Edges(LeftTypes, LeftArrows), Edges(RightTypes, RightArrows),
              query.starts[1], query.ends[1], l, r, h, a, b)
  BY <1>10, <1>11, <1>12, <1>13 DEF Halves
<1>15. Meets(h, k) BY <1>7, <1>13, <1>14 DEF Meets
<1>16. PICK w \in Seq(Link) : w = Splice(pair) /\ Len(w) = l + r - 1 /\ Dsts(w) = Spliced(a, b, l, r)
  <2>1. PICK w : w = L \o Tail(AdjointLinkPath(R)) OBVIOUS
  <2>2. L # <<>> /\ R # <<>> BY <1>4, <1>5, <1>7
  <2>3. w \in Seq(Link) /\ Len(w) = l + r - 1 BY <1>4, <1>5, <1>7, <2>1, <2>2, SpliceIs
  <2>4. Dsts(w) = Spliced(a, b, l, r) BY <1>4, <1>5, <1>7, <1>8, <1>9, <2>1, SpliceDsts
  <2>5. w = Splice(pair) BY <1>4, <1>5, <2>1 DEF Splice
  <2> QED BY <2>3, <2>4, <2>5
<1>17. IsDAG(w) <=> Distinct(Dsts(w), l + r - 1) BY <1>16, DagIs, DstsAre
<1>18. pair \in DagPairs <=> IsDAG(w) BY <1>16 DEF DagPairs
<1> QED BY <1>7, <1>13, <1>15, <1>16, <1>17, <1>18

LEMMA MeetingsOverlap ==
    ASSUME Exhaustive, WavesSweep, ldepth \in {rdepth, rdepth + 1}, NEW h, Meets(h, ldepth + rdepth - 1)
    PROVE  \E pair \in NodesOverlap : Dsts(Splice(pair)) = h
<1>1. PICK l \in Nat \ {0}, r \in Nat \ {0} : l = ldepth /\ r = rdepth /\ l \in {r, r + 1}
  BY DEF WavesSweep
<1>3. PICK s \in NodePtrs, e \in NodePtrs : s = query.starts[1] /\ e = query.ends[1] BY EndsAre
<1>4. PICK LE, RE : LE = Edges(LeftTypes, LeftArrows) /\ RE = Edges(RightTypes, RightArrows) OBVIOUS
<1>5. PICK i \in Nat \ {0}, j \in Nat \ {0} :
          i + j = (l + r - 1) + 1 /\ i \in {j, j + 1} /\ \E a, b : Halves(LE, RE, s, e, i, j, h, a, b)
  BY <1>1, <1>3, <1>4 DEF Meets
<1>6. PICK a, b : Halves(LE, RE, s, e, l, r, h, a, b)
  <2>1. i = l /\ j = r BY <1>1, <1>5
  <2> QED BY <1>5, <2>1
<1>7. Sweeps(left, LE, s, l) /\ Sweeps(right, RE, e, r) BY <1>1, <1>3, <1>4 DEF WavesSweep
<1>8. PICK p \in 1 .. Len(left) : Dsts(left[p]) = a BY <1>6, <1>7 DEF Halves, Sweeps
<1>9. PICK q \in 1 .. Len(right) : Dsts(right[q]) = b BY <1>6, <1>7 DEF Halves, Sweeps
<1>10. /\ left \in Seq(Seq(Link)) /\ right \in Seq(Seq(Link))
       /\ Len(left[p]) = l /\ Len(right[q]) = r /\ left[p] \in Seq(Link) /\ right[q] \in Seq(Link)
  BY <1>7 DEF Sweeps, OfLength
<1>11. PICK L \in Seq(Link), R \in Seq(Link) : L = left[p] /\ R = right[q] BY <1>10
<1>12. Tip(L) = Tip(R)
  <2>1. L # <<>> /\ R # <<>> /\ l \in 1 .. l /\ r \in 1 .. r /\ Len(L) = l /\ Len(R) = r BY <1>10, <1>11
  <2>2. Tip(L) = L[l].dst /\ Tip(R) = R[r].dst BY <2>1, TipIsNode
  <2>3. a[l] = L[l].dst /\ b[r] = R[r].dst BY <1>8, <1>9, <1>11, <2>1, DstsAre
  <2> QED BY <1>6, <2>2, <2>3 DEF Halves
<1>13. PICK pair : pair = <<p, q>> OBVIOUS
<1>14. pair \in NodesOverlap BY <1>10, <1>11, <1>12, <1>13 DEF NodesOverlap
<1>15. Dsts(Splice(pair)) = h
  <2>1. Splice(pair) = L \o Tail(AdjointLinkPath(R)) BY <1>11, <1>13 DEF Splice
  <2>2. Dsts(L \o Tail(AdjointLinkPath(R))) = Spliced(Dsts(L), Dsts(R), l, r)
    BY <1>10, <1>11, SpliceDsts
  <2> QED BY <1>6, <1>8, <1>9, <1>11, <2>1, <2>2 DEF Halves
<1> QED BY <1>14, <1>15

-----------------------------------------------------------------------------
(* The first step of a wave: an enumeration to depth 1 from one node. *)

Origin == IF job = "right" THEN query.ends[1] ELSE query.starts[1]
Root == Frame(Origin, <<>>, TRUE)
FirstLinks == LinksOf(Origin, EnumTypes, EnumArrows)
FrameSet == [nptr : NodePtrs, path : Seq(Link), forward : BOOLEAN]
Priming == Exhaustive /\ job \in {"left", "right"}

(* Every link of the root is on the stack or found. *)
Primed(stk, fnd) ==
    /\ stk \in Seq(FrameSet) /\ \A i \in 1 .. Len(stk) : Len(stk[i].path) = 1
    /\ fnd \in Seq(Seq(Link)) /\ OfLength(fnd, 1)
    /\ Len(stk) + Len(fnd) <= query.depth
    /\ \A l : Holds(FirstLinks, l) <=> (\E i \in 1 .. Len(stk) : stk[i].path = <<l>>) \/ Holds(fnd, <<l>>)
PrimeInv ==
    Priming =>
        \/ todo = <<Root>> /\ stack = <<>> /\ found = <<>>
        \/ todo = <<>> /\ stack = <<Root>> /\ found = <<>>
        \/ todo = <<>> /\ Primed(stack, found)

LEMMA SieveLength ==
    ASSUME NEW S, NEW s \in Seq(S), NEW P
    PROVE  Len(Sieve(s, P)) <= Len(s)
<1>1. PICK q \in Seq(S) : q = Sieve(s, P) BY SievePlaces
<1>2. PICK at : Picked(q, s, P, at) BY <1>1, SievePlaces
<1>3. PICK a \in Nat, b \in Nat : a = Len(q) /\ b = Len(s) OBVIOUS
<1> DEFINE f == [j \in 1 .. a |-> at[j]]
<1>4. f \in Injection(1 .. a, 1 .. b)
  <2>1. f \in [1 .. a -> 1 .. b] BY <1>2, <1>3 DEF Picked
  <2>2. ASSUME NEW i \in 1 .. a, NEW j \in 1 .. a, f[i] = f[j] PROVE i = j
    <3>1. at[i] = at[j] /\ at[i] \in 1 .. b /\ at[j] \in 1 .. b BY <1>2, <1>3, <2>2 DEF Picked
    <3>2. ~(i < j) /\ ~(j < i) BY <1>2, <1>3, <3>1 DEF Picked
    <3> QED BY <3>2
  <2>3. DOMAIN f = 1 .. a OBVIOUS
  <2> HIDE DEF f
  <2> QED BY <2>1, <2>2, <2>3 DEF Injection, IsInjective
<1>5. /\ IsFiniteSet(1 .. a) /\ Cardinality(1 .. a) = a
      /\ IsFiniteSet(1 .. b) /\ Cardinality(1 .. b) = b
  BY FS_Interval
<1> HIDE DEF f
<1>6. a <= b BY <1>4, <1>5, FS_Injection
<1> QED BY <1>1, <1>3, <1>6

LEMMA RootIs ==
    ASSUME Priming
    PROVE  /\ I \in Graphs /\ query \in Queries /\ Enumerating
           /\ Root \in FrameSet /\ Root.nptr = Origin /\ Root.path = <<>> /\ Root.forward = TRUE
           /\ Origin \in NodePtrs
           /\ EnumTypes \in Seq(STTypes) /\ EnumTypes # <<>> /\ EnumDepth = 1
           /\ EnumLimit = query.depth /\ query.depth \in Nat \ {0}
           /\ FirstLinks \in Seq(Link) /\ Len(FirstLinks) <= query.depth
<1>1. Exhaustive /\ job \in {"left", "right"} BY DEF Priming
<1>2. I \in Graphs /\ query \in Queries /\ Enumerating BY <1>1 DEF Exhaustive, Enumerating
<1>3. Origin \in NodePtrs BY <1>1, EndsAre DEF Origin
<1>4. Root \in FrameSet /\ Root.nptr = Origin /\ Root.path = <<>> /\ Root.forward = TRUE
  BY <1>3 DEF Root, Frame, FrameSet
<1>5. EnumTypes \in Seq(STTypes) /\ EnumTypes # <<>>
  BY <1>1, <1>2, SearchTypes DEF EnumTypes, Exhaustive
<1>6. EnumDepth = 1 /\ EnumLimit = query.depth /\ query.depth \in Nat \ {0}
  BY <1>1, <1>2, QueryIs DEF EnumDepth, EnumLimit
<1>7. FirstLinks \in Seq(Link) BY <1>2, <1>3, <1>5, LinksOfElements DEF FirstLinks
<1>8. Len(FirstLinks) <= query.depth
  BY <1>1, <1>3 DEF FirstLinks, EnumTypes, EnumArrows, Exhaustive
<1> QED BY <1>2, <1>3, <1>4, <1>5, <1>6, <1>7, <1>8

LEMMA RootExtends ==
    ASSUME Priming
    PROVE  /\ Extensions(Root) \in Seq(Link) /\ Len(Extensions(Root)) <= query.depth
           /\ \A l : Holds(Extensions(Root), l) <=> Holds(FirstLinks, l)
<1>1. PICK top \in FrameSet : top = Root /\ top.nptr = Origin /\ top.path = <<>> /\ top.forward = TRUE
  BY RootIs
<1>2. I \in Graphs /\ EnumTypes \in Seq(STTypes) /\ EnumTypes # <<>> BY RootIs
<1>3. Ranges(EnumTypes, top.forward) = EnumTypes BY <1>2, RangesTypes
<1>4. query.loaded /\ query.admit = NodePtrs BY DEF Priming, Exhaustive
<1>5. Nodes(top.path) = {}
  <2>1. DOMAIN <<>> = {} OBVIOUS
  <2> QED BY <1>1, <2>1 DEF Nodes
<1>6. PICK links \in Seq(Link) : links = FirstLinks /\ Extensions(top) = Sieve(links, Unvisited(top.path))
  BY <1>1, <1>2, <1>3, <1>4, ExtensionsSieve DEF FrameSet, FirstLinks
<1>7. PICK P : P = Unvisited(top.path) OBVIOUS
<1>8. \A l : Holds(links, l) => l \in P
  <2>1. \A l \in Link : l.dst \in NodePtrs BY DEF Link
  <2> QED BY <1>4, <1>5, <1>7, <2>1, HoldsIsElement DEF Unvisited
<1>9. Sieve(links, P) \in Seq(Link) /\ \A l : Holds(Sieve(links, P), l) <=> Holds(links, l)
  BY <1>8, SieveElements
<1>10. Len(Sieve(links, P)) <= query.depth
  <2>1. Len(Sieve(links, P)) <= Len(links) BY SieveLength
  <2>2. Len(links) <= query.depth /\ query.depth \in Nat BY <1>6, RootIs
  <2>3. Len(Sieve(links, P)) \in Nat /\ Len(links) \in Nat BY <1>9
  <2> QED BY <2>1, <2>2, <2>3
<1> QED BY <1>1, <1>6, <1>7, <1>9, <1>10

LEMMA RootExpands ==
    ASSUME Priming, stack = <<Root>>, found = <<>>, Expand
    PROVE  Primed(stack', <<>>)
<1>1. PICK links \in Seq(Link), m \in Nat : links = Extensions(Root) /\ m = Len(links) /\ m <= query.depth
  BY RootExtends
<1>2. \A l : Holds(links, l) <=> Holds(FirstLinks, l) BY <1>1, RootExtends
<1>3. PICK new : new = [i \in 1 .. m |-> Frame(links[i].dst, <<links[i]>>, TRUE)] OBVIOUS
<1>4. stack' = new
  <2>1. Last(stack) = Root /\ Front(stack) = <<>> BY DEF Last, Front
  <2>2. Root.path = <<>> /\ Root.forward = TRUE BY RootIs
  <2>3. \A i \in DOMAIN links : Append(<<>>, links[i]) = <<links[i]>> OBVIOUS
  <2>4. DOMAIN links = 1 .. m BY <1>1
  <2>5. stack' = <<>> \o [i \in DOMAIN links |-> Frame(links[i].dst, Append(<<>>, links[i]), TRUE)]
    BY <1>1, <2>1, <2>2 DEF Expand
  <2>6. new \in Seq(FrameSet)
    <3>1. \A i \in 1 .. m : Frame(links[i].dst, <<links[i]>>, TRUE) \in FrameSet
      <4>1. \A i \in 1 .. m : links[i] \in Link BY <1>1
      <4> QED BY <4>1 DEF Frame, FrameSet, Link
    <3>2. new \in [1 .. m -> FrameSet] BY <1>3, <3>1
    <3> QED BY <1>1, <3>2, SequenceOf
  <2>7. [i \in DOMAIN links |-> Frame(links[i].dst, Append(<<>>, links[i]), TRUE)] = new
    BY <1>3, <2>3, <2>4
  <2>8. <<>> \o new = new BY <2>6
  <2> QED BY <2>5, <2>7, <2>8
<1>5. ASSUME NEW i \in 1 .. m
      PROVE  new[i] \in FrameSet /\ new[i].path = <<links[i]>> /\ Len(new[i].path) = 1
  <2>1. PICK l \in Link : l = links[i] BY <1>1
  <2>2. new[i] = Frame(l.dst, <<l>>, TRUE) BY <1>3, <2>1
  <2> QED BY <2>1, <2>2 DEF Frame, FrameSet, Link
<1>6. new \in Seq(FrameSet) /\ Len(new) = m
  <2>1. new \in [1 .. m -> FrameSet] BY <1>3, <1>5
  <2> QED BY <1>1, <2>1, SequenceOf
<1>7. ASSUME NEW l PROVE Holds(FirstLinks, l) <=> (\E i \in 1 .. m : new[i].path = <<l>>)
  <2>1. Holds(links, l) <=> \E i \in 1 .. m : links[i] = l BY <1>1 DEF Holds
  <2>2. \A i \in 1 .. m : new[i].path = <<l>> <=> links[i] = l
    <3>1. \A x, y : <<x>> = <<y>> <=> x = y OBVIOUS
    <3> QED BY <1>5, <3>1
  <2> QED BY <1>2, <2>1, <2>2
<1>8. <<>> \in Seq(Seq(Link)) /\ Len(<<>>) = 0 /\ OfLength(<<>>, 1) /\ \A x : ~Holds(<<>>, x)
  BY DEF OfLength, Holds
<1> QED BY <1>1, <1>4, <1>5, <1>6, <1>7, <1>8 DEF Primed

(* A frame is taken from the stack and its link found. *)
LEMMA PrimedStops ==
    ASSUME query.depth \in Nat, Primed(stack, found), stack # <<>>, Emit(Last(stack).path)
    PROVE  Primed(Front(stack), found')
<1>1. PICK stk \in Seq(FrameSet), fnd \in Seq(Seq(Link)) : stk = stack /\ fnd = found BY DEF Primed
<1>2. PICK k \in Nat : Len(stk) = k + 1
  <2>1. stk # <<>> BY <1>1
  <2>2. Len(stk) \in Nat \ {0} BY <2>1
  <2>3. Len(stk) - 1 \in Nat /\ Len(stk) = (Len(stk) - 1) + 1 BY <2>2
  <2> QED BY <2>3
<1>3. PICK front \in Seq(FrameSet) : /\ front = Front(stk) /\ Len(front) = k
                                     /\ \A i \in 1 .. k : front[i] = stk[i]
  <2>1. /\ SubSeq(stk, 1, k) \in Seq(FrameSet) /\ Len(SubSeq(stk, 1, k)) = k
        /\ \A i \in 1 .. k : SubSeq(stk, 1, k)[i] = stk[i]
    BY <1>2
  <2>2. Front(stk) = SubSeq(stk, 1, k) BY <1>2 DEF Front
  <2> QED BY <2>1, <2>2
<1>4. k + 1 \in 1 .. Len(stk) /\ \A i \in 1 .. Len(stk) : i \in 1 .. k \/ i = k + 1 BY <1>2
<1>5. PICK path \in Seq(Link) : path = Last(stk).path /\ path = stk[k + 1].path /\ Len(path) = 1
  <2>1. Last(stk) = stk[k + 1] BY <1>2 DEF Last
  <2>2. stk[k + 1] \in FrameSet BY <1>4
  <2>3. Len(stk[k + 1].path) = 1 BY <1>1, <1>4 DEF Primed
  <2> QED BY <2>1, <2>2, <2>3 DEF FrameSet
<1>6. PICK l0 : path = <<l0>>
  <2>1. path = <<path[1]>> BY <1>5
  <2> QED BY <2>1
<1>7. PICK next : next = Append(fnd, path) OBVIOUS
<1>8. found' = next
  <2>1. path # <<>> BY <1>6
  <2> QED BY <1>1, <1>5, <1>7, <2>1 DEF Emit
<1>9. /\ next \in Seq(Seq(Link)) /\ Len(next) = Len(fnd) + 1
      /\ \A i \in 1 .. Len(fnd) : next[i] = fnd[i]
      /\ next[Len(fnd) + 1] = path
  BY <1>7
<1>10. OfLength(next, 1)
  <2>1. \A i \in 1 .. Len(next) : i \in 1 .. Len(fnd) \/ i = Len(fnd) + 1 BY <1>9
  <2>2. \A i \in 1 .. Len(fnd) : Len(fnd[i]) = 1 BY <1>1 DEF Primed, OfLength
  <2> QED BY <1>5, <1>9, <2>1, <2>2 DEF OfLength
<1>11. Len(front) + Len(next) <= query.depth
  <2>1. Len(stk) + Len(fnd) <= query.depth BY <1>1 DEF Primed
  <2>2. Len(fnd) \in Nat OBVIOUS
  <2> QED BY <1>2, <1>3, <1>9, <2>1, <2>2
<1>12. \A x : Holds(next, x) <=> Holds(fnd, x) \/ x = path
  <2>1. \A i \in 1 .. Len(next) : i \in 1 .. Len(fnd) \/ i = Len(fnd) + 1 BY <1>9
  <2>2. \A i \in 1 .. Len(fnd) : i \in 1 .. Len(next) BY <1>9
  <2>3. Len(fnd) + 1 \in 1 .. Len(next) BY <1>9
  <2> QED BY <1>9, <2>1, <2>2, <2>3 DEF Holds
<1>13. ASSUME NEW l
       PROVE  Holds(FirstLinks, l) <=> (\E i \in 1 .. k : front[i].path = <<l>>) \/ Holds(next, <<l>>)
  <2>1. Holds(FirstLinks, l) <=> (\E i \in 1 .. Len(stk) : stk[i].path = <<l>>) \/ Holds(fnd, <<l>>)
    BY <1>1 DEF Primed
  <2>2. (\E i \in 1 .. Len(stk) : stk[i].path = <<l>>) <=>
            (\E i \in 1 .. k : stk[i].path = <<l>>) \/ path = <<l>>
    <3>1. \A i \in 1 .. k : i \in 1 .. Len(stk) BY <1>2
    <3> QED BY <1>4, <1>5, <3>1
  <2>3. (\E i \in 1 .. k : stk[i].path = <<l>>) <=> (\E i \in 1 .. k : front[i].path = <<l>>)
    BY <1>3
  <2>4. Holds(next, <<l>>) <=> Holds(fnd, <<l>>) \/ path = <<l>> BY <1>12
  <2> QED BY <2>1, <2>2, <2>3, <2>4
<1>14. \A i \in 1 .. k : Len(front[i].path) = 1
  <2>1. \A i \in 1 .. k : i \in 1 .. Len(stk) BY <1>2
  <2> QED BY <1>1, <1>3, <2>1 DEF Primed
<1>15. Primed(front, next) BY <1>3, <1>9, <1>10, <1>11, <1>13, <1>14 DEF Primed
<1> QED BY <1>1, <1>3, <1>8, <1>15

LEMMA OneLink ==
    ASSUME NEW w \in Seq(Link), Len(w) = 1
    PROVE  /\ w[1] \in Link /\ w = <<w[1]>>
           /\ Dsts(w) \in [1 .. 1 -> NodePtrs] /\ Dsts(w)[1] = w[1].dst
<1>1. 1 \in 1 .. Len(w) OBVIOUS
<1> QED BY <1>1, DstsAre

(* What the first step of a wave finds. *)
LEMMA PrimedSweeps ==
    ASSUME Priming, Primed(stack, found), Exhausted
    PROVE  Sweeps(found, Edges(EnumTypes, EnumArrows), Origin, 1)
<1>1. PICK fnd \in Seq(Seq(Link)) : fnd = found BY DEF Primed
<1>2. stack = <<>>
  <2>1. SUFFICES ASSUME stack # <<>> PROVE FALSE OBVIOUS
  <2>2. stack \in Seq(FrameSet) /\ Len(stack) + Len(fnd) <= query.depth BY <1>1 DEF Primed
  <2>3. Len(stack) \in Nat \ {0} BY <2>1, <2>2
  <2>4. Len(fnd) >= query.depth BY <1>1, <2>1, RootIs DEF Exhausted
  <2>5. query.depth \in Nat /\ Len(fnd) \in Nat BY RootIs
  <2> QED BY <2>2, <2>3, <2>4, <2>5
<1>3. \A l : Holds(FirstLinks, l) <=> Holds(fnd, <<l>>)
  <2>1. \A l : Holds(FirstLinks, l) <=>
                   (\E i \in 1 .. Len(stack) : stack[i].path = <<l>>) \/ Holds(found, <<l>>)
    BY DEF Primed
  <2>2. 1 .. Len(stack) = {}
    <3>1. Len(stack) = 0 BY <1>2
    <3> QED BY <3>1
  <2> QED BY <1>1, <2>1, <2>2
<1>4. PICK arrows : arrows = EnumArrows OBVIOUS
<1>5. PICK E : E = Edges(EnumTypes, EnumArrows) OBVIOUS
<1>6. PICK n \in NodePtrs, sts \in Seq(STTypes) : n = Origin /\ sts = EnumTypes BY RootIs
<1>7. I \in Graphs BY RootIs
<1>8. \A l : Holds(LinksOf(n, sts, arrows), l) <=> Holds(fnd, <<l>>) BY <1>3, <1>4, <1>6 DEF FirstLinks
<1>9. OfLength(fnd, 1) BY <1>1 DEF Primed
<1>10. 1 .. (1 - 1) = {} /\ \A i \in 1 .. 1 : i = 1 OBVIOUS
<1>11. ASSUME NEW p \in 1 .. Len(fnd) PROVE Course(E, n, Dsts(fnd[p]), 1) /\ Distinct(Dsts(fnd[p]), 1)
  <2>1. PICK w \in Seq(Link) : w = fnd[p] /\ Len(w) = 1 BY <1>9 DEF OfLength
  <2>2. PICK l \in Link : l = w[1] /\ w = <<l>> BY <2>1, OneLink
  <2>3. Holds(LinksOf(n, sts, arrows), l) BY <1>8, <2>1, <2>2 DEF Holds
  <2>4. <<n, l.dst>> \in E BY <1>4, <1>7, <1>5, <1>6, <2>3, EdgesAre
  <2>5. Dsts(w) \in [1 .. 1 -> NodePtrs] /\ Dsts(w)[1] = l.dst BY <2>1, <2>2, OneLink
  <2> QED BY <1>10, <2>1, <2>4, <2>5 DEF Course, Distinct
<1>12. ASSUME NEW d, Course(E, n, d, 1) PROVE \E p \in 1 .. Len(fnd) : Dsts(fnd[p]) = d
  <2>1. d \in [1 .. 1 -> NodePtrs] /\ <<n, d[1]>> \in E BY <1>12 DEF Course
  <2>2. PICK l : Holds(LinksOf(n, sts, arrows), l) /\ d[1] = l.dst BY <1>4, <1>7, <1>5, <1>6, <2>1, EdgesAre
  <2>3. PICK p \in 1 .. Len(fnd) : fnd[p] = <<l>> BY <1>8, <2>2 DEF Holds
  <2>4. PICK w \in Seq(Link) : w = fnd[p] /\ Len(w) = 1 BY <1>9 DEF OfLength
  <2>5. w[1] = l BY <2>3, <2>4
  <2>6. Dsts(w) \in [1 .. 1 -> NodePtrs] /\ Dsts(w)[1] = l.dst BY <2>4, <2>5, OneLink
  <2>7. Dsts(w) = d BY <1>10, <2>1, <2>2, <2>6
  <2> QED BY <2>4, <2>7
<1> QED BY <1>1, <1>9, <1>11, <1>12, <1>5, <1>6 DEF Sweeps

(* What a search is asked for does not change. *)
LEMMA AskedStays ==
    ASSUME I' = I, query' = query
    PROVE  /\ Exhaustive' <=> Exhaustive
           /\ \A n, sts, arrows : LinksOf(n, sts, arrows)' = LinksOf(n, sts, arrows)
           /\ \A sts, arrows : Edges(sts, arrows)' = Edges(sts, arrows)
           /\ \A d, k : Meets(d, k)' <=> Meets(d, k)
           /\ UNCHANGED <<LeftTypes, LeftArrows, RightTypes, RightArrows>>
<1>1. \A n, sts, arrows : LinksOf(n, sts, arrows)' = LinksOf(n, sts, arrows) BY LinksStay
<1>2. UNCHANGED <<LeftTypes, LeftArrows, RightTypes, RightArrows>> BY QueryStays
<1>3. \A n, sts, arrows : Hops(n, sts, arrows)' = Hops(n, sts, arrows) BY <1>1 DEF Hops
<1>4. \A sts, arrows : Edges(sts, arrows)' = Edges(sts, arrows) BY <1>3 DEF Edges
<1>5. Exhaustive' <=> Exhaustive BY <1>1, <1>2 DEF Exhaustive
<1>6. \A d, k : Meets(d, k)' <=> Meets(d, k)
  <2>1. UNCHANGED Edges(LeftTypes, LeftArrows) /\ UNCHANGED Edges(RightTypes, RightArrows) BY <1>2, <1>4
  <2>2. \A n, m, l, r, d, a, b :
            Halves(Edges(LeftTypes, LeftArrows), Edges(RightTypes, RightArrows), n, m, l, r, d, a, b)' <=>
            Halves(Edges(LeftTypes, LeftArrows), Edges(RightTypes, RightArrows), n, m, l, r, d, a, b)
    BY <2>1 DEF Halves, Course
  <2> QED BY <2>2 DEF Meets
<1> QED BY <1>1, <1>2, <1>4, <1>5, <1>6

LEMMA EnumerationKeepsPrime ==
    ASSUME SearchInv, PrimeInv, enumeratePaths \/ StopAtDepth \/ Expand \/ EmitLeaf
    PROVE  PrimeInv'
<1>1. Enumerating /\ UNCHANGED <<I, query, job>>
  BY DEF enumeratePaths, StopAtDepth, Expand, EmitLeaf
<1>2. SUFFICES ASSUME Priming
               PROVE  \/ todo' = <<>> /\ stack' = <<Root>> /\ found' = <<>>
                      \/ todo' = <<>> /\ Primed(stack', found')
  <2>1. (Priming' <=> Priming) /\ UNCHANGED <<Root, FirstLinks, query>>
    BY <1>1, AskedStays
    DEF Priming, Root, Origin, FirstLinks, Frame, EnumTypes, EnumArrows
  <2>2. Primed(stack, found)' <=> Primed(stack', found') BY <2>1 DEF Primed
  <2> QED BY <1>2, <2>1, <2>2 DEF PrimeInv
<1>3. query.depth \in Nat \ {0} /\ EnumLimit = query.depth /\ EnumDepth = 1 BY <1>2, RootIs
<1>4. Len(<<>>) = 0 OBVIOUS
<1>5. CASE todo = <<Root>> /\ stack = <<>> /\ found = <<>>
  <2>1. enumeratePaths BY <1>5 DEF StopAtDepth, Expand, EmitLeaf, Exhausted
  <2>2. stack' = <<Root>> /\ todo' = <<>> /\ found' = found BY <1>5, <2>1 DEF enumeratePaths
  <2> QED BY <1>5, <2>2
<1>6. CASE todo = <<>> /\ stack = <<Root>> /\ found = <<>>
  <2>1. Last(stack) = Root /\ Root.path = <<>> /\ Front(stack) = <<>>
    BY <1>2, <1>6, RootIs DEF Last, Front
  <2>2. Expand \/ EmitLeaf BY <1>3, <1>4, <1>6, <2>1 DEF enumeratePaths, StopAtDepth
  <2>3. CASE Expand
    <3>1. Primed(stack', <<>>) BY <1>2, <1>6, <2>3, RootExpands
    <3>2. found' = <<>> /\ todo' = <<>> BY <1>6, <2>3 DEF Expand
    <3> QED BY <3>1, <3>2
  <2>4. CASE EmitLeaf
    <3>1. /\ stack' = <<>> /\ found' = <<>> /\ todo' = <<>> /\ Extensions(Root) = <<>>
      BY <1>6, <2>1, <2>4 DEF EmitLeaf, Emit
    <3>2. \A l : ~Holds(FirstLinks, l)
      <4>1. \A l : Holds(Extensions(Root), l) <=> Holds(FirstLinks, l) BY <1>2, RootExtends
      <4>2. \A l : ~Holds(<<>>, l) BY <1>4 DEF Holds
      <4> QED BY <3>1, <4>1, <4>2
    <3>3. /\ <<>> \in Seq(FrameSet) /\ <<>> \in Seq(Seq(Link)) /\ OfLength(<<>>, 1)
          /\ \A x : ~Holds(<<>>, x)
      BY <1>4 DEF OfLength, Holds
    <3>4. Primed(<<>>, <<>>) BY <1>3, <1>4, <3>2, <3>3 DEF Primed
    <3> QED BY <3>1, <3>4
  <2> QED BY <2>2, <2>3, <2>4
<1>7. CASE todo = <<>> /\ Primed(stack, found)
  <2>1. StopAtDepth \/ Expand \/ EmitLeaf BY <1>7 DEF enumeratePaths
  <2>2. stack # <<>> BY <2>1 DEF StopAtDepth, Expand, EmitLeaf, Exhausted
  <2>3. Len(Last(stack).path) = 1
    <3>1. stack \in Seq(FrameSet) BY <1>7 DEF Primed
    <3>2. Len(stack) \in 1 .. Len(stack)
      <4>1. Len(stack) \in Nat \ {0} BY <2>2, <3>1
      <4> QED BY <4>1
    <3> QED BY <1>7, <3>2 DEF Primed, Last
  <2>4. StopAtDepth BY <1>3, <2>1, <2>3 DEF Expand, EmitLeaf
  <2>5. stack' = Front(stack) /\ Emit(Last(stack).path) /\ todo' = <<>> BY <1>7, <2>4 DEF StopAtDepth
  <2>6. Primed(Front(stack), found') BY <1>3, <1>7, <2>2, <2>5, PrimedStops
  <2> QED BY <2>5, <2>6
<1> QED BY <1>2, <1>5, <1>6, <1>7 DEF PrimeInv

-----------------------------------------------------------------------------
(* One turn of the waves. *)

NoneUpTo(k) == \A c \in 1 .. k : \A d : ~Meets(d, c)

LEMMA OverlapFinite ==
    ASSUME WavesSweep, NEW pairs \in SUBSET NodesOverlap
    PROVE  IsFiniteSet(pairs) /\ (Cardinality(pairs) > 0 <=> pairs # {})
<1>1. left \in Seq(Seq(Link)) /\ right \in Seq(Seq(Link)) BY DEF WavesSweep, Sweeps
<1>2. DOMAIN left = 1 .. Len(left) /\ DOMAIN right = 1 .. Len(right) /\ Len(left) \in Nat /\ Len(right) \in Nat
  BY <1>1
<1>3. IsFiniteSet(1 .. Len(left)) /\ IsFiniteSet(1 .. Len(right)) BY <1>2, FS_Interval
<1>4. IsFiniteSet((DOMAIN left) \X (DOMAIN right)) BY <1>2, <1>3, FS_Product
<1>5. pairs \subseteq (DOMAIN left) \X (DOMAIN right) BY DEF NodesOverlap
<1>6. IsFiniteSet(pairs) BY <1>4, <1>5, FS_Subset
<1>7. Cardinality(pairs) \in Nat /\ (Cardinality(pairs) = 0 <=> pairs = {})
  BY <1>6, FS_CardinalityType, FS_EmptySet
<1> QED BY <1>6, <1>7

(* What a turn finds. *)
LEMMA TurnFinds ==
    ASSUME Exhaustive, WavesSweep, ldepth \in {rdepth, rdepth + 1},
           NEW k, k = ldepth + rdepth - 1
    PROVE  /\ \A d : (\E p \in Splices(DagPairs) : Dsts(p) = d) <=> Meets(d, k) /\ Distinct(d, k)
           /\ \A d : (\E p \in Splices(LoopPairs) : Dsts(p) = d) <=> Meets(d, k) /\ ~Distinct(d, k)
<1>1. \A pair \in NodesOverlap : /\ Meets(Dsts(Splice(pair)), k)
                                 /\ pair \in DagPairs <=> Distinct(Dsts(Splice(pair)), k)
  BY MeetingsAre
<1>2. \A d : Meets(d, k) => \E pair \in NodesOverlap : Dsts(Splice(pair)) = d BY MeetingsOverlap
<1>3. DagPairs \subseteq NodesOverlap /\ LoopPairs = NodesOverlap \ DagPairs BY DEF DagPairs, LoopPairs
<1>4. \A pairs, d : (\E p \in Splices(pairs) : Dsts(p) = d) <=> \E pair \in pairs : Dsts(Splice(pair)) = d
  BY DEF Splices
<1>5. ASSUME NEW d
      PROVE  /\ (\E pair \in DagPairs : Dsts(Splice(pair)) = d) <=> Meets(d, k) /\ Distinct(d, k)
             /\ (\E pair \in LoopPairs : Dsts(Splice(pair)) = d) <=> Meets(d, k) /\ ~Distinct(d, k)
  <2>1. ASSUME NEW pair \in NodesOverlap, Dsts(Splice(pair)) = d
        PROVE  Meets(d, k) /\ (pair \in DagPairs <=> Distinct(d, k))
    BY <1>1, <2>1
  <2>2. CASE Meets(d, k)
    <3>1. PICK pair \in NodesOverlap : Dsts(Splice(pair)) = d BY <1>2, <2>2
    <3> QED BY <1>3, <2>1, <2>2, <3>1
  <2>3. CASE ~Meets(d, k) BY <1>3, <2>1, <2>3
  <2> QED BY <2>2, <2>3
<1> QED BY <1>4, <1>5

(* A turn that finds nothing leaves no meeting of its length. *)
LEMMA TurnFails ==
    ASSUME Exhaustive, WavesSweep, ldepth \in {rdepth, rdepth + 1},
           NoneUpTo(ldepth + rdepth - 2), ~EnoughSolutions, ~EnoughLoops
    PROVE  DagPairs = {} /\ NoneUpTo(ldepth + rdepth - 1)
<1>1. query.mindepth = 0 BY DEF Exhaustive
<1>2. PICK k \in Nat \ {0} : k = ldepth + rdepth - 1 /\ k - 1 = ldepth + rdepth - 2 BY DEF WavesSweep
<1>3. DagPairs \in SUBSET NodesOverlap /\ LoopPairs \in SUBSET NodesOverlap BY DEF DagPairs, LoopPairs
<1>4. DagPairs = {} BY <1>1, <1>3, OverlapFinite DEF EnoughSolutions
<1>5. LoopPairs = {} BY <1>1, <1>3, OverlapFinite DEF EnoughLoops
<1>6. \A d : ~Meets(d, k) BY <1>2, <1>4, <1>5, TurnFinds DEF Splices
<1>7. NoneUpTo(k)
  <2>1. \A c \in 1 .. k : c = k \/ c \in 1 .. (k - 1) BY <1>2
  <2> QED BY <1>2, <1>6, <2>1 DEF NoneUpTo
<1> QED BY <1>2, <1>4, <1>7

-----------------------------------------------------------------------------
(* The inductive invariant of a search that is not cut off. *)

(* Of the meetings over k nodes, those that visit no node twice, or all    *)
(* where each does.                                                        *)
Chosen(d, k) == Meets(d, k) /\ (Distinct(d, k) \/ \A c : Meets(c, k) => ~Distinct(c, k))

(* The nodes of the answers are the shortest meetings, or there is none    *)
(* short enough.                                                           *)
MeetsFirst(k) ==
    /\ \A d : (\E p \in answer : Dsts(p) = d) <=> Chosen(d, k)
    /\ (\E d : Meets(d, k)) /\ NoneUpTo(k - 1)
Answered ==
    \/ answer = {} /\ NoneUpTo(2 * query.depth - 3)
    \/ \E k \in 1 .. (2 * query.depth - 3) : MeetsFirst(k)
WavesInv ==
    Exhaustive =>
        /\ job \in {"left", "right", "waves"} => solutions = {}
        /\ job = "right" => Sweeps(left, Edges(LeftTypes, LeftArrows), query.starts[1], 1)
        /\ job = "waves" => /\ WavesSweep /\ ldepth \in {rdepth, rdepth + 1}
                            /\ NoneUpTo(ldepth + rdepth - 2)
        /\ job = "done" => Answered

LEMMA MeetsStays ==
    ASSUME I' = I, query' = query
    PROVE  /\ \A d, k : Meets(d, k)' <=> Meets(d, k)
           /\ \A d, k : Chosen(d, k)' <=> Chosen(d, k)
           /\ \A k : NoneUpTo(k)' <=> NoneUpTo(k)
<1>1. \A d, k : Meets(d, k)' <=> Meets(d, k) BY AskedStays
<1>2. \A d, k : Chosen(d, k)' <=> Chosen(d, k) BY <1>1 DEF Chosen, Distinct
<1> QED BY <1>1, <1>2 DEF NoneUpTo

LEMMA WavesInvStays ==
    ASSUME WavesInv, UNCHANGED <<I, query, job, left, right, ldepth, rdepth, solutions, answer>>
    PROVE  WavesInv'
<1>1. Exhaustive' <=> Exhaustive BY AskedStays
<1>2. UNCHANGED Edges(LeftTypes, LeftArrows) /\ UNCHANGED Edges(RightTypes, RightArrows) BY AskedStays
<1>3. WavesSweep' <=> WavesSweep BY <1>2 DEF WavesSweep
<1>4. Answered' <=> Answered BY MeetsStays DEF Answered, MeetsFirst, NoneUpTo
<1>5. NoneUpTo(ldepth + rdepth - 2)' <=> NoneUpTo(ldepth + rdepth - 2) BY MeetsStays DEF NoneUpTo
<1> QED BY <1>1, <1>2, <1>3, <1>4, <1>5 DEF WavesInv

LEMMA OneCall ==
    ASSUME NEW n
    PROVE  Calls(<<n>>, "fwd") = <<Frame(n, <<>>, TRUE)>>
<1>1. DOMAIN <<n>> = 1 .. 1 /\ <<n>>[1] = n /\ \A i \in 1 .. 1 : i = 1 OBVIOUS
<1>2. Calls(<<n>>, "fwd") = [i \in 1 .. 1 |-> Frame(<<n>>[i], <<>>, TRUE)] BY <1>1 DEF Calls
<1>3. PICK f : f = Frame(n, <<>>, TRUE) OBVIOUS
<1>4. Calls(<<n>>, "fwd") = [i \in 1 .. 1 |-> f] BY <1>1, <1>2, <1>3
<1>5. [i \in 1 .. 1 |-> f] = <<f>> OBVIOUS
<1> QED BY <1>3, <1>4, <1>5

LEMMA InitWavesInv ==
    ASSUME PathsInit
    PROVE  PrimeInv /\ WavesInv
<1>1. stack = <<>> /\ found = <<>> /\ solutions = {} /\ job \in {"left", "cone"} BY DEF PathsInit
<1>2. WavesInv BY <1>1 DEF WavesInv
<1>3. ASSUME Priming PROVE todo = <<Root>>
  <2>1. job = "left" /\ query.kind = "paths" BY <1>1, <1>3 DEF Priming, Exhaustive
  <2>2. todo = Calls(query.starts, "fwd") BY <2>1 DEF PathsInit
  <2>3. query.starts = <<query.starts[1]>> BY <1>3, EndsAre DEF Priming
  <2>4. Root = Frame(query.starts[1], <<>>, TRUE) BY <2>1 DEF Root, Origin
  <2> QED BY <2>2, <2>3, <2>4, OneCall
<1> QED BY <1>1, <1>2, <1>3 DEF PrimeInv

LEMMA PrimingSweeps ==
    ASSUME SearchInv, LengthInv, PrimeInv, Priming, Exhausted, todo = <<>>
    PROVE  /\ Sweeps(found, Edges(EnumTypes, EnumArrows), Origin, 1)
           /\ ldepth = 1 /\ rdepth = 1
<1>1. EnumLimit \in Nat \ {0} BY RootIs
<1>2. Len(<<>>) = 0 OBVIOUS
<1>3. todo # <<Root>> OBVIOUS
<1>4. ~(stack = <<Root>> /\ found = <<>>) BY <1>1, <1>2 DEF Exhausted
<1>5. Primed(stack, found) BY <1>3, <1>4 DEF PrimeInv
<1>6. ldepth = 1 /\ rdepth = 1 BY DEF LengthInv, Priming
<1> QED BY <1>5, <1>6, PrimedSweeps

LEMMA PrimingKeepsWaves ==
    ASSUME SearchInv, LengthInv, PrimeInv, WavesInv, PrimeLeft \/ PrimeRight
    PROVE  PrimeInv' /\ WavesInv'
<1>1. UNCHANGED <<I, query, solutions, ldepth, rdepth>> BY DEF PrimeLeft, PrimeRight
<1>2. Exhaustive' <=> Exhaustive BY <1>1, AskedStays
<1>3. /\ UNCHANGED Edges(LeftTypes, LeftArrows)
      /\ UNCHANGED Edges(RightTypes, RightArrows)
  BY <1>1, AskedStays
<1>4. SUFFICES ASSUME Exhaustive PROVE PrimeInv' /\ WavesInv'
  BY <1>2 DEF PrimeInv, WavesInv, Priming
<1>5. Priming /\ Exhausted /\ todo = <<>> BY <1>4 DEF Priming, PrimeLeft, PrimeRight
<1>6. solutions' = {} BY <1>1, <1>4, <1>5 DEF WavesInv, Priming
<1>7. Sweeps(found, Edges(EnumTypes, EnumArrows), Origin, 1) /\ ldepth = 1 /\ rdepth = 1
  BY <1>5, PrimingSweeps
<1>8. CASE PrimeLeft
  <2>1. /\ job = "left" /\ job' = "right" /\ left' = found /\ todo' = Calls(query.ends, "fwd")
        /\ stack' = <<>> /\ found' = <<>>
    BY <1>8 DEF PrimeLeft
  <2>2. Sweeps(found, Edges(LeftTypes, LeftArrows), query.starts[1], 1)
    BY <1>7, <2>1 DEF EnumTypes, EnumArrows, Origin
  <2>3. Sweeps(left', Edges(LeftTypes, LeftArrows)', query'.starts[1], 1) BY <1>1, <1>3, <2>1, <2>2
  <2>4. WavesInv' BY <1>6, <2>1, <2>3 DEF WavesInv
  <2>5. todo' = <<Frame(query.ends[1], <<>>, TRUE)>>
    <3>1. query.ends = <<query.ends[1]>> BY <1>4, EndsAre
    <3> QED BY <2>1, <3>1, OneCall
  <2>6. Root' = Frame(query.ends[1], <<>>, TRUE) BY <1>1, <2>1 DEF Root, Origin, Frame
  <2>7. PrimeInv' BY <2>1, <2>5, <2>6 DEF PrimeInv
  <2> QED BY <2>4, <2>7
<1>9. CASE PrimeRight
  <2>1. job = "right" /\ job' = "waves" /\ right' = found /\ left' = left BY <1>9 DEF PrimeRight
  <2>2. Sweeps(found, Edges(RightTypes, RightArrows), query.ends[1], 1)
    BY <1>7, <2>1 DEF EnumTypes, EnumArrows, Origin
  <2>3. Sweeps(left, Edges(LeftTypes, LeftArrows), query.starts[1], 1) BY <1>4, <2>1 DEF WavesInv
  <2>4. WavesSweep' BY <1>1, <1>3, <1>7, <2>1, <2>2, <2>3 DEF WavesSweep
  <2>5. ldepth' \in {rdepth', rdepth' + 1} BY <1>1, <1>7
  <2>6. NoneUpTo(ldepth + rdepth - 2)'
    <3>1. 1 .. (ldepth' + rdepth' - 2) = {} BY <1>1, <1>7
    <3> QED BY <3>1 DEF NoneUpTo
  <2>7. WavesInv' BY <1>6, <2>1, <2>4, <2>5, <2>6 DEF WavesInv
  <2>8. PrimeInv' BY <2>1 DEF PrimeInv, Priming
  <2> QED BY <2>7, <2>8
<1> QED BY <1>8, <1>9

LEMMA ReturnKeepsWaves ==
    ASSUME SearchInv, ReturnCone \/ GetFwdConeAsNodes \/ GetFwdConeAsLinks
    PROVE  PrimeInv' /\ WavesInv'
<1>1. query' = query /\ query.kind # "paths"
  BY DEF ReturnCone, GetFwdConeAsNodes, GetFwdConeAsLinks, SearchInv
<1>2. ~Exhaustive' BY <1>1 DEF Exhaustive
<1> QED BY <1>2 DEF PrimeInv, WavesInv, Priming

(* A turn that finds nothing. *)
LEMMA TurnKeepsWaves ==
    ASSUME SearchInv, LengthInv, WavesInv, Exhaustive, ExpandLeft \/ ExpandRight
    PROVE  WavesInv'
<1>1. UNCHANGED <<I, query, job>> /\ job = "waves" /\ InRange /\ ~EnoughSolutions /\ ~EnoughLoops
      /\ solutions' = Splices(DagPairs)
  BY DEF ExpandLeft, ExpandRight, InRange
<1>2. WavesSweep /\ ldepth \in {rdepth, rdepth + 1} /\ NoneUpTo(ldepth + rdepth - 2)
  BY <1>1 DEF WavesInv
<1>3. PICK l \in Nat \ {0}, r \in Nat \ {0} : l = ldepth /\ r = rdepth /\ l \in {r, r + 1}
  BY <1>2 DEF WavesSweep
<1>4. DagPairs = {} /\ NoneUpTo(l + r - 1) BY <1>1, <1>2, <1>3, TurnFails
<1>5. solutions' = {} BY <1>1, <1>4 DEF Splices
<1>6. PICK LE, RE : LE = Edges(LeftTypes, LeftArrows) /\ RE = Edges(RightTypes, RightArrows) OBVIOUS
<1>7. LE = Edges(LeftTypes, LeftArrows)' /\ RE = Edges(RightTypes, RightArrows)'
  BY <1>1, <1>6, AskedStays
<1>8. PICK s \in NodePtrs, e \in NodePtrs : s = query.starts[1] /\ e = query.ends[1] BY EndsAre
<1>9. Sweeps(left, LE, s, l) /\ Sweeps(right, RE, e, r) BY <1>2, <1>3, <1>6, <1>8 DEF WavesSweep
<1>10. /\ I \in Graphs /\ query \in Queries /\ query.stored
       /\ \A n \in NodePtrs : /\ Len(LinksOf(n, LeftTypes, LeftArrows)) <= query.depth
                              /\ Len(LinksOf(n, RightTypes, RightArrows)) <= query.depth
       /\ LeftTypes \in Seq(STTypes) /\ RightTypes \in Seq(STTypes)
  BY SearchTypes DEF Exhaustive
<1>11. CASE ExpandLeft
  <2>1. /\ left' = IncConstraintConeLinks(left, LeftTypes, LeftArrows) /\ right' = right
        /\ ldepth' = l + 1 /\ rdepth' = r /\ (l + r - 2) % 2 = 0
    BY <1>3, <1>11 DEF ExpandLeft, turn
  <2>2. Sweeps(left', LE, s, l + 1) BY <1>6, <1>8, <1>9, <1>10, <2>1, WaveSweeps
  <2>3. WavesSweep' BY <1>1, <1>3, <1>7, <1>8, <1>9, <2>1, <2>2 DEF WavesSweep
  <2>4. ldepth' \in {rdepth', rdepth' + 1}
    <3>1. l # r + 1
      <4>1. SUFFICES ASSUME l = r + 1 PROVE FALSE OBVIOUS
      <4>2. (l + r - 2) = 2 * (r - 1) + 1 /\ r - 1 \in Nat BY <4>1
      <4>3. (2 * (r - 1) + 1) % 2 = 1 BY <4>2
      <4> QED BY <2>1, <4>2, <4>3
    <3> QED BY <1>3, <2>1, <3>1
  <2>5. NoneUpTo(ldepth + rdepth - 2)'
    <3>1. ldepth' + rdepth' - 2 = l + r - 1 BY <2>1
    <3> QED BY <1>1, <1>4, <3>1, MeetsStays DEF NoneUpTo
  <2> QED BY <1>1, <1>5, <2>3, <2>4, <2>5 DEF WavesInv
<1>12. CASE ExpandRight
  <2>1. /\ right' = IncConstraintConeLinks(right, RightTypes, RightArrows) /\ left' = left
        /\ rdepth' = r + 1 /\ ldepth' = l /\ (l + r - 2) % 2 = 1
    BY <1>3, <1>12 DEF ExpandRight, turn
  <2>2. Sweeps(right', RE, e, r + 1) BY <1>6, <1>8, <1>9, <1>10, <2>1, WaveSweeps
  <2>3. WavesSweep' BY <1>1, <1>3, <1>7, <1>8, <1>9, <2>1, <2>2 DEF WavesSweep
  <2>4. ldepth' \in {rdepth', rdepth' + 1}
    <3>1. l # r
      <4>1. SUFFICES ASSUME l = r PROVE FALSE OBVIOUS
      <4>2. (l + r - 2) = 2 * (r - 1) /\ r - 1 \in Nat BY <4>1
      <4>3. (2 * (r - 1)) % 2 = 0 BY <4>2
      <4> QED BY <2>1, <4>2, <4>3
    <3> QED BY <1>3, <2>1, <3>1
  <2>5. NoneUpTo(ldepth + rdepth - 2)'
    <3>1. ldepth' + rdepth' - 2 = l + r - 1 BY <2>1
    <3> QED BY <1>1, <1>4, <3>1, MeetsStays DEF NoneUpTo
  <2> QED BY <1>1, <1>5, <2>3, <2>4, <2>5 DEF WavesInv
<1> QED BY <1>11, <1>12

(* The last turn. *)
LEMMA AnswerIsNearest ==
    ASSUME SearchInv, LengthInv, WavesInv, Exhaustive, ReturnSolutions \/ ReturnLoops \/ GiveUp
    PROVE  Answered'
<1>1. UNCHANGED <<I, query>> /\ job = "waves"
  BY DEF ReturnSolutions, ReturnLoops, GiveUp, InRange
<1>2. /\ WavesSweep /\ ldepth \in {rdepth, rdepth + 1} /\ NoneUpTo(ldepth + rdepth - 2)
      /\ solutions = {}
  BY <1>1 DEF WavesInv
<1>3. PICK l \in Nat \ {0}, r \in Nat \ {0} : l = ldepth /\ r = rdepth /\ l \in {r, r + 1}
  BY <1>2 DEF WavesSweep
<1>4. PICK depth \in Nat \ {0} : depth = query.depth /\ depth = query'.depth /\ l <= depth
  BY <1>1, <1>3, QueryIs DEF LengthInv, SearchInv
<1>5. PICK k \in Nat \ {0} : k = l + r - 1 /\ k - 1 = l + r - 2 BY <1>3
<1>6. /\ \A d : (\E p \in Splices(DagPairs) : Dsts(p) = d) <=> Meets(d, k) /\ Distinct(d, k)
      /\ \A d : (\E p \in Splices(LoopPairs) : Dsts(p) = d) <=> Meets(d, k) /\ ~Distinct(d, k)
  BY <1>2, <1>3, <1>5, TurnFinds
<1>7. /\ query.mindepth = 0
      /\ DagPairs \in SUBSET NodesOverlap /\ LoopPairs \in SUBSET NodesOverlap
  BY DEF Exhaustive, DagPairs, LoopPairs
<1>8. EnoughSolutions <=> DagPairs # {} BY <1>2, <1>7, OverlapFinite DEF EnoughSolutions
<1>9. EnoughLoops <=> LoopPairs # {} BY <1>2, <1>7, OverlapFinite DEF EnoughLoops
<1>10. ASSUME l < depth, r < depth, NEW pairs, pairs # {}, answer' = Splices(pairs),
              \A d : (\E p \in Splices(pairs) : Dsts(p) = d) <=> Chosen(d, k)
       PROVE  Answered'
  <2>1. k \in 1 .. (2 * depth - 3) BY <1>3, <1>5, <1>10
  <2>2. PICK p : p \in answer' BY <1>10 DEF Splices
  <2>3. \E d : Meets(d, k) BY <1>10, <2>2 DEF Chosen
  <2>4. NoneUpTo(k - 1) BY <1>2, <1>3, <1>5
  <2>5. /\ \A d : (\E x \in answer' : Dsts(x) = d) <=> Chosen(d, k)'
        /\ (\E d : Meets(d, k)') /\ NoneUpTo(k - 1)'
    BY <1>1, <1>10, <2>3, <2>4, MeetsStays
  <2>6. MeetsFirst(k)' BY <2>5 DEF MeetsFirst
  <2> QED BY <1>4, <2>1, <2>6 DEF Answered
<1>11. CASE ReturnSolutions
  <2>1. answer' = Splices(DagPairs) /\ EnoughSolutions /\ l < depth /\ r < depth
    BY <1>3, <1>4, <1>11 DEF ReturnSolutions, InRange, Answer
  <2>2. PICK p : p \in Splices(DagPairs) BY <1>8, <2>1 DEF Splices
  <2>3. PICK c : Meets(c, k) /\ Distinct(c, k) BY <1>6, <2>2
  <2>4. \A d : (\E x \in Splices(DagPairs) : Dsts(x) = d) <=> Chosen(d, k) BY <1>6, <2>3 DEF Chosen
  <2> QED BY <1>8, <1>10, <2>1, <2>4
<1>12. CASE ReturnLoops
  <2>1. answer' = Splices(LoopPairs) /\ ~EnoughSolutions /\ EnoughLoops /\ l < depth /\ r < depth
    BY <1>3, <1>4, <1>12 DEF ReturnLoops, InRange, Answer
  <2>2. \A c : Meets(c, k) => ~Distinct(c, k)
    <3>1. Splices(DagPairs) = {} BY <1>8, <2>1 DEF Splices
    <3> QED BY <1>6, <3>1
  <2>3. \A d : (\E x \in Splices(LoopPairs) : Dsts(x) = d) <=> Chosen(d, k) BY <1>6, <2>2 DEF Chosen
  <2> QED BY <1>9, <1>10, <2>1, <2>3
<1>13. CASE GiveUp
  <2>1. answer' = {} /\ ~(l < depth /\ r < depth)
    BY <1>1, <1>2, <1>3, <1>4, <1>13 DEF GiveUp, InRange, Answer
  <2>2. 2 * depth - 3 <= l + r - 2 BY <1>3, <1>4, <2>1
  <2>3. NoneUpTo(2 * depth - 3)
    <3>1. \A c \in 1 .. (2 * depth - 3) : c \in 1 .. (l + r - 2) BY <2>2
    <3> QED BY <1>2, <1>3, <3>1 DEF NoneUpTo
  <2>4. NoneUpTo(2 * query.depth - 3)' BY <1>1, <1>4, <2>3, MeetsStays DEF NoneUpTo
  <2> QED BY <2>1, <2>4 DEF Answered
<1> QED BY <1>11, <1>12, <1>13

LEMMA WavesKeepWaves ==
    ASSUME SearchInv, LengthInv, WavesInv,
           ReturnSolutions \/ ReturnLoops \/ ExpandLeft \/ ExpandRight \/ GiveUp
    PROVE  PrimeInv' /\ WavesInv'
<1>1. UNCHANGED <<I, query>> /\ job = "waves"
  BY DEF ReturnSolutions, ReturnLoops, ExpandLeft, ExpandRight, GiveUp, InRange
<1>2. job' \in {"waves", "done"}
  BY <1>1 DEF ReturnSolutions, ReturnLoops, ExpandLeft, ExpandRight, GiveUp, Answer
<1>3. PrimeInv' BY <1>2 DEF PrimeInv, Priming
<1>4. Exhaustive' <=> Exhaustive BY <1>1, AskedStays
<1>5. SUFFICES ASSUME Exhaustive PROVE WavesInv' BY <1>3, <1>4 DEF WavesInv
<1>6. CASE ReturnSolutions \/ ReturnLoops \/ GiveUp
  <2>1. Answered' BY <1>5, <1>6, AnswerIsNearest
  <2>2. job' = "done" BY <1>6 DEF ReturnSolutions, ReturnLoops, GiveUp, Answer
  <2> QED BY <2>1, <2>2 DEF WavesInv
<1>7. CASE ExpandLeft \/ ExpandRight BY <1>5, <1>7, TurnKeepsWaves
<1> QED BY <1>6, <1>7

LEMMA WavesInvariant == PathsSpec => []WavesInv
<1>1. PathsInit => PrimeInv /\ WavesInv BY InitWavesInv
<1>2. SearchInv /\ LengthInv /\ (PrimeInv /\ WavesInv) /\ [PathsNext]_pathVars => (PrimeInv /\ WavesInv)'
  <2> SUFFICES ASSUME SearchInv, LengthInv, PrimeInv, WavesInv, [PathsNext]_pathVars
               PROVE  PrimeInv' /\ WavesInv'
    OBVIOUS
  <2>1. CASE UNCHANGED pathVars
    <3>1. UNCHANGED <<I, query, job, todo, stack, found, left, right, ldepth, rdepth, solutions, answer>>
      BY <2>1 DEF pathVars
    <3>2. WavesInv' BY <3>1, WavesInvStays
    <3>3. (Priming' <=> Priming) /\ UNCHANGED <<Root, FirstLinks, query>>
      BY <3>1, AskedStays
      DEF Priming, Root, Origin, FirstLinks, Frame, EnumTypes, EnumArrows
    <3>4. Primed(stack, found)' <=> Primed(stack, found) BY <3>1, <3>3 DEF Primed
    <3> QED BY <3>1, <3>2, <3>3, <3>4 DEF PrimeInv
  <2>2. CASE enumeratePaths \/ StopAtDepth \/ Expand \/ EmitLeaf
    <3>1. UNCHANGED <<I, query, job, left, right, ldepth, rdepth, solutions, answer>>
      BY <2>2 DEF enumeratePaths, StopAtDepth, Expand, EmitLeaf, waveVars
    <3> QED BY <2>2, <3>1, WavesInvStays, EnumerationKeepsPrime
  <2>3. CASE ReturnCone \/ GetFwdConeAsNodes \/ GetFwdConeAsLinks BY <2>3, ReturnKeepsWaves
  <2>4. CASE PrimeLeft \/ PrimeRight BY <2>4, PrimingKeepsWaves
  <2>5. CASE ReturnSolutions \/ ReturnLoops \/ ExpandLeft \/ ExpandRight \/ GiveUp
    BY <2>5, WavesKeepWaves
  <2> QED BY <2>1, <2>2, <2>3, <2>4, <2>5 DEF PathsNext
<1> QED BY <1>1, <1>2, SearchInvariant, LengthsInvariant, PTL DEF PathsSpec

-----------------------------------------------------------------------------
(* What the properties say in terms of trails. *)

(* The nodes of a walk, and links that lead from each to the next. *)
LEMMA CourseIsWalk ==
    ASSUME I \in Graphs, NEW n \in NodePtrs, NEW sts \in Seq(STTypes), NEW arrows,
           NEW k \in Nat \ {0}, NEW d, Course(Edges(sts, arrows), n, d, k)
    PROVE  \E w : Walk(w, n, sts, arrows) /\ Len(w) = k /\ Dsts(w) = d
<1>1. PICK E : E = Edges(sts, arrows) OBVIOUS
<1>2. /\ d \in [1 .. k -> NodePtrs] /\ <<n, d[1]>> \in E
      /\ \A i \in 1 .. (k - 1) : <<d[i], d[i + 1]>> \in E
  BY <1>1 DEF Course
<1> DEFINE from(i) == IF i = 1 THEN n ELSE d[i - 1]
           to(i, l) == Holds(LinksOf(from(i), sts, arrows), l) /\ l.dst = d[i]
           w == [i \in 1 .. k |-> CHOOSE l : to(i, l)]
<1>3. ASSUME NEW i \in 1 .. k PROVE from(i) \in NodePtrs /\ to(i, w[i]) /\ w[i] \in Link
  <2>1. from(i) \in NodePtrs /\ <<from(i), d[i]>> \in E
    <3>1. CASE i = 1 BY <1>2, <3>1
    <3>2. CASE i # 1
      <4>1. PICK j \in 1 .. (k - 1) : i = j + 1 /\ j = i - 1 /\ j \in 1 .. k BY <3>2
      <4> QED BY <1>2, <3>2, <4>1
    <3> QED BY <3>1, <3>2
  <2>2. PICK m \in NodePtrs : m = from(i) BY <2>1
  <2>3. \E l : Holds(LinksOf(m, sts, arrows), l) /\ d[i] = l.dst BY <1>1, <2>1, <2>2, EdgesAre
  <2>4. \E l : to(i, l) BY <2>2, <2>3
  <2>5. to(i, w[i])
    <3> HIDE DEF to
    <3> QED BY <2>4
  <2>6. w[i] \in Link BY <2>2, <2>5, LinksOfElements
  <2> QED BY <2>1, <2>5, <2>6
<1>4. w \in Seq(Link) /\ Len(w) = k
  <2>1. w \in [1 .. k -> Link] BY <1>3
  <2> HIDE DEF w
  <2> QED BY <2>1, SequenceOf
<1> HIDE DEF w
<1>5. w # <<>> BY <1>4
<1>6. Holds(LinksOf(n, sts, arrows), w[1])
  <2>1. 1 \in 1 .. k /\ from(1) = n OBVIOUS
  <2> QED BY <1>3, <2>1
<1>7. ASSUME NEW i \in 2 .. Len(w) PROVE Holds(LinksOf(w[i - 1].dst, sts, arrows), w[i])
  <2>1. i \in 1 .. k /\ i # 1 /\ i - 1 \in 1 .. k BY <1>4
  <2>2. from(i) = d[i - 1] BY <2>1
  <2>3. w[i - 1].dst = d[i - 1] BY <1>3, <2>1
  <2> QED BY <1>3, <2>1, <2>2, <2>3
<1>8. Dsts(w) = d
  <2>1. Dsts(w) \in [1 .. k -> NodePtrs] /\ \A i \in 1 .. k : Dsts(w)[i] = w[i].dst
    BY <1>4, DstsAre
  <2>2. \A i \in 1 .. k : Dsts(w)[i] = d[i] BY <1>3, <2>1
  <2> QED BY <1>2, <2>1, <2>2
<1>9. Walk(w, n, sts, arrows) BY <1>4, <1>5, <1>6, <1>7 DEF Walk
<1> QED BY <1>4, <1>8, <1>9

LEMMA WalkIsCourse ==
    ASSUME I \in Graphs, NEW n \in NodePtrs, NEW sts \in Seq(STTypes), NEW arrows,
           NEW w, Walk(w, n, sts, arrows)
    PROVE  Course(Edges(sts, arrows), n, Dsts(w), Len(w))
<1>1. PICK v \in Seq(Link), k \in Nat \ {0} : v = w /\ k = Len(v) BY DEF Walk
<1>2. PICK E : E = Edges(sts, arrows) OBVIOUS
<1>3. PICK d : d = Dsts(v) /\ d \in [1 .. k -> NodePtrs] /\ \A i \in 1 .. k : d[i] = v[i].dst
  BY <1>1, DstsAre
<1>4. Holds(LinksOf(n, sts, arrows), v[1]) /\ \A i \in 2 .. k : Holds(LinksOf(v[i - 1].dst, sts, arrows), v[i])
  BY <1>1 DEF Walk
<1>5. <<n, d[1]>> \in E
  <2>1. d[1] = v[1].dst BY <1>1, <1>3
  <2> QED BY <1>2, <1>4, <2>1, EdgesAre
<1>6. ASSUME NEW i \in 1 .. (k - 1) PROVE <<d[i], d[i + 1]>> \in E
  <2>1. i \in 1 .. k /\ i + 1 \in 1 .. k /\ i + 1 \in 2 .. k /\ (i + 1) - 1 = i BY <1>1
  <2>2. PICK x \in NodePtrs : x = d[i] /\ x = v[i].dst BY <1>3, <2>1
  <2>3. Holds(LinksOf(x, sts, arrows), v[i + 1]) BY <1>4, <2>1, <2>2
  <2>4. d[i + 1] = v[i + 1].dst BY <1>3, <2>1
  <2> QED BY <1>2, <2>2, <2>3, <2>4, EdgesAre
<1> QED BY <1>1, <1>2, <1>3, <1>5, <1>6 DEF Course

(* The trails of n links from s, by the nodes they visit. *)
LEMMA TrailIsCourse ==
    ASSUME I \in Graphs, NEW n \in NodePtrs, NEW sts \in Seq(STTypes), NEW arrows, NEW k \in Nat \ {0}
    PROVE  /\ \A w \in Trails(n, k, sts, arrows) :
                 /\ Course(Edges(sts, arrows), n, Dsts(w), k) /\ Distinct(Dsts(w), k)
                 /\ Tip(w) \in NodePtrs /\ Tip(w) = Dsts(w)[k]
           /\ \A d : Course(Edges(sts, arrows), n, d, k) /\ Distinct(d, k) =>
                         \E w \in Trails(n, k, sts, arrows) : Dsts(w) = d
<1>1. PICK E : E = Edges(sts, arrows) OBVIOUS
<1>2. ASSUME NEW w PROVE w \in Trails(n, k, sts, arrows) <=>
                             Walk(w, n, sts, arrows) /\ NoRepeat(w) /\ Len(w) = k
  <2>1. w \in Trails(n, k, sts, arrows) <=> Trail(w, n, sts, arrows) /\ Len(w) = k BY TrailsAre
  <2>2. Len(w) = k => w # <<>> OBVIOUS
  <2> QED BY <2>1, <2>2 DEF Trail, Walk
<1>3. ASSUME NEW w, Walk(w, n, sts, arrows), Len(w) = k
      PROVE  /\ Course(E, n, Dsts(w), k) /\ (NoRepeat(w) <=> Distinct(Dsts(w), k))
             /\ Tip(w) \in NodePtrs /\ Tip(w) = Dsts(w)[k]
  <2>1. PICK v \in Seq(Link) : v = w /\ v # <<>> /\ Len(v) = k BY <1>3 DEF Walk
  <2>2. Course(E, n, Dsts(w), k) BY <1>1, <1>3, WalkIsCourse
  <2>3. NoRepeat(v) <=> Distinct(Dsts(v), k) BY <2>1, DstsAre
  <2>4. Tip(v) \in NodePtrs /\ Tip(v) = v[k].dst BY <2>1, TipIsNode
  <2>5. k \in 1 .. k OBVIOUS
  <2>6. Dsts(v)[k] = v[k].dst BY <2>1, <2>5, DstsAre
  <2> QED BY <2>1, <2>2, <2>3, <2>4, <2>6
<1>4. ASSUME NEW d, Course(E, n, d, k), Distinct(d, k)
      PROVE  \E w \in Trails(n, k, sts, arrows) : Dsts(w) = d
  <2>1. PICK w : Walk(w, n, sts, arrows) /\ Len(w) = k /\ Dsts(w) = d BY <1>1, <1>4, CourseIsWalk
  <2> QED BY <1>2, <1>3, <1>4, <2>1
<1> QED BY <1>1, <1>2, <1>3, <1>4

(* The second half of a meeting is turned around, its last node left out. *)
LEMMA TurnedAround ==
    ASSUME NEW l \in Nat \ {0}, NEW r \in Nat \ {0},
           NEW a \in [1 .. l -> NodePtrs], NEW b \in [1 .. r -> NodePtrs]
    PROVE  a \o Reverse(Front(b)) = Spliced(a, b, l, r)
<1>1. a \in Seq(NodePtrs) /\ Len(a) = l /\ b \in Seq(NodePtrs) /\ Len(b) = r
  BY SequenceOf
<1>2. PICK f \in Seq(NodePtrs) : f = Front(b) /\ Len(f) = r - 1 /\ \A i \in 1 .. (r - 1) : f[i] = b[i]
  <2>1. /\ SubSeq(b, 1, r - 1) \in Seq(NodePtrs) /\ Len(SubSeq(b, 1, r - 1)) = r - 1
        /\ \A i \in 1 .. (r - 1) : SubSeq(b, 1, r - 1)[i] = b[i]
    BY <1>1
  <2> QED BY <1>1, <2>1 DEF Front
<1>3. PICK m \in Nat : m = r - 1 OBVIOUS
<1>4. PICK t : t = [i \in 1 .. m |-> f[(m - i) + 1]] OBVIOUS
<1>5. t = Reverse(f) BY <1>2, <1>3, <1>4 DEF Reverse
<1>6. t \in Seq(NodePtrs) /\ Len(t) = m
  <2>1. \A i \in 1 .. m : (m - i) + 1 \in 1 .. m OBVIOUS
  <2>2. t \in [1 .. m -> NodePtrs] BY <1>2, <1>3, <1>4, <2>1
  <2> QED BY <2>2, SequenceOf
<1>7. PICK w \in Seq(NodePtrs) : /\ w = a \o t /\ Len(w) = l + m
                                 /\ \A i \in 1 .. (l + m) : w[i] = IF i <= l THEN a[i] ELSE t[i - l]
  <2>1. /\ a \o t \in Seq(NodePtrs) /\ Len(a \o t) = Len(a) + Len(t)
        /\ \A i \in 1 .. Len(a) : (a \o t)[i] = a[i]
        /\ \A i \in (Len(a) + 1) .. (Len(a) + Len(t)) : (a \o t)[i] = t[i - Len(a)]
    BY <1>1, <1>6, JoinedAt, Zenon
  <2>2. PICK w : w = a \o t OBVIOUS
  <2>3. /\ \A i \in 1 .. l : w[i] = a[i]
        /\ \A i \in (l + 1) .. (l + m) : w[i] = t[i - l]
    BY <1>1, <1>6, <2>1, <2>2, Zenon
  <2>4. w \in Seq(NodePtrs) /\ Len(w) = l + m BY <1>1, <1>6, <2>1, <2>2, Zenon
  <2>5. \A i \in 1 .. (l + m) : IF i <= l THEN i \in 1 .. l ELSE i \in (l + 1) .. (l + m) OBVIOUS
  <2>6. \A i \in 1 .. (l + m) : w[i] = IF i <= l THEN a[i] ELSE t[i - l] BY <2>3, <2>5
  <2> QED BY <2>2, <2>4, <2>6
<1>8. ASSUME NEW i \in 1 .. (l + m) PROVE w[i] = IF i <= l THEN a[i] ELSE b[l + r - i]
  <2>1. CASE i <= l BY <1>7, <2>1
  <2>2. CASE ~(i <= l)
    <3>1. i - l \in 1 .. m /\ (m - (i - l)) + 1 = l + r - i /\ l + r - i \in 1 .. m BY <1>3, <2>2
    <3>2. t[i - l] = f[l + r - i] BY <1>4, <3>1
    <3> QED BY <1>2, <1>3, <1>7, <2>2, <3>1, <3>2
  <2> QED BY <2>1, <2>2
<1>9. l + r - 1 = l + m BY <1>3
<1>10. w = [i \in 1 .. (l + m) |-> IF i <= l THEN a[i] ELSE b[l + r - i]]
  <2>0. w \in Seq(NodePtrs) /\ Len(w) = l + m BY <1>7, Zenon
  <2>1. PICK k \in Nat, v \in Seq(NodePtrs) : k = l + m /\ v = w /\ Len(v) = k BY <2>0
  <2>2. DOMAIN v = 1 .. k /\ v = [i \in 1 .. k |-> v[i]] BY <2>1
  <2>3. \A i \in 1 .. k : v[i] = IF i <= l THEN a[i] ELSE b[l + r - i] BY <1>8, <2>1
  <2>4. v = [i \in 1 .. k |-> IF i <= l THEN a[i] ELSE b[l + r - i]] BY <2>2, <2>3
  <2> QED BY <2>1, <2>4
<1> QED BY <1>2, <1>5, <1>7, <1>9, <1>10 DEF Spliced

LEMMA MeetingsAsked ==
    ASSUME Exhaustive, NEW k \in Nat \ {0}
    PROVE  \A d : /\ d \in Meetings(k + 1) <=> Meets(d, k)
                  /\ Meets(d, k) => (IsInjective(d) <=> Distinct(d, k))
<1>1. PICK s \in NodePtrs, e \in NodePtrs :
          /\ s = query.starts[1] /\ e = query.ends[1]
          /\ ToSet(query.starts) = {s} /\ ToSet(query.ends) = {e}
  BY EndsAre
<1>2. I \in Graphs /\ LeftTypes \in Seq(STTypes) /\ RightTypes \in Seq(STTypes)
  BY SearchTypes DEF Exhaustive
<1>3. PICK lts \in Seq(STTypes), rts \in Seq(STTypes) : lts = LeftTypes /\ rts = RightTypes BY <1>2
<1>4. PICK las, ras : las = LeftArrows /\ ras = RightArrows OBVIOUS
<1>5. PICK LE, RE : LE = Edges(lts, las) /\ RE = Edges(rts, ras) OBVIOUS
<1>6. PICK l \in Nat \ {0}, r \in Nat \ {0} :
          l + r = k + 1 /\ l \in {r, r + 1} /\ l = ((k + 1) + 1) \div 2 /\ r = (k + 1) \div 2
  <2>1. ((k + 1) + 1) \div 2 \in Nat \ {0} /\ (k + 1) \div 2 \in Nat \ {0} OBVIOUS
  <2>2. ((k + 1) + 1) \div 2 + (k + 1) \div 2 = k + 1 OBVIOUS
  <2>3. ((k + 1) + 1) \div 2 \in {(k + 1) \div 2, (k + 1) \div 2 + 1} OBVIOUS
  <2> QED BY <2>1, <2>2, <2>3
<1>7. ASSUME NEW d PROVE Meets(d, k) <=> \E a, b : Halves(LE, RE, s, e, l, r, d, a, b)
  <2>1. \A i, j \in Nat \ {0} : i + j = k + 1 /\ i \in {j, j + 1} => i = l /\ j = r BY <1>6
  <2>2. Meets(d, k) <=> \E i, j \in Nat \ {0} :
            i + j = k + 1 /\ i \in {j, j + 1} /\ \E a, b : Halves(LE, RE, s, e, i, j, d, a, b)
    BY <1>1, <1>3, <1>4, <1>5 DEF Meets
  <2> QED BY <1>6, <2>1, <2>2
<1>8. PICK There, Back : There = Trails(s, l, lts, las) /\ Back = Trails(e, r, rts, ras) OBVIOUS
<1>9. ASSUME NEW d
      PROVE  d \in Meetings(k + 1) <=>
                 \E v \in There, w \in Back : Tip(v) = Tip(w) /\ d = Dsts(v) \o Reverse(Front(Dsts(w)))
  <2>1. /\ UNION {Trails(t, l, lts, las) : t \in {s}} = There
        /\ UNION {Trails(t, r, rts, ras) : t \in {e}} = Back
    BY <1>8
  <2>2. /\ UNION {Trails(t, ((k + 1) + 1) \div 2, LeftTypes, LeftArrows) : t \in ToSet(query.starts)} = There
        /\ UNION {Trails(t, (k + 1) \div 2, RightTypes, RightArrows) : t \in ToSet(query.ends)} = Back
    <3>1. /\ UNION {Trails(t, l, LeftTypes, LeftArrows) : t \in ToSet(query.starts)} = There
          /\ UNION {Trails(t, r, RightTypes, RightArrows) : t \in ToSet(query.ends)} = Back
      BY <1>1, <1>3, <1>4, <2>1
    <3> QED BY <1>6, <3>1
  <2>3. Meetings(k + 1) =
            {Dsts(pair[1]) \o Reverse(Front(Dsts(pair[2]))) :
                pair \in {x \in There \X Back : Tip(x[1]) = Tip(x[2])}}
    BY <2>2, Zenon DEF Meetings
  <2>4. d \in Meetings(k + 1) <=>
            \E pair \in There \X Back : /\ Tip(pair[1]) = Tip(pair[2])
                                        /\ d = Dsts(pair[1]) \o Reverse(Front(Dsts(pair[2])))
    BY <2>3, Zenon
  <2>5. \A v \in There, w \in Back : <<v, w>> \in There \X Back /\ <<v, w>>[1] = v /\ <<v, w>>[2] = w
    OBVIOUS
  <2>6. \A pair \in There \X Back : pair[1] \in There /\ pair[2] \in Back OBVIOUS
  <2>7. ASSUME NEW v \in There, NEW w \in Back, Tip(v) = Tip(w),
               d = Dsts(v) \o Reverse(Front(Dsts(w)))
        PROVE  d \in Meetings(k + 1)
    <3>1. PICK pair : pair = <<v, w>> OBVIOUS
    <3>2. pair \in There \X Back /\ pair[1] = v /\ pair[2] = w BY <2>5, <3>1
    <3> QED BY <2>4, <2>7, <3>2, Zenon
  <2> QED BY <2>4, <2>6, <2>7, Zenon
<1>10. /\ \A v \in There : /\ Course(LE, s, Dsts(v), l) /\ Distinct(Dsts(v), l) /\ Tip(v) = Dsts(v)[l]
       /\ \A a : Course(LE, s, a, l) /\ Distinct(a, l) => \E v \in There : Dsts(v) = a
  BY <1>2, <1>5, <1>8, TrailIsCourse
<1>11. /\ \A w \in Back : /\ Course(RE, e, Dsts(w), r) /\ Distinct(Dsts(w), r) /\ Tip(w) = Dsts(w)[r]
       /\ \A b : Course(RE, e, b, r) /\ Distinct(b, r) => \E w \in Back : Dsts(w) = b
  BY <1>2, <1>5, <1>8, TrailIsCourse
<1>12. ASSUME NEW a, NEW b, Course(LE, s, a, l), Course(RE, e, b, r)
       PROVE  a \o Reverse(Front(b)) = Spliced(a, b, l, r)
  BY <1>12, TurnedAround DEF Course
<1>13. ASSUME NEW d, d \in Meetings(k + 1) PROVE Meets(d, k)
  <2>1. PICK v \in There, w \in Back : Tip(v) = Tip(w) /\ d = Dsts(v) \o Reverse(Front(Dsts(w)))
    BY <1>9, <1>13
  <2>2. Halves(LE, RE, s, e, l, r, d, Dsts(v), Dsts(w)) BY <1>10, <1>11, <1>12, <2>1 DEF Halves
  <2> QED BY <1>7, <2>2
<1>14. ASSUME NEW d, Meets(d, k) PROVE d \in Meetings(k + 1)
  <2>1. PICK a, b : Halves(LE, RE, s, e, l, r, d, a, b) BY <1>7, <1>14
  <2>2. PICK v \in There, w \in Back : Dsts(v) = a /\ Dsts(w) = b BY <1>10, <1>11, <2>1 DEF Halves
  <2>3. Tip(v) = Tip(w) BY <1>10, <1>11, <2>1, <2>2 DEF Halves
  <2>4. d = a \o Reverse(Front(b)) BY <1>12, <2>1 DEF Halves
  <2> QED BY <1>9, <2>2, <2>3, <2>4
<1>15. ASSUME NEW d, Meets(d, k) PROVE IsInjective(d) <=> Distinct(d, k)
  <2>1. PICK a, b : Halves(LE, RE, s, e, l, r, d, a, b) BY <1>7, <1>15
  <2>2. DOMAIN d = 1 .. k
    <3>1. l + r - 1 = k BY <1>6
    <3> QED BY <2>1, <3>1 DEF Halves, Spliced
  <2> QED BY <2>2 DEF IsInjective, Distinct
<1> QED BY <1>13, <1>14, <1>15

(* The two sides of MeetingsFound. *)
MeetingLengths == {n \in 2 .. (2 * query.depth - 2) : Meetings(n) # {}}
Least(lengths) == CHOOSE n \in lengths : \A m \in lengths : n <= m
NearestMeetings == IF MeetingLengths = {} THEN {} ELSE Meetings(Least(MeetingLengths))

LEMMA LeastIs ==
    ASSUME NEW lengths \in SUBSET Nat, NEW n \in lengths, \A m \in lengths : n <= m
    PROVE  Least(lengths) = n
<1>1. \A m \in lengths : (\A x \in lengths : m <= x) => m = n OBVIOUS
<1> QED BY <1>1 DEF Least

LEMMA AnswersAreNearest ==
    ASSUME Exhaustive, Answered
    PROVE  {Dsts(p) : p \in answer} =
               (IF \E d \in NearestMeetings : IsInjective(d) THEN {d \in NearestMeetings : IsInjective(d)}
                ELSE NearestMeetings)
<1>1. PICK depth \in Nat \ {0} : depth = query.depth BY QueryIs DEF Exhaustive
<1>2. ASSUME NEW n \in 2 .. (2 * depth - 2)
      PROVE  /\ n - 1 \in 1 .. (2 * depth - 3)
             /\ \A d : /\ d \in Meetings(n) <=> Meets(d, n - 1)
                       /\ Meets(d, n - 1) => (IsInjective(d) <=> Distinct(d, n - 1))
  <2>1. PICK k \in Nat \ {0} : n = k + 1 /\ k = n - 1 /\ k \in 1 .. (2 * depth - 3) BY <1>1
  <2> QED BY <2>1, MeetingsAsked
<1>3. \A n : n \in MeetingLengths <=> n \in 2 .. (2 * depth - 2) /\ \E d : Meets(d, n - 1)
  BY <1>1, <1>2 DEF MeetingLengths
<1>4. CASE answer = {} /\ NoneUpTo(2 * query.depth - 3)
  <2>1. MeetingLengths = {} BY <1>1, <1>2, <1>3, <1>4 DEF NoneUpTo
  <2>2. {Dsts(p) : p \in answer} = {} BY <1>4
  <2> QED BY <2>1, <2>2 DEF NearestMeetings
<1>5. ASSUME NEW k \in 1 .. (2 * query.depth - 3), MeetsFirst(k)
      PROVE  {Dsts(p) : p \in answer} =
                 (IF \E d \in NearestMeetings : IsInjective(d) THEN {d \in NearestMeetings : IsInjective(d)}
                  ELSE NearestMeetings)
  <2>1. PICK n \in 2 .. (2 * depth - 2) : n = k + 1 /\ n - 1 = k BY <1>1, <1>5
  <2>2. n \in MeetingLengths BY <1>3, <1>5, <2>1 DEF MeetsFirst
  <2>3. ASSUME NEW m \in MeetingLengths PROVE n <= m
    <3>1. m \in 2 .. (2 * depth - 2) /\ \E d : Meets(d, m - 1) BY <1>3
    <3>2. m - 1 \notin 1 .. (k - 1) BY <1>5, <3>1 DEF MeetsFirst, NoneUpTo
    <3> QED BY <2>1, <3>1, <3>2
  <2>4. MeetingLengths \subseteq Nat BY <1>1, <1>3
  <2>5. Least(MeetingLengths) = n BY <2>2, <2>3, <2>4, LeastIs
  <2>6. NearestMeetings = Meetings(n) BY <2>2, <2>5 DEF NearestMeetings
  <2>7. PICK near : near = NearestMeetings OBVIOUS
  <2>8. \A d : /\ d \in near <=> Meets(d, k)
               /\ Meets(d, k) => (IsInjective(d) <=> Distinct(d, k))
    BY <1>2, <2>1, <2>6, <2>7
  <2>9. \A d : (\E p \in answer : Dsts(p) = d) <=> Chosen(d, k) BY <1>5 DEF MeetsFirst
  <2>10. \A d : d \in {Dsts(p) : p \in answer} <=> Chosen(d, k) BY <2>9
  <2>11. \A d : Chosen(d, k) <=> d \in near /\ (IsInjective(d) \/ \A c \in near : ~IsInjective(c))
    BY <2>8 DEF Chosen
  <2>12. {Dsts(p) : p \in answer} =
             (IF \E d \in near : IsInjective(d) THEN {d \in near : IsInjective(d)} ELSE near)
    BY <2>10, <2>11
  <2> QED BY <2>7, <2>12
<1> QED BY <1>4, <1>5 DEF Answered

LEMMA AskedForAll ==
    ASSUME SearchInv, job = "done", query.kind = "paths", query.mindepth = 0, Untruncated
    PROVE  Exhaustive
BY DEF Exhaustive, Untruncated, SearchInv

(* Asked for more than zero solutions, a search between two nodes that is  *)
(* not cut off answers, in every graph, with the shortest meetings of      *)
(* walks over its left links from the start with walks over its right      *)
(* links from the end that its depth allows: the waves miss none by the    *)
(* order of their turns, and loops are answered only where no meeting of   *)
(* that length visits every node once.                                     *)
THEOREM WavesMeetNearest == PathsSpec => []MeetingsFound
<1>1. SearchInv /\ WavesInv => MeetingsFound
  <2>1. ASSUME SearchInv, WavesInv, job = "done", query.kind = "paths", query.mindepth = 0, Untruncated
        PROVE  {Dsts(p) : p \in answer} =
                   (IF \E d \in NearestMeetings : IsInjective(d)
                    THEN {d \in NearestMeetings : IsInjective(d)} ELSE NearestMeetings)
    <3>1. Exhaustive BY <2>1, AskedForAll
    <3>2. Answered BY <2>1, <3>1 DEF WavesInv
    <3> QED BY <3>1, <3>2, AnswersAreNearest
  <2>2. Nearest(Meetings) = NearestMeetings BY DEF Nearest, NearestMeetings, MeetingLengths, Least
  <2> QED BY <2>1, <2>2 DEF MeetingsFound
<1> QED BY <1>1, SearchInvariant, WavesInvariant, PTL

-----------------------------------------------------------------------------
(* Shortest walks: where every link has its inverse, the right wave sees   *)
(* the links of the left one from the other side.                          *)
Leads(E, n, m, d, k) == Course(E, n, d, k) /\ <<d[k], m>> \in E

(* What lies between two visits of a node can be left out. *)
LEMMA CutOut ==
    ASSUME NEW E, NEW n, NEW m, NEW k \in Nat \ {0}, NEW d, Leads(E, n, m, d, k),
           NEW a \in 1 .. k, NEW b \in 1 .. k, a < b, d[a] = d[b]
    PROVE  \E c \in 1 .. (k - 1) : \E f : Leads(E, n, m, f, c)
<1>1. PICK w \in Nat : w = b - a OBVIOUS
<1>2. PICK c \in 1 .. (k - 1) : c = k - w /\ a <= c BY <1>1
<1> DEFINE f == [i \in 1 .. c |-> IF i <= a THEN d[i] ELSE d[i + w]]
<1>3. /\ \A i \in 1 .. c : i <= a => f[i] = d[i]
      /\ \A i \in 1 .. c : i >= a => f[i] = d[i + w]
  <2>1. f[a] = d[a] /\ d[a] = d[a + w] BY <1>1, <1>2
  <2>2. \A i \in 1 .. c : i >= a => i = a \/ ~(i <= a) OBVIOUS
  <2> QED BY <2>1, <2>2
<1>4. f \in [1 .. c -> NodePtrs]
  <2>1. \A i \in 1 .. c : i \in 1 .. k /\ i + w \in 1 .. k BY <1>1, <1>2
  <2>2. \A i \in 1 .. c : d[i] \in NodePtrs /\ d[i + w] \in NodePtrs BY <2>1 DEF Leads, Course
  <2> QED BY <2>2
<1> HIDE DEF f
<1>5. <<n, f[1]>> \in E
  <2>1. 1 \in 1 .. c /\ 1 <= a BY <1>2
  <2> QED BY <1>3, <2>1 DEF Leads, Course
<1>6. ASSUME NEW i \in 1 .. (c - 1) PROVE <<f[i], f[i + 1]>> \in E
  <2>1. CASE i < a
    <3>1. i \in 1 .. c /\ i + 1 \in 1 .. c /\ i + 1 <= a /\ i <= a /\ i \in 1 .. (k - 1) BY <1>2, <2>1
    <3>2. f[i] = d[i] /\ f[i + 1] = d[i + 1] BY <1>3, <3>1
    <3> QED BY <3>1, <3>2 DEF Leads, Course
  <2>2. CASE i >= a
    <3>1. i \in 1 .. c /\ i + 1 \in 1 .. c /\ i + 1 >= a /\ i + w \in 1 .. (k - 1) /\ (i + 1) + w = (i + w) + 1
      BY <1>1, <1>2, <2>2
    <3>2. f[i] = d[i + w] /\ f[i + 1] = d[(i + w) + 1] BY <1>3, <2>2, <3>1
    <3> QED BY <3>1, <3>2 DEF Leads, Course
  <2> QED BY <1>2, <2>1, <2>2
<1>7. <<f[c], m>> \in E
  <2>1. c \in 1 .. c /\ c >= a /\ c + w = k BY <1>1, <1>2
  <2> QED BY <1>3, <2>1 DEF Leads
<1> QED BY <1>4, <1>5, <1>6, <1>7 DEF Leads, Course

(* A walk that visits a node twice is longer than one that does not. *)
LEMMA Shortcut ==
    ASSUME NEW E, NEW n, NEW m, NEW k \in Nat \ {0}, NEW d, Leads(E, n, m, d, k), ~Distinct(d, k)
    PROVE  \E c \in 1 .. (k - 1) : \E f : Leads(E, n, m, f, c) /\ Distinct(f, c)
<1> DEFINE S == {c \in Nat : c # 0 /\ \E f : Leads(E, n, m, f, c)}
<1>1. ASSUME NEW c \in Nat \ {0}, NEW f, Leads(E, n, m, f, c), ~Distinct(f, c)
      PROVE  \E x \in S : x < c
  <2>1. PICK i \in 1 .. c, j \in 1 .. c : f[i] = f[j] /\ i # j BY <1>1 DEF Distinct
  <2>2. i < j \/ j < i BY <2>1
  <2>3. PICK x \in 1 .. (c - 1) : \E g : Leads(E, n, m, g, x) BY <1>1, <2>1, <2>2, CutOut
  <2>4. x \in Nat /\ x # 0 /\ x < c OBVIOUS
  <2> QED BY <2>3, <2>4
<1>2. PICK x \in S : x < k BY <1>1
<1>3. PICK c \in S : \A y \in S : c <= y
  <2>1. S \in SUBSET Nat /\ S # {} BY <1>2
  <2> HIDE DEF S
  <2> QED BY <2>1, LeastNatural
<1>4. PICK f : Leads(E, n, m, f, c) BY <1>3
<1>5. c \in Nat \ {0} /\ x \in Nat /\ c <= x BY <1>2, <1>3
<1>6. Distinct(f, c)
  <2>1. SUFFICES ASSUME ~Distinct(f, c) PROVE FALSE OBVIOUS
  <2>2. PICK y \in S : y < c BY <1>1, <1>4, <1>5, <2>1
  <2>3. y \in Nat BY <2>2
  <2> HIDE DEF S
  <2> QED BY <1>3, <1>5, <2>2, <2>3
<1>7. c \in 1 .. (k - 1) BY <1>2, <1>5
<1> QED BY <1>4, <1>6, <1>7


(* The links of one side are those of the other, seen from where they lead *)
(* to, but for those that lead nowhere.                                    *)
Opposite(L, R) ==
    /\ \A x, y \in NodePtrs : <<y, x>> \in R => <<x, y>> \in L
    /\ \A x, y \in NodePtrs : <<x, y>> \in L /\ y # Nowhere => <<y, x>> \in R
    /\ \A y \in NodePtrs : <<Nowhere, y>> \notin L

LEMMA MeetingPasses ==
    ASSUME NEW L, NEW R, Opposite(L, R), NEW n \in NodePtrs, NEW m \in NodePtrs,
           NEW l \in Nat \ {0}, NEW r \in Nat \ {0},
           NEW a, NEW b, Course(L, n, a, l), Course(R, m, b, r), a[l] = b[r]
    PROVE  Leads(L, n, m, Spliced(a, b, l, r), l + r - 1)
<1> DEFINE h == Spliced(a, b, l, r)
<1>1. PICK k \in Nat \ {0} : k = l + r - 1 OBVIOUS
<1>2. /\ \A i \in 1 .. k : i <= l => h[i] = a[i]
      /\ \A i \in 1 .. k : i >= l => h[i] = b[l + r - i]
  <2>1. l \in 1 .. k /\ l + r - l = r BY <1>1
  <2>2. h[l] = a[l] BY <1>1, <2>1 DEF Spliced
  <2>3. \A i \in 1 .. k : i >= l => i = l \/ ~(i <= l) OBVIOUS
  <2> QED BY <1>1, <2>1, <2>2, <2>3 DEF Spliced
<1>3. h \in [1 .. k -> NodePtrs]
  <2>1. \A i \in 1 .. k : (i <= l => i \in 1 .. l) /\ (~(i <= l) => l + r - i \in 1 .. r) BY <1>1
  <2> QED BY <1>1, <2>1 DEF Spliced, Course
<1> HIDE DEF h
<1>4. <<n, h[1]>> \in L
  <2>1. 1 \in 1 .. k /\ 1 <= l OBVIOUS
  <2> QED BY <1>2, <2>1 DEF Course
<1>5. ASSUME NEW i \in 1 .. (k - 1) PROVE <<h[i], h[i + 1]>> \in L
  <2>1. CASE i < l
    <3>1. i \in 1 .. k /\ i + 1 \in 1 .. k /\ i <= l /\ i + 1 <= l /\ i \in 1 .. (l - 1) BY <2>1
    <3> QED BY <1>2, <3>1 DEF Course
  <2>2. CASE i >= l
    <3>1. PICK j \in 1 .. (r - 1) : j = l + r - (i + 1) BY <1>1, <2>2
    <3>2. i \in 1 .. k /\ i + 1 \in 1 .. k /\ i + 1 >= l /\ l + r - i = j + 1 BY <1>1, <2>2, <3>1
    <3>3. h[i] = b[j + 1] /\ h[i + 1] = b[j] BY <1>2, <2>2, <3>1, <3>2
    <3>4. <<b[j], b[j + 1]>> \in R /\ j \in 1 .. r /\ j + 1 \in 1 .. r BY <3>1 DEF Course
    <3>5. b[j] \in NodePtrs /\ b[j + 1] \in NodePtrs BY <3>4 DEF Course
    <3> QED BY <3>3, <3>4, <3>5 DEF Opposite
  <2> QED BY <2>1, <2>2
<1>6. <<h[k], m>> \in L
  <2>1. k \in 1 .. k /\ k >= l /\ l + r - k = 1 /\ 1 \in 1 .. r BY <1>1
  <2>2. h[k] = b[1] BY <1>2, <2>1
  <2>3. <<m, b[1]>> \in R /\ b[1] \in NodePtrs BY <2>1 DEF Course
  <2> QED BY <2>2, <2>3 DEF Opposite
<1>7. Leads(L, n, m, h, k) BY <1>3, <1>4, <1>5, <1>6 DEF Leads, Course
<1> QED BY <1>1, <1>7 DEF h


(* Every walk to the end is a meeting of the two. *)
LEMMA PassingMeets ==
    ASSUME NEW L, NEW R, Opposite(L, R), NEW n \in NodePtrs, NEW m \in NodePtrs, m # Nowhere,
           NEW l \in Nat \ {0}, NEW r \in Nat \ {0},
           NEW h, Leads(L, n, m, h, l + r - 1), Distinct(h, l + r - 1)
    PROVE  \E a, b : Halves(L, R, n, m, l, r, h, a, b)
<1>1. PICK k \in Nat \ {0} : k = l + r - 1 OBVIOUS
<1> DEFINE a == [i \in 1 .. l |-> h[i]]
           b == [i \in 1 .. r |-> h[l + r - i]]
<1>2. h \in [1 .. k -> NodePtrs] /\ Leads(L, n, m, h, k) /\ Distinct(h, k)
  BY <1>1 DEF Leads, Course
<1>3. /\ \A i \in 1 .. l : i \in 1 .. k
      /\ \A i \in 1 .. r : l + r - i \in 1 .. k
  BY <1>1
<1>4. \A i \in 1 .. l : a[i] = h[i] OBVIOUS
<1>5. \A i \in 1 .. r : b[i] = h[l + r - i] OBVIOUS
<1>6. a \in [1 .. l -> NodePtrs] /\ b \in [1 .. r -> NodePtrs] BY <1>2, <1>3
<1>7. h = Spliced(a, b, l, r)
  <2>1. \A i \in 1 .. k : (i <= l => i \in 1 .. l) /\ (~(i <= l) => l + r - i \in 1 .. r /\ l + r - (l + r - i) = i)
    BY <1>1
  <2>2. \A i \in 1 .. k : h[i] = IF i <= l THEN a[i] ELSE b[l + r - i]
    <3> HIDE DEF a, b
    <3> QED BY <1>4, <1>5, <2>1
  <2> HIDE DEF a, b
  <2>3. h = [i \in 1 .. k |-> h[i]] BY <1>2
  <2> QED BY <1>1, <2>2, <2>3 DEF Spliced
<1> HIDE DEF a, b
<1>8. /\ \A i \in 1 .. k : h[i] # Nowhere
      /\ \A i \in 1 .. (k - 1) : <<h[i + 1], h[i]>> \in R
      /\ <<m, h[k]>> \in R
  <2>1. \A i \in 1 .. k : i \in 1 .. (k - 1) \/ i = k OBVIOUS
  <2>2. \A i \in 1 .. (k - 1) : /\ <<h[i], h[i + 1]>> \in L
                                /\ h[i] \in NodePtrs /\ h[i + 1] \in NodePtrs /\ i + 1 \in 1 .. k
    <3>1. \A i \in 1 .. (k - 1) : i \in 1 .. k /\ i + 1 \in 1 .. k OBVIOUS
    <3> QED BY <1>2, <3>1 DEF Leads, Course
  <2>3. <<h[k], m>> \in L /\ h[k] \in NodePtrs BY <1>2 DEF Leads
  <2>4. \A i \in 1 .. k : h[i] # Nowhere BY <2>1, <2>2, <2>3 DEF Opposite
  <2> QED BY <2>2, <2>3, <2>4 DEF Opposite
<1>9. Course(L, n, a, l) /\ Distinct(a, l)
  <2>1. 1 \in 1 .. l /\ \A i \in 1 .. (l - 1) : i \in 1 .. l /\ i + 1 \in 1 .. l /\ i \in 1 .. (k - 1)
    BY <1>1
  <2>2. <<n, a[1]>> \in L BY <1>2, <1>4, <2>1 DEF Leads, Course
  <2>3. \A i \in 1 .. (l - 1) : <<a[i], a[i + 1]>> \in L BY <1>2, <1>4, <2>1 DEF Leads, Course
  <2>4. Distinct(a, l) BY <1>2, <1>3, <1>4 DEF Distinct
  <2> QED BY <1>6, <2>2, <2>3, <2>4 DEF Course
<1>10. Course(R, m, b, r) /\ Distinct(b, r)
  <2>1. 1 \in 1 .. r /\ l + r - 1 = k /\ b[1] = h[k] BY <1>1, <1>5
  <2>2. ASSUME NEW i \in 1 .. (r - 1) PROVE <<b[i], b[i + 1]>> \in R
    <3>1. PICK j \in 1 .. (k - 1) : j = l + r - (i + 1) BY <1>1
    <3>2. i \in 1 .. r /\ i + 1 \in 1 .. r /\ l + r - i = j + 1 BY <3>1
    <3>3. b[i] = h[j + 1] /\ b[i + 1] = h[j] BY <1>5, <3>1, <3>2
    <3> QED BY <1>8, <3>3
  <2>3. ASSUME NEW i \in 1 .. r, NEW j \in 1 .. r, b[i] = b[j] PROVE i = j
    <3>1. h[l + r - i] = h[l + r - j] BY <1>5, <2>3
    <3>2. l + r - i = l + r - j BY <1>2, <1>3, <3>1 DEF Distinct
    <3> QED BY <3>2
  <2>4. Distinct(b, r) BY <2>3 DEF Distinct
  <2> QED BY <1>6, <1>8, <2>1, <2>2, <2>4 DEF Course
<1>11. a[l] = b[r]
  <2>1. l \in 1 .. l /\ r \in 1 .. r /\ l + r - r = l OBVIOUS
  <2>2. b[r] = h[l] BY <1>5, <2>1
  <2> QED BY <1>4, <2>1, <2>2
<1> QED BY <1>7, <1>9, <1>10, <1>11 DEF Halves


LEMMA OppositeSides ==
    ASSUME I \in Graphs, query \in Queries, Reversible
    PROVE  Opposite(Edges(LeftTypes, LeftArrows), Edges(RightTypes, RightArrows))
<1> DEFINE L == Edges(LeftTypes, LeftArrows)
           R == Edges(RightTypes, RightArrows)
<1>1. /\ LeftTypes \in Seq(STTypes) /\ RightTypes \in Seq(STTypes)
      /\ LeftArrows \in SUBSET Arrows /\ RightArrows \in SUBSET Arrows
  BY SearchTypes
<1>2. RightTypes = AdjointSTtype(LeftTypes) /\ RightArrows = AdjointArrows(LeftArrows)
  BY DEF RightTypes, RightArrows, LeftArrows
<1>3. LeftTypes = AdjointSTtype(RightTypes) /\ LeftArrows = AdjointArrows(RightArrows)
  <2>1. PICK sts \in Seq(STTypes), k \in Nat : sts = LeftTypes /\ k = Len(sts) BY <1>1
  <2>2. RightTypes = [i \in 1 .. k |-> -sts[k + 1 - i]] BY <1>2, <2>1 DEF AdjointSTtype
  <2>3. PICK adj : adj = RightTypes OBVIOUS
  <2>4. adj \in Seq(STTypes) BY <1>1, <2>3
  <2>5. DOMAIN adj = 1 .. k /\ Len(adj) = k BY <2>2, <2>3, <2>4
  <2>6. AdjointSTtype(adj) = [i \in 1 .. k |-> -adj[k + 1 - i]] BY <2>5 DEF AdjointSTtype
  <2>7. ASSUME NEW i \in 1 .. k PROVE -adj[k + 1 - i] = sts[i]
    <3>1. k + 1 - i \in 1 .. k /\ k + 1 - (k + 1 - i) = i OBVIOUS
    <3>2. adj[k + 1 - i] = -sts[i] BY <2>2, <2>3, <3>1
    <3>3. sts[i] \in Int BY <2>1 DEF STTypes
    <3> QED BY <3>2, <3>3
  <2>8. sts = [i \in 1 .. k |-> sts[i]] BY <2>1
  <2>9. AdjointSTtype(adj) = sts BY <2>6, <2>7, <2>8
  <2>10. AdjointArrows(AdjointArrows(LeftArrows)) = LeftArrows
    <3>1. \A a \in LeftArrows : INVERSE_ARROWS[INVERSE_ARROWS[a]] = a BY <1>1, PathsAssumption
    <3> QED BY <3>1 DEF AdjointArrows
  <2> QED BY <1>2, <2>1, <2>3, <2>9, <2>10
<1>4. ASSUME NEW x \in NodePtrs, NEW y \in NodePtrs, <<y, x>> \in R PROVE <<x, y>> \in L
  <2>1. PICK l : Holds(LinksOf(y, RightTypes, RightArrows), l) /\ x = l.dst BY <1>1, <1>4, EdgesAre
  <2>2. x \in Hops(y, RightTypes, RightArrows) BY <1>1, <1>4, EdgesAre
  <2>3. l # EmptyLink BY <2>1, <2>2 DEF Reversible, EmptyLink
  <2>4. PICK back : back = [arr |-> INVERSE_ARROWS[l.arr], dst |-> y] OBVIOUS
  <2>5. Holds(LinksOf(l.dst, LeftTypes, LeftArrows), back)
    BY <1>1, <1>2, <2>1, <2>3, <2>4, InverseLinks
  <2>6. back.dst = y BY <2>4
  <2> QED BY <1>1, <2>1, <2>5, <2>6, EdgesAre
<1>5. ASSUME NEW x \in NodePtrs, NEW y \in NodePtrs, <<x, y>> \in L, y # Nowhere PROVE <<y, x>> \in R
  <2>1. PICK l : Holds(LinksOf(x, LeftTypes, LeftArrows), l) /\ y = l.dst BY <1>1, <1>5, EdgesAre
  <2>2. l # EmptyLink BY <1>5, <2>1 DEF EmptyLink
  <2>3. PICK back : back = [arr |-> INVERSE_ARROWS[l.arr], dst |-> x] OBVIOUS
  <2>4. Holds(LinksOf(l.dst, RightTypes, RightArrows), back)
    BY <1>1, <1>3, <2>1, <2>2, <2>3, InverseLinks
  <2>5. back.dst = x BY <2>3
  <2> QED BY <1>1, <2>1, <2>4, <2>5, EdgesAre
<1>6. ASSUME NEW y \in NodePtrs, <<Nowhere, y>> \in L PROVE FALSE
  <2>1. Nowhere \in NodePtrs BY PathsAssumption
  <2>2. PICK l : Holds(LinksOf(Nowhere, LeftTypes, LeftArrows), l) BY <1>1, <1>6, <2>1, EdgesAre
  <2>3. PICK k \in 1 .. Len(LeftTypes) : Holds(I[Nowhere][LeftTypes[k]], l)
    BY <1>1, <2>1, <2>2, LinksOfElements
  <2>4. LeftTypes[k] \in STTypes BY <1>1
  <2>5. I[Nowhere][LeftTypes[k]] = <<>> BY <2>4, GraphsAssumption
  <2>6. Len(<<>>) = 0 OBVIOUS
  <2> QED BY <2>3, <2>5, <2>6 DEF Holds
<1> HIDE DEF L, R
<1>7. Opposite(L, R) BY <1>4, <1>5, <1>6 DEF Opposite
<1> QED BY <1>7 DEF L, R


(* The walks between the ends of the query, by the nodes they visit. *)
Route(d, k) == Leads(Edges(LeftTypes, LeftArrows), query.starts[1], query.ends[1], d, k)
Simple(d, k) == Route(d, k) /\ Distinct(d, k)

LEMMA RoutesMeet ==
    ASSUME Exhaustive, Reversible, NEW k \in Nat \ {0}
    PROVE  \A d : /\ Meets(d, k) => Route(d, k)
                  /\ Simple(d, k) => Meets(d, k)
<1>1. PICK s \in NodePtrs, e \in NodePtrs : s = query.starts[1] /\ e = query.ends[1] /\ e # Nowhere
  <2>1. query.starts[1] \in NodePtrs /\ query.ends[1] \in NodePtrs /\ ToSet(query.ends) = {query.ends[1]}
    BY EndsAre
  <2> QED BY <2>1 DEF Reversible
<1>2. PICK LE, RE : LE = Edges(LeftTypes, LeftArrows) /\ RE = Edges(RightTypes, RightArrows) OBVIOUS
<1>3. Opposite(LE, RE) BY <1>2, OppositeSides DEF Exhaustive
<1>4. ASSUME NEW d, Meets(d, k) PROVE Route(d, k)
  <2>1. PICK l \in Nat \ {0}, r \in Nat \ {0} :
            l + r = k + 1 /\ \E a, b : Halves(LE, RE, s, e, l, r, d, a, b)
    BY <1>1, <1>2, <1>4 DEF Meets
  <2>2. PICK a, b : Halves(LE, RE, s, e, l, r, d, a, b) BY <2>1
  <2>3. Course(LE, s, a, l) /\ Course(RE, e, b, r) /\ a[l] = b[r] /\ d = Spliced(a, b, l, r)
    BY <2>2 DEF Halves
  <2>4. Leads(LE, s, e, Spliced(a, b, l, r), l + r - 1) BY <1>1, <1>3, <2>3, MeetingPasses
  <2>5. l + r - 1 = k BY <2>1
  <2> QED BY <1>1, <1>2, <2>3, <2>4, <2>5 DEF Route
<1>5. ASSUME NEW d, Simple(d, k) PROVE Meets(d, k)
  <2>1. PICK l \in Nat \ {0}, r \in Nat \ {0} : l + r = k + 1 /\ l \in {r, r + 1} /\ l + r - 1 = k
    <3>1. (k + 2) \div 2 \in Nat \ {0} /\ (k + 1) \div 2 \in Nat \ {0} OBVIOUS
    <3>2. (k + 2) \div 2 + (k + 1) \div 2 = k + 1 OBVIOUS
    <3>3. (k + 2) \div 2 \in {(k + 1) \div 2, (k + 1) \div 2 + 1} OBVIOUS
    <3> QED BY <3>1, <3>2, <3>3
  <2>2. Leads(LE, s, e, d, l + r - 1) /\ Distinct(d, l + r - 1)
    BY <1>1, <1>2, <1>5, <2>1 DEF Simple, Route
  <2>3. \E a, b : Halves(LE, RE, s, e, l, r, d, a, b) BY <1>1, <1>3, <2>2, PassingMeets
  <2> QED BY <1>1, <1>2, <2>1, <2>3 DEF Meets
<1> QED BY <1>4, <1>5

LEMMA InteriorsAre ==
    ASSUME Exhaustive, NEW k \in Nat \ {0}
    PROVE  \A d : d \in Interiors(k + 1) <=> Simple(d, k)
<1>1. PICK s \in NodePtrs, e \in NodePtrs :
          /\ s = query.starts[1] /\ e = query.ends[1]
          /\ ToSet(query.starts) = {s} /\ ToSet(query.ends) = {e}
  BY EndsAre
<1>2. I \in Graphs /\ LeftTypes \in Seq(STTypes) BY SearchTypes DEF Exhaustive
<1>3. PICK sts \in Seq(STTypes) : sts = LeftTypes BY <1>2
<1>4. PICK arrows, E : arrows = LeftArrows /\ E = Edges(sts, arrows) OBVIOUS
<1>5. ASSUME NEW w PROVE w \in Trails(s, k, sts, arrows) <=>
                             Walk(w, s, sts, arrows) /\ NoRepeat(w) /\ Len(w) = k
  <2>1. w \in Trails(s, k, sts, arrows) <=> Trail(w, s, sts, arrows) /\ Len(w) = k
    BY <1>2, TrailsAre
  <2>2. Len(w) = k => w # <<>> OBVIOUS
  <2> QED BY <2>1, <2>2 DEF Trail, Walk
<1>6. ASSUME NEW w, Walk(w, s, sts, arrows), Len(w) = k
      PROVE  /\ Course(E, s, Dsts(w), k) /\ (NoRepeat(w) <=> Distinct(Dsts(w), k))
             /\ e \in Hops(Tip(w), sts, arrows) <=> <<Dsts(w)[k], e>> \in E
  <2>1. PICK v \in Seq(Link) : v = w /\ v # <<>> /\ Len(v) = k BY <1>6 DEF Walk
  <2>2. Course(E, s, Dsts(w), k) BY <1>2, <1>4, <1>6, WalkIsCourse
  <2>3. NoRepeat(v) <=> Distinct(Dsts(v), k) BY <2>1, DstsAre
  <2>4. PICK m \in NodePtrs : m = Tip(v) /\ m = Dsts(v)[k]
    <3>1. Tip(v) \in NodePtrs /\ Tip(v) = v[k].dst BY <2>1, TipIsNode
    <3>2. k \in 1 .. k OBVIOUS
    <3>3. Dsts(v)[k] = v[k].dst BY <2>1, <3>2, DstsAre
    <3> QED BY <3>1, <3>3
  <2>5. e \in Hops(m, sts, arrows) <=> <<m, e>> \in E BY <1>2, <1>4, EdgesAre
  <2> QED BY <2>1, <2>2, <2>3, <2>4, <2>5
<1>7. ASSUME NEW d
      PROVE  d \in Interiors(k + 1) <=>
                 \E w \in Trails(s, k, sts, arrows) : e \in Hops(Tip(w), sts, arrows) /\ d = Dsts(w)
  <2>1. (k + 1) - 1 = k OBVIOUS
  <2>2. UNION {Trails(t, k, sts, arrows) : t \in {s}} = Trails(s, k, sts, arrows) OBVIOUS
  <2>3. Interiors(k + 1) =
            {Dsts(w) : w \in {v \in Trails(s, k, sts, arrows) : {e} \cap Hops(Tip(v), sts, arrows) # {}}}
    BY <1>1, <1>3, <1>4, <2>1, <2>2 DEF Interiors
  <2> QED BY <2>3
<1>8. ASSUME NEW d PROVE Simple(d, k) <=> Course(E, s, d, k) /\ <<d[k], e>> \in E /\ Distinct(d, k)
  BY <1>1, <1>3, <1>4 DEF Simple, Route, Leads
<1>9. ASSUME NEW d, d \in Interiors(k + 1) PROVE Simple(d, k)
  <2>1. PICK w \in Trails(s, k, sts, arrows) : e \in Hops(Tip(w), sts, arrows) /\ d = Dsts(w)
    BY <1>7, <1>9
  <2>2. Walk(w, s, sts, arrows) /\ NoRepeat(w) /\ Len(w) = k BY <1>5
  <2> QED BY <1>6, <1>8, <2>1, <2>2
<1>10. ASSUME NEW d, Simple(d, k) PROVE d \in Interiors(k + 1)
  <2>1. Course(E, s, d, k) /\ <<d[k], e>> \in E /\ Distinct(d, k) BY <1>8, <1>10
  <2>2. PICK w : Walk(w, s, sts, arrows) /\ Len(w) = k /\ Dsts(w) = d
    BY <1>2, <1>4, <2>1, CourseIsWalk
  <2>3. NoRepeat(w) /\ e \in Hops(Tip(w), sts, arrows) BY <1>6, <2>1, <2>2
  <2>4. w \in Trails(s, k, sts, arrows) BY <1>5, <2>2, <2>3
  <2> QED BY <1>7, <2>2, <2>3, <2>4
<1> QED BY <1>9, <1>10

(* The two sides of ShortestFound. *)
Lengths == {n \in 2 .. (2 * query.depth - 2) : Interiors(n) # {}}
ShortestWalks == IF Lengths = {} THEN {} ELSE Interiors(Least(Lengths))

(* The meetings the waves find first are then walks, and each is straight: *)
(* a loop could be cut out of one, and leave a shorter walk.               *)
LEMMA FirstAreSimple ==
    ASSUME Exhaustive, Reversible, NEW k \in Nat \ {0}, NoneUpTo(k - 1)
    PROVE  /\ \A c \in 1 .. (k - 1) : \A d : ~Simple(d, c)
           /\ \A d : Simple(d, k) <=> Meets(d, k)
           /\ \A d : Meets(d, k) => Distinct(d, k)
<1>1. \A c \in 1 .. (k - 1) : \A d : ~Simple(d, c)
  <2>1. \A c \in 1 .. (k - 1) : c \in Nat \ {0} OBVIOUS
  <2> QED BY <2>1, RoutesMeet DEF NoneUpTo
<1>2. ASSUME NEW d, Meets(d, k), ~Distinct(d, k) PROVE FALSE
  <2>1. Route(d, k) BY <1>2, RoutesMeet
  <2>2. PICK E, n, m : E = Edges(LeftTypes, LeftArrows) /\ n = query.starts[1] /\ m = query.ends[1] OBVIOUS
  <2>3. Leads(E, n, m, d, k) BY <2>1, <2>2 DEF Route
  <2>4. PICK c \in 1 .. (k - 1) : \E f : Leads(E, n, m, f, c) /\ Distinct(f, c) BY <1>2, <2>3, Shortcut
  <2>5. \E f : Simple(f, c) BY <2>2, <2>4 DEF Route, Simple
  <2> QED BY <1>1, <2>5
<1>3. \A d : Simple(d, k) <=> Meets(d, k) BY <1>2, RoutesMeet DEF Simple
<1> QED BY <1>1, <1>2, <1>3

LEMMA AnswersAreShortest ==
    ASSUME Exhaustive, Reversible, Answered
    PROVE  {Dsts(p) : p \in answer} = ShortestWalks
<1>1. PICK depth \in Nat \ {0} : depth = query.depth BY QueryIs DEF Exhaustive
<1>2. ASSUME NEW n \in 2 .. (2 * depth - 2)
      PROVE  /\ n - 1 \in 1 .. (2 * depth - 3)
             /\ \A d : d \in Interiors(n) <=> Simple(d, n - 1)
  <2>1. PICK k \in Nat \ {0} : n = k + 1 /\ k = n - 1 /\ k \in 1 .. (2 * depth - 3) BY <1>1
  <2> QED BY <2>1, InteriorsAre
<1>3. \A n : n \in Lengths <=> n \in 2 .. (2 * depth - 2) /\ \E d : Simple(d, n - 1)
  BY <1>1, <1>2 DEF Lengths
<1>4. CASE answer = {} /\ NoneUpTo(2 * query.depth - 3)
  <2>1. ASSUME NEW c \in 1 .. (2 * depth - 3), NEW d, Simple(d, c) PROVE FALSE
    <3>1. c \in Nat \ {0} BY <2>1
    <3>2. Meets(d, c) BY <2>1, <3>1, RoutesMeet
    <3> QED BY <1>1, <1>4, <2>1, <3>2 DEF NoneUpTo
  <2>2. Lengths = {} BY <1>2, <1>3, <2>1
  <2>3. {Dsts(p) : p \in answer} = {} BY <1>4
  <2> QED BY <2>2, <2>3 DEF ShortestWalks
<1>5. ASSUME NEW k \in 1 .. (2 * query.depth - 3), MeetsFirst(k)
      PROVE  {Dsts(p) : p \in answer} = ShortestWalks
  <2>1. PICK n \in 2 .. (2 * depth - 2) : n = k + 1 /\ n - 1 = k /\ k \in Nat \ {0} BY <1>1, <1>5
  <2>2. /\ \A c \in 1 .. (k - 1) : \A d : ~Simple(d, c)
        /\ \A d : Simple(d, k) <=> Meets(d, k)
        /\ \A d : Meets(d, k) => Distinct(d, k)
    BY <1>5, <2>1, FirstAreSimple DEF MeetsFirst
  <2>3. n \in Lengths BY <1>3, <1>5, <2>1, <2>2 DEF MeetsFirst
  <2>4. ASSUME NEW m \in Lengths PROVE n <= m
    <3>1. m \in 2 .. (2 * depth - 2) /\ \E d : Simple(d, m - 1) BY <1>3
    <3>2. m - 1 \notin 1 .. (k - 1) BY <2>2, <3>1
    <3> QED BY <2>1, <3>1, <3>2
  <2>5. Lengths \subseteq Nat BY <1>1, <1>3
  <2>6. Least(Lengths) = n BY <2>3, <2>4, <2>5, LeastIs
  <2>7. ShortestWalks = Interiors(n) BY <2>3, <2>6 DEF ShortestWalks
  <2>8. \A d : (\E p \in answer : Dsts(p) = d) <=> Simple(d, k) BY <1>5, <2>2 DEF MeetsFirst, Chosen
  <2>9. \A d : d \in Interiors(n) <=> \E p \in answer : Dsts(p) = d BY <1>2, <2>1, <2>8
  <2>10. {Dsts(p) : p \in answer} = Interiors(n) BY <2>9
  <2> QED BY <2>7, <2>10
<1> QED BY <1>4, <1>5 DEF Answered

(* Where every link was stored with its inverse, these are exactly the     *)
(* shortest walks of two links or more that the depth allows, and no loop  *)
(* is ever answered.  With links that closeness or a sequence inferred,    *)
(* which are stored alone, this may fail: a walk may be missed that ends   *)
(* in such links.                                                          *)
THEOREM WavesFindShortest == PathsSpec => []ShortestFound
<1>1. SearchInv /\ WavesInv => ShortestFound
  <2>1. ASSUME SearchInv, WavesInv, job = "done", query.kind = "paths", query.mindepth = 0,
               Untruncated, Reversible
        PROVE  {Dsts(p) : p \in answer} = ShortestWalks
    <3>1. Exhaustive BY <2>1, AskedForAll
    <3>2. Answered BY <2>1, <3>1 DEF WavesInv
    <3> QED BY <2>1, <3>1, <3>2, AnswersAreShortest
  <2>2. Nearest(Interiors) = ShortestWalks BY DEF Nearest, ShortestWalks, Lengths, Least
  <2> QED BY <2>1, <2>2 DEF ShortestFound
<1> QED BY <1>1, SearchInvariant, WavesInvariant, PTL

-----------------------------------------------------------------------------
(* Stories. *)

(* w is a walk from the opening whose links but the first have arrow a. *)
Axis(w, n, sts, a) == Walk(w, n, sts, {}) /\ \A i \in 2 .. Len(w) : w[i].arr = a

LEMMA CutIsAxis ==
    ASSUME NEW n, NEW sts, NEW a, NEW w, Walk(w, n, sts, {})
    PROVE  Axis(TruncatePathsByArrow(w, a), n, sts, a)
<1> DEFINE hops == {h \in 2 .. Len(w) : w[h].arr # a}
<1>1. CASE hops = {}
  <2>1. TruncatePathsByArrow(w, a) = w BY <1>1 DEF TruncatePathsByArrow
  <2> QED BY <1>1, <2>1 DEF Axis
<1>2. CASE hops # {}
  <2>1. hops \in SUBSET Nat OBVIOUS
  <2>2. PICK m \in hops : \A h \in hops : m <= h
    <3> HIDE DEF hops
    <3> QED BY <1>2, <2>1, LeastNatural
  <2>3. Min(hops) \in hops /\ \A h \in hops : Min(hops) <= h
    <3> HIDE DEF hops
    <3> QED BY <2>2 DEF Min
  <2>4. PICK k : k = Min(hops) - 1 OBVIOUS
  <2>5. k \in 1 .. Len(w) /\ \A h \in 2 .. k : h \notin hops /\ h \in 2 .. Len(w)
    <3>1. Len(w) \in Nat BY DEF Walk
    <3>2. PICK x \in 2 .. Len(w) : x = Min(hops) /\ \A h \in hops : x <= h BY <2>3
    <3>3. k = x - 1 BY <2>4, <3>2
    <3>4. \A h \in 2 .. k : ~(x <= h) BY <3>1, <3>3
    <3> HIDE DEF hops
    <3> QED BY <3>1, <3>2, <3>3, <3>4
  <2>6. TruncatePathsByArrow(w, a) = SubSeq(w, 1, k) BY <1>2, <2>4 DEF TruncatePathsByArrow
  <2>7. /\ Walk(SubSeq(w, 1, k), n, sts, {}) /\ Len(SubSeq(w, 1, k)) = k
        /\ \A i \in 1 .. k : SubSeq(w, 1, k)[i] = w[i]
    BY <2>5, WalkCut
  <2>8. ASSUME NEW i \in 2 .. k PROVE SubSeq(w, 1, k)[i].arr = a
    <3>1. i \in 1 .. k BY <2>5
    <3>2. w[i].arr = a BY <2>5
    <3> QED BY <2>7, <3>1, <3>2
  <2> QED BY <2>6, <2>7, <2>8 DEF Axis
<1> QED BY <1>1, <1>2

(* The number that picks the axis is that of a path. *)
Longest(cut) == FoldLeftDomain(LAMBDA m, i : IF Len(cut[i]) > m THEN i - 1 ELSE m, 1, cut)

LEMMA LongestIsPath ==
    ASSUME NEW n \in Nat, n >= 2, NEW cut, DOMAIN cut = 1 .. n
    PROVE  Longest(cut) + 1 \in 1 .. n
<1> DEFINE X == 0 .. (n - 1)
           F == [x \in X \X (1 .. n) |-> IF Len(cut[x[2]]) > x[1] THEN x[2] - 1 ELSE x[1]]
           id == [i \in DOMAIN cut |-> i]
           Def(g) == g = [s \in SUBSET DOMAIN id |->
                            IF s = {} THEN 1
                            ELSE LET x == Max(s)
                                 IN IF Len(cut[id[x]]) > g[s \ {x}] THEN id[x] - 1 ELSE g[s \ {x}]]
           iter == CHOOSE g : Def(g)
           q == [k \in 0 .. n |-> iter[1 .. k]]
<1>1. Longest(cut) = iter[DOMAIN id] BY Zenon DEF Longest, FoldLeftDomain, FoldLeft, MapThenFoldSet
<1>2. DOMAIN id = 1 .. n /\ \A i \in 1 .. n : id[i] = i OBVIOUS
<1> HIDE DEF id
<1>3. 1 \in X /\ F \in [X \X (1 .. n) -> X]
  <2>1. \A i \in 1 .. n : i - 1 \in X OBVIOUS
  <2> QED BY <2>1
<1>4. \A m \in X, i \in 1 .. n : F[m, i] = IF Len(cut[i]) > m THEN i - 1 ELSE m OBVIOUS
<1> HIDE DEF F, X
<1>5. PICK g \in [SUBSET (1 .. n) -> X] : IsFold(g, 1, n, F) BY <1>3, FoldExists
<1>6. Def(g)
  <2>1. ASSUME NEW s \in SUBSET (1 .. n), s # {}
        PROVE  g[s] = IF Len(cut[id[Max(s)]]) > g[s \ {Max(s)}] THEN id[Max(s)] - 1 ELSE g[s \ {Max(s)}]
    <3>1. g[s] = F[g[s \ {Max(s)}], Max(s)] BY <1>5, <2>1 DEF IsFold
    <3>2. s \ {Max(s)} \in SUBSET (1 .. n) /\ Max(s) \in 1 .. n BY <2>1, GreatestExists
    <3>3. g[s \ {Max(s)}] \in X BY <1>5, <3>2
    <3>4. PICK m \in X, i \in 1 .. n : m = g[s \ {Max(s)}] /\ i = Max(s) BY <3>2, <3>3
    <3>5. id[Max(s)] = i BY <1>2, <3>4
    <3>6. g[s] = IF Len(cut[i]) > m THEN i - 1 ELSE m BY <1>4, <3>1, <3>4
    <3> QED BY <3>4, <3>5, <3>6, Zenon
  <2>2. {} \in SUBSET (1 .. n) /\ g[{}] = 1 BY <1>5 DEF IsFold
  <2> QED BY <1>2, <1>5, <2>1, <2>2
<1>7. Def(iter)
  <2> HIDE DEF Def
  <2> QED BY <1>6
<1> HIDE DEF iter
<1>8. iter[1 .. 0] = 1
  <2>1. 1 .. 0 = {} /\ {} \in SUBSET (1 .. n) OBVIOUS
  <2> QED BY <1>2, <1>7, <2>1
<1>9. ASSUME NEW k \in 1 .. n
      PROVE  iter[1 .. k] = IF Len(cut[k]) > iter[1 .. (k - 1)] THEN k - 1 ELSE iter[1 .. (k - 1)]
  <2>1. 1 .. k \in SUBSET (1 .. n) /\ 1 .. k # {} /\ Max(1 .. k) = k
          /\ (1 .. k) \ {k} = 1 .. (k - 1)
    BY Intervals
  <2>2. id[k] = k BY <1>2
  <2>3. iter[1 .. k] = LET x == Max(1 .. k)
                       IN IF Len(cut[id[x]]) > iter[(1 .. k) \ {x}] THEN id[x] - 1
                          ELSE iter[(1 .. k) \ {x}]
    BY <1>2, <1>7, <2>1
  <2> QED BY <2>1, <2>2, <2>3, Zenon
<1>10. /\ q[0] = 1 /\ q[n] = Longest(cut)
       /\ \A k \in 1 .. n : q[k] = IF Len(cut[k]) > q[k - 1] THEN k - 1 ELSE q[k - 1]
  <2>1. 0 \in 0 .. n /\ n \in 0 .. n /\ \A k \in 1 .. n : k \in 0 .. n /\ k - 1 \in 0 .. n
    OBVIOUS
  <2>2. \A k \in 0 .. n : q[k] = iter[1 .. k] OBVIOUS
  <2> HIDE DEF q
  <2> QED BY <1>1, <1>2, <1>8, <1>9, <2>1, <2>2
<1> HIDE DEF q, Def
<1>11. Passes(q, 1, n, X, F)
  <2>1. ASSUME NEW k \in 1 .. n, q[k - 1] \in X PROVE q[k] = F[q[k - 1], k]
    <3>1. PICK m \in X : m = q[k - 1] BY <2>1
    <3>2. F[m, k] = IF Len(cut[k]) > m THEN k - 1 ELSE m BY <1>4
    <3>3. q[k] = IF Len(cut[k]) > q[k - 1] THEN k - 1 ELSE q[k - 1] BY <1>10
    <3> QED BY <3>1, <3>2, <3>3, Zenon
  <2> QED BY <1>10, <2>1 DEF Passes
<1>12. \A k \in 0 .. n : q[k] \in X BY <1>3, <1>11, PassesIsRun
<1>13. q[n] \in X
  <2>1. n \in 0 .. n OBVIOUS
  <2> QED BY <1>12, <2>1
<1>14. Longest(cut) \in 0 .. (n - 1)
  <2> QED BY <1>10, <1>13 DEF X
<1> QED
  <2> HIDE DEF Longest
  <2> QED BY <1>14

LEMMA LongestIsAxis ==
    ASSUME NEW n, NEW sts, NEW a, NEW k \in Nat, k >= 2, NEW paths, DOMAIN paths = 1 .. k,
           \A i \in 1 .. k : Walk(paths[i], n, sts, {})
    PROVE  LongestAxial(paths, a) = <<>> \/ Axis(LongestAxial(paths, a), n, sts, a)
<1> DEFINE cut == [i \in DOMAIN paths |-> TruncatePathsByArrow(paths[i], a)]
<1>1. LongestAxial(paths, a) = IF Len(cut[Longest(cut) + 1]) = 1 THEN <<>> ELSE cut[Longest(cut) + 1]
  BY Zenon DEF LongestAxial, Longest
<1>2. DOMAIN cut = 1 .. k /\ \A i \in 1 .. k : cut[i] = TruncatePathsByArrow(paths[i], a) OBVIOUS
<1> HIDE DEF cut
<1>3. PICK j \in 1 .. k : j = Longest(cut) + 1 BY <1>2, LongestIsPath
<1>4. Axis(cut[j], n, sts, a) BY <1>2, CutIsAxis
<1> QED BY <1>1, <1>3, <1>4, Zenon

(* The searches of GetNodeOrbit and GetLongestAxialPath are of kind "cone". *)
LEMMA StoryQuery ==
    ASSUME query \in Asked, ~Orbiting
    PROVE  /\ LeftTypes = query.sttypes /\ LeftArrows = {}
           /\ \A f : Ranges(query.sttypes, f) = query.sttypes
           /\ \A n \in ToSet(query.starts) : n = Start
<1>1. /\ query \in Queries /\ query.kind = "cone" /\ query.arrows = {}
      /\ Len(query.starts) = 1 /\ Len(query.sttypes) = 1
  BY DEF Asked, Orbiting
<1>2. query.sttypes # <<>> BY <1>1
<1>3. \A n \in ToSet(query.starts) : n = Start
  <2>1. query.starts \in Seq(NodePtrs) BY <1>1, QueryIs
  <2>2. DOMAIN query.starts = {1} BY <1>1, <2>1
  <2> QED BY <2>2 DEF ToSet, Start
<1> QED BY <1>1, <1>2, <1>3 DEF LeftTypes, LeftArrows, SttypesOf, Ranges

OrbitsInv ==
    /\ SearchInv
    /\ query \in Asked
    /\ shown # "no" => job = "done"
    /\ shown # "axis" => AnswerInv
    /\ shown = "axis" => answer = <<>> \/ Axis(answer, Start, query.sttypes, arrow)

(* Once the search is over, a step that leaves it alone keeps the axis. *)
LEMMA AxisStays ==
    ASSUME I' = I
    PROVE  \A w, n, sts, a : Axis(w, n, sts, a)' <=> Axis(w, n, sts, a)
<1>1. \A n, sts, arrows : LinksOf(n, sts, arrows)' = LinksOf(n, sts, arrows) BY LinksStay
<1> QED BY <1>1 DEF Axis, Walk

LEMMA OrbitsInvariant == OrbitsSpec => []OrbitsInv
<1>1. OrbitsInit => OrbitsInv BY InitSearchInv DEF OrbitsInit, OrbitsInv
<1>2. OrbitsInv /\ [OrbitsNext]_vars => OrbitsInv'
  <2> SUFFICES ASSUME OrbitsInv, [OrbitsNext]_vars PROVE OrbitsInv'
    OBVIOUS
  <2>0. SearchInv /\ query \in Asked /\ (shown # "axis" => AnswerInv) BY DEF OrbitsInv
  <2>1. CASE Sweep
    <3>1. shown' = shown /\ job # "done"
      BY <2>1 DEF Sweep, orbitVars, enumeratePaths, StopAtDepth, Expand, EmitLeaf, ReturnCone,
                  Enumerating
    <3>2. SearchInv' /\ AnswerInv' /\ UNCHANGED query
      BY <2>0, <2>1, EnumerationKeepsInv, ReturnKeepsInv DEF Sweep
    <3>3. shown' = "no" BY <3>1 DEF OrbitsInv
    <3>4. (query \in Asked)' BY <2>0, <3>2 DEF Asked
    <3> QED BY <3>2, <3>3, <3>4 DEF OrbitsInv
  <2>2. CASE UNCHANGED <<pathVars, arrow, shown>>
    <3>1. UNCHANGED <<I, query, job, todo, stack, found, waveVars, answer, arrow, shown>>
      BY <2>2 DEF pathVars, waveVars
    <3>2. SearchInv' /\ (AnswerInv => AnswerInv') BY <2>0, <3>1, SearchUnchanged
    <3>3. Axis(answer, Start, query.sttypes, arrow)' <=> Axis(answer, Start, query.sttypes, arrow)
      BY <3>1, AxisStays DEF Start
    <3>4. (query \in Asked)' BY <2>0, <3>1 DEF Asked
    <3> QED BY <3>1, <3>2, <3>3, <3>4 DEF OrbitsInv
  <2>3. CASE Wait
    <3>1. UNCHANGED <<I, query, job, todo, stack, found, waveVars, answer>>
            /\ shown = "no" /\ shown' = "orbit" /\ job = "done"
      BY <2>3 DEF Wait, pathVars, waveVars
    <3>2. SearchInv' /\ AnswerInv' BY <2>0, <3>1, SearchUnchanged
    <3>3. (query \in Asked)' BY <2>0, <3>1 DEF Asked
    <3> QED BY <3>1, <3>2, <3>3 DEF OrbitsInv
  <2>4. CASE GetLongestAxialPath
    <3>1. UNCHANGED <<I, query, job, todo, stack, found, waveVars, arrow>>
            /\ job = "done" /\ ~Orbiting /\ shown = "no"
      BY <2>4 DEF GetLongestAxialPath
    <3>2. SearchInv' /\ (answer' = answer => AnswerInv') BY <2>0, <3>1, SearchUnchanged
    <3>3. (query \in Asked)' BY <2>0, <3>1 DEF Asked
    <3>4. CASE Len(answer) < 2
      <4>1. shown' = "panic" /\ answer' = answer BY <2>4, <3>4 DEF GetLongestAxialPath
      <4> QED BY <3>1, <3>2, <3>3, <4>1 DEF OrbitsInv
    <3>5. CASE ~(Len(answer) < 2)
      <4>1. shown' = "axis" /\ answer' = LongestAxial(answer, arrow)
        BY <2>4, <3>5 DEF GetLongestAxialPath
      <4>2. answer \in Seq(Found(query.starts, LeftTypes, LeftArrows))
        BY <2>0, <3>1 DEF AnswerInv, Asked, Orbiting
      <4>3. PICK k \in Nat : k = Len(answer) BY <4>2
      <4>4. k >= 2 /\ DOMAIN answer = 1 .. k BY <3>5, <4>2, <4>3
      <4>5. ASSUME NEW i \in 1 .. k PROVE Walk(answer[i], Start, query.sttypes, {})
        <5>1. answer[i] \in Found(query.starts, LeftTypes, LeftArrows) BY <4>2, <4>3
        <5>2. PICK n \in ToSet(query.starts), f \in BOOLEAN :
                  Walk(answer[i], n, Ranges(LeftTypes, f), LeftArrows)
          BY <5>1 DEF Found
        <5> QED BY <2>0, <3>1, <5>2, StoryQuery
      <4>6. answer' = <<>> \/ Axis(answer', Start, query.sttypes, arrow)
        BY <4>1, <4>4, <4>5, LongestIsAxis
      <4>7. Axis(answer', Start, query.sttypes, arrow) => Axis(answer, Start, query.sttypes, arrow)'
        BY <3>1, AxisStays DEF Start
      <4> QED BY <3>1, <3>2, <3>3, <4>1, <4>6, <4>7 DEF OrbitsInv
    <3> QED BY <3>4, <3>5
  <2> QED BY <2>1, <2>2, <2>3, <2>4
    DEF OrbitsNext, Thread, AssembleSatellites, Done, Returned, vars, orbitVars
<1> QED BY <1>1, <1>2, PTL DEF OrbitsSpec

(* A story never leaves its arrow: the path GetLongestAxialPath returns is *)
(* a walk from the opening whose links but the first have the arrow of the *)
(* story, for every graph and every set of paths found before the limit.   *)
THEOREM StoriesFollowArrow == OrbitsSpec => []AxisFollowsArrow
<1>1. OrbitsInv => AxisFollowsArrow
  <2> SUFFICES ASSUME OrbitsInv, shown = "axis", answer # <<>>
               PROVE  /\ answer[1] \in ToSet(LinksOf(Start, query.sttypes, {}))
                      /\ \A i \in 2 .. Len(answer) :
                            /\ answer[i].arr = arrow
                            /\ answer[i] \in ToSet(LinksOf(answer[i - 1].dst, query.sttypes, {}))
    BY DEF AxisFollowsArrow
  <2>1. /\ answer \in Seq(Link) /\ Holds(LinksOf(Start, query.sttypes, {}), answer[1])
        /\ \A i \in 2 .. Len(answer) :
              /\ Holds(LinksOf(answer[i - 1].dst, query.sttypes, {}), answer[i])
              /\ answer[i].arr = arrow
    BY DEF OrbitsInv, Axis, Walk
  <2>2. I \in Graphs /\ query \in Queries BY DEF OrbitsInv, SearchInv
  <2>3. query.starts \in Seq(NodePtrs) /\ query.sttypes \in Seq(STTypes) BY <2>2, QueryIs
  <2>4. \A n \in NodePtrs : \A l :
            Holds(LinksOf(n, query.sttypes, {}), l) => l \in ToSet(LinksOf(n, query.sttypes, {}))
    BY <2>2, <2>3, LinksOfElements, HoldsIsElement
  <2>5. Start \in NodePtrs
    <3>1. Len(query.starts) = 1 BY DEF OrbitsInv, Asked
    <3> QED BY <2>3, <3>1 DEF Start
  <2>6. ASSUME NEW i \in 2 .. Len(answer) PROVE answer[i - 1].dst \in NodePtrs
    <3>1. Len(answer) \in Nat /\ i - 1 \in 1 .. Len(answer) BY <2>1
    <3>2. answer[i - 1] \in Link BY <2>1, <3>1
    <3> QED BY <3>2 DEF Link
  <2> QED BY <2>1, <2>4, <2>5, <2>6
<1> QED BY <1>1, OrbitsInvariant, PTL

-----------------------------------------------------------------------------
(* Orbits. *)

Sat == [arr : Arrows, dst : NodePtrs, radius : Nat]
(* The list shows link l. *)
Has(list, l) == \E i \in 1 .. Len(list) : list[i].arr = l.arr /\ list[i].dst = l.dst
(* The list shows no link twice. *)
Single(list) ==
    \A i, j \in 1 .. Len(list) : list[i].arr = list[j].arr /\ list[i].dst = list[j].dst => i = j

LEMMA AddedSatellite ==
    ASSUME NEW list \in Seq(Sat), Single(list), NEW item \in Sat
    PROVE  /\ IdempAddSatellite(list, item) \in Seq(Sat) /\ Single(IdempAddSatellite(list, item))
           /\ \A l : Has(IdempAddSatellite(list, item), l) <=>
                         Has(list, l) \/ (l.arr = item.arr /\ l.dst = item.dst)
<1>1. PICK n \in Nat : n = Len(list) /\ DOMAIN list = 1 .. n OBVIOUS
<1>2. CASE Has(list, item)
  <2>1. IdempAddSatellite(list, item) = list BY <1>1, <1>2 DEF IdempAddSatellite, Has
  <2> QED BY <1>2, <2>1 DEF Has
<1>3. CASE ~Has(list, item)
  <2>1. IdempAddSatellite(list, item) = Append(list, item) BY <1>1, <1>3 DEF IdempAddSatellite, Has
  <2>2. PICK q \in Seq(Sat) : /\ q = Append(list, item) /\ Len(q) = n + 1 /\ q[n + 1] = item
                              /\ \A i \in 1 .. n : q[i] = list[i]
    <3>1. /\ Append(list, item) \in Seq(Sat) /\ Len(Append(list, item)) = Len(list) + 1
          /\ Append(list, item)[Len(list) + 1] = item
          /\ \A i \in 1 .. Len(list) : Append(list, item)[i] = list[i]
      BY AppendedIs
    <3>2. PICK q \in Seq(Sat) : q = Append(list, item) BY <3>1
    <3> QED BY <1>1, <3>1, <3>2
  <2>3. \A i \in 1 .. (n + 1) : i \in 1 .. n \/ i = n + 1 OBVIOUS
  <2>4. Single(q)
    <3> SUFFICES ASSUME NEW i \in 1 .. (n + 1), NEW j \in 1 .. (n + 1),
                        q[i].arr = q[j].arr, q[i].dst = q[j].dst
                 PROVE  i = j
      BY <2>2 DEF Single
    <3>1. CASE i \in 1 .. n /\ j \in 1 .. n BY <1>1, <2>2, <3>1 DEF Single
    <3>2. CASE i \in 1 .. n /\ j = n + 1 BY <1>1, <1>3, <2>2, <3>2 DEF Has
    <3>3. CASE i = n + 1 /\ j \in 1 .. n BY <1>1, <1>3, <2>2, <3>3 DEF Has
    <3> QED BY <2>3, <3>1, <3>2, <3>3
  <2>5. ASSUME NEW l PROVE Has(q, l) <=> Has(list, l) \/ (l.arr = item.arr /\ l.dst = item.dst)
    <3>1. Has(q, l) <=> \E i \in 1 .. (n + 1) : q[i].arr = l.arr /\ q[i].dst = l.dst BY <2>2 DEF Has
    <3>2. Has(list, l) <=> \E i \in 1 .. n : list[i].arr = l.arr /\ list[i].dst = l.dst BY <1>1 DEF Has
    <3>3. n + 1 \in 1 .. (n + 1) /\ \A i \in 1 .. n : i \in 1 .. (n + 1) OBVIOUS
    <3> QED BY <2>2, <2>3, <3>1, <3>2, <3>3
  <2> QED BY <2>1, <2>2, <2>4, <2>5
<1> QED BY <1>2, <1>3

(* The links a path adds to the orbit of its start. *)
Shows(path, l) ==
    \/ l = path[2]
    \/ Len(path) > 2 /\ l = path[3] /\ STtype[path[3].arr] # -STtype[path[2].arr]

LEMMA AroundShows ==
    ASSUME NEW list \in Seq(Sat), Single(list), NEW path \in Seq(Link), Len(path) > 1
    PROVE  /\ Around(list, path) \in Seq(Sat) /\ Single(Around(list, path))
           /\ \A l \in Link : Has(Around(list, path), l) <=> Has(list, l) \/ Shows(path, l)
<1> DEFINE one == Satellite(path[2], 1)
           two == Satellite(path[3], 2)
           near == IdempAddSatellite(list, one)
           on == Len(path) > 2 /\ STtype[path[3].arr] # -STtype[path[2].arr]
<1>1. Len(path) \in Nat /\ 2 \in 1 .. Len(path) /\ (Len(path) > 2 => 3 \in 1 .. Len(path)) OBVIOUS
<1>2. path[2] \in Link /\ (Len(path) > 2 => path[3] \in Link) BY <1>1
<1>3. \A l, m \in Link : l.arr = m.arr /\ l.dst = m.dst <=> l = m BY DEF Link
<1>4. one \in Sat /\ one.arr = path[2].arr /\ one.dst = path[2].dst
  BY <1>2 DEF Satellite, Sat, Link
<1>5. Len(path) > 2 => two \in Sat /\ two.arr = path[3].arr /\ two.dst = path[3].dst
  BY <1>2 DEF Satellite, Sat, Link
<1>6. Around(list, path) = IF on THEN IdempAddSatellite(near, two) ELSE near
  BY <1>1 DEF Around, Leg, nearest_satellite, probe_radius
<1> HIDE DEF one, two, near
<1>7. PICK q \in Seq(Sat) : q = near /\ Single(q) /\ \A l \in Link : Has(q, l) <=> Has(list, l) \/ l = path[2]
  <2>1. PICK q : q = IdempAddSatellite(list, one) OBVIOUS
  <2>2. q \in Seq(Sat) /\ Single(q) /\ \A l : Has(q, l) <=> Has(list, l) \/ (l.arr = one.arr /\ l.dst = one.dst)
    BY <1>4, <2>1, AddedSatellite
  <2>3. \A l \in Link : Has(q, l) <=> Has(list, l) \/ l = path[2] BY <1>2, <1>3, <1>4, <2>2
  <2>4. q = near BY <2>1 DEF near
  <2> QED BY <2>2, <2>3, <2>4
<1>8. CASE on
  <2>1. PICK p : p = IdempAddSatellite(q, two) OBVIOUS
  <2>2. p \in Seq(Sat) /\ Single(p) /\ \A l : Has(p, l) <=> Has(q, l) \/ (l.arr = two.arr /\ l.dst = two.dst)
    BY <1>5, <1>7, <1>8, <2>1, AddedSatellite
  <2>3. \A l \in Link : Has(p, l) <=> Has(list, l) \/ l = path[2] \/ l = path[3]
    BY <1>2, <1>3, <1>5, <1>7, <1>8, <2>2
  <2>4. Around(list, path) = p BY <1>6, <1>7, <1>8, <2>1
  <2> QED BY <1>8, <2>2, <2>3, <2>4 DEF Shows
<1>9. CASE ~on
  <2>1. Around(list, path) = q BY <1>6, <1>7, <1>9
  <2> QED BY <1>7, <1>9, <2>1 DEF Shows
<1> QED BY <1>8, <1>9

(* The list of type t holds what the first a paths have of it. *)
Turns(ans, t, i) == Len(ans[i]) > 1 /\ STtype[ans[i][2].arr] = t
Gathered(ans, a, list, t) ==
    /\ a \in 0 .. Len(ans) /\ list \in Seq(Sat) /\ Single(list)
    /\ \A l \in Link : Has(list, l) <=> \E i \in 1 .. a : Turns(ans, t, i) /\ Shows(ans[i], l)

LEMMA GatheredNext ==
    ASSUME NEW ans \in Seq(Seq(Link)), NEW a, NEW list, NEW t, Gathered(ans, a, list, t),
           NEW m \in (a + 1) .. Len(ans), Turns(ans, t, m), \A i \in (a + 1) .. (m - 1) : ~Turns(ans, t, i)
    PROVE  Gathered(ans, m, Around(list, ans[m]), t)
<1>1. /\ a \in Nat /\ list \in Seq(Sat) /\ Single(list)
      /\ \A l \in Link : Has(list, l) <=> \E i \in 1 .. a : Turns(ans, t, i) /\ Shows(ans[i], l)
  BY DEF Gathered
<1>2. m \in Nat /\ m \in 1 .. Len(ans) /\ Len(ans) \in Nat /\ m \in 0 .. Len(ans) BY <1>1
<1>3. PICK path \in Seq(Link) : path = ans[m] /\ Len(path) > 1 BY <1>2 DEF Turns
<1>4. PICK q : q = Around(list, path) OBVIOUS
<1>5. q \in Seq(Sat) /\ Single(q) /\ \A l \in Link : Has(q, l) <=> Has(list, l) \/ Shows(path, l)
  BY <1>1, <1>3, <1>4, AroundShows
<1>6. \A i \in 1 .. m : i \in 1 .. a \/ i \in (a + 1) .. (m - 1) \/ i = m BY <1>1, <1>2
<1>7. m \in 1 .. m /\ \A i \in 1 .. a : i \in 1 .. m BY <1>1, <1>2
<1>8. ASSUME NEW l \in Link
      PROVE  Has(q, l) <=> \E i \in 1 .. m : Turns(ans, t, i) /\ Shows(ans[i], l)
  <2>1. Has(q, l) <=> (\E i \in 1 .. a : Turns(ans, t, i) /\ Shows(ans[i], l)) \/ Shows(ans[m], l)
    BY <1>1, <1>3, <1>5
  <2> QED BY <1>6, <1>7, <2>1
<1> QED BY <1>2, <1>3, <1>4, <1>5, <1>8 DEF Gathered

AheadIn(ans, a, t) == {i \in (a + 1) .. Len(ans) : Turns(ans, t, i)}
OrbitInv ==
    /\ angle \in [STTypes -> Nat] /\ satellites \in [STTypes -> Seq(Sat)]
    /\ job # "done" => /\ angle = [t \in STTypes |-> 0] /\ satellites = [t \in STTypes |-> <<>>]
                       /\ running = STTypes
    /\ job = "done" /\ Orbiting =>
           /\ answer \in Seq(Seq(Link))
           /\ \A t \in STTypes : Gathered(answer, angle[t], satellites[t], t)
           /\ \A t \in STTypes \ running : AheadIn(answer, angle[t], t) = {}
    /\ shown = "orbit" => running = {} /\ Orbiting /\ job = "done"
WideInv ==
    /\ OrbitInv
    /\ shown # "axis" => ConeInv /\ ResultInv

LEMMA AheadIs == ASSUME NEW t PROVE Ahead(t) = AheadIn(answer, angle[t], t)
<1>1. \A i : OfType(t, i) <=> Turns(answer, t, i)
  BY DEF OfType, Turns, Leg, sweep, nearest_satellite
<1> QED BY <1>1 DEF Ahead, AheadIn, sweep

LEMMA SweepKeepsOrbit ==
    ASSUME OrbitsInv, WideInv, Sweep
    PROVE  WideInv'
<1>1. /\ enumeratePaths \/ StopAtDepth \/ Expand \/ EmitLeaf \/ ReturnCone
      /\ UNCHANGED <<angle, satellites, running, shown>> /\ job # "done"
  BY DEF Sweep, orbitVars, enumeratePaths, StopAtDepth, Expand, EmitLeaf, ReturnCone, Enumerating
<1>2. SearchInv /\ ConeInv /\ ResultInv /\ query.kind = "cone" /\ shown = "no"
  BY <1>1 DEF OrbitsInv, WideInv, Asked
<1>3. (ConeInv /\ ResultInv)'
  <2>1. [PathsNext]_pathVars BY <1>1 DEF PathsNext
  <2> QED BY <1>2, <2>1, StepKeepsCone
<1>4. SearchInv' /\ AnswerInv' /\ query' = query
  BY <1>1, <1>2, EnumerationKeepsInv, ReturnKeepsInv
<1>5. /\ angle = [t \in STTypes |-> 0] /\ satellites = [t \in STTypes |-> <<>>] /\ running = STTypes
  BY <1>1 DEF WideInv, OrbitInv
<1>6. ASSUME job' = "done"
      PROVE  /\ answer' \in Seq(Seq(Link))
             /\ \A t \in STTypes : Gathered(answer', angle[t], satellites[t], t)
  <2>1. answer' \in Seq(Seq(Link))
    <3>1. (AnswerInv /\ job = "done" /\ query.kind = "cone")' =>
              answer' \in Seq(Found(query.starts, LeftTypes, LeftArrows)')
      BY DEF AnswerInv
    <3>2. Found(query.starts, LeftTypes, LeftArrows)' \subseteq Seq(Link) BY DEF Found
    <3> QED BY <1>2, <1>4, <1>6, <3>1, <3>2
  <2>2. PICK ans \in Seq(Seq(Link)) : ans = answer' BY <2>1
  <2>3. \A t : Gathered(ans, 0, <<>>, t)
    <3>1. Len(<<>>) = 0 /\ 1 .. 0 = {} OBVIOUS
    <3>2. <<>> \in Seq(Sat) /\ 0 \in 0 .. Len(ans) OBVIOUS
    <3> QED BY <3>1, <3>2 DEF Gathered, Has, Single
  <2> QED BY <1>5, <2>1, <2>2, <2>3
<1>7. OrbitInv'
  <2>1. (angle \in [STTypes -> Nat] /\ satellites \in [STTypes -> Seq(Sat)])'
    BY <1>1 DEF WideInv, OrbitInv
  <2>2. STTypes \ running = {} BY <1>5
  <2> QED BY <1>1, <1>2, <1>5, <1>6, <2>1, <2>2 DEF OrbitInv
<1> QED BY <1>3, <1>7 DEF WideInv

LEMMA AssemblyKeepsOrbit ==
    ASSUME OrbitInv, Orbiting, job = "done", NEW t \in STTypes, AssembleSatellites(t)
    PROVE  OrbitInv'
<1>1. /\ UNCHANGED <<query, job, answer, running, shown>>
      /\ t \in running /\ Ahead(t) # {}
      /\ angle' = [angle EXCEPT ![t] = Min(Ahead(t))]
      /\ satellites' = [satellites EXCEPT ![t] = Around(satellites[t], answer[Min(Ahead(t))])]
  BY DEF AssembleSatellites, pathVars, sweep, OrbitInv
<1>2. /\ angle \in [STTypes -> Nat] /\ satellites \in [STTypes -> Seq(Sat)]
      /\ answer \in Seq(Seq(Link))
      /\ \A u \in STTypes : Gathered(answer, angle[u], satellites[u], u)
      /\ \A u \in STTypes \ running : AheadIn(answer, angle[u], u) = {}
  BY DEF OrbitInv
<1>3. PICK ans \in Seq(Seq(Link)) : ans = answer BY <1>2
<1>4. PICK A : A = AheadIn(ans, angle[t], t) OBVIOUS
<1>5. Ahead(t) = A BY <1>3, <1>4, AheadIs
<1>6. A \in SUBSET Nat /\ A # {}
  <2>1. angle[t] \in Nat /\ Len(ans) \in Nat BY <1>2
  <2>2. A \subseteq (angle[t] + 1) .. Len(ans) BY <1>4 DEF AheadIn
  <2> QED BY <1>1, <1>5, <2>1, <2>2
<1>7. PICK m \in A : \A i \in A : m <= i BY <1>6, LeastNatural
<1>8. Min(A) = m
  <2>1. Min(A) \in A /\ \A i \in A : Min(A) <= i BY <1>7 DEF Min
  <2>2. Min(A) \in Nat /\ m \in Nat BY <1>6, <2>1
  <2>3. Min(A) <= m /\ m <= Min(A) BY <1>7, <2>1
  <2> QED BY <2>2, <2>3
<1>9. Gathered(ans, m, Around(satellites[t], ans[m]), t)
  <2>1. PICK a \in Nat : a = angle[t] BY <1>2
  <2>2. m \in (a + 1) .. Len(ans) /\ Turns(ans, t, m) BY <1>4, <1>7, <2>1 DEF AheadIn
  <2>3. \A i \in (a + 1) .. (m - 1) : ~Turns(ans, t, i)
    <3> SUFFICES ASSUME NEW i \in (a + 1) .. (m - 1), Turns(ans, t, i) PROVE FALSE OBVIOUS
    <3>1. i \in (a + 1) .. Len(ans) BY <2>2
    <3>2. i \in A BY <1>4, <2>1, <3>1 DEF AheadIn
    <3> QED BY <1>7, <2>2, <3>2
  <2>4. Gathered(ans, a, satellites[t], t) BY <1>2, <1>3, <2>1
  <2> QED BY <2>2, <2>3, <2>4, GatheredNext
<1>10. m \in Nat /\ Around(satellites[t], ans[m]) \in Seq(Sat) BY <1>6, <1>7, <1>9 DEF Gathered
<1>11. angle'[t] = m /\ satellites'[t] = Around(satellites[t], ans[m])
         /\ \A u \in STTypes \ {t} : angle'[u] = angle[u] /\ satellites'[u] = satellites[u]
  BY <1>1, <1>2, <1>3, <1>5, <1>8
<1>12. angle' \in [STTypes -> Nat] /\ satellites' \in [STTypes -> Seq(Sat)]
  BY <1>1, <1>2, <1>3, <1>5, <1>8, <1>10
<1>13. \A u \in STTypes : Gathered(ans, angle'[u], satellites'[u], u)
  BY <1>2, <1>3, <1>9, <1>11
<1>14. \A u \in STTypes \ running : AheadIn(ans, angle'[u], u) = {} BY <1>1, <1>2, <1>3, <1>11
<1> QED BY <1>1, <1>2, <1>3, <1>12, <1>13, <1>14 DEF OrbitInv, Orbiting

LEMMA ThreadsKeepOrbit ==
    ASSUME OrbitsInv, WideInv, NEW t \in STTypes, Thread(t)
    PROVE  WideInv'
<1>1. /\ UNCHANGED <<pathVars, shown>> /\ job = "done" /\ Orbiting
  BY DEF Thread, AssembleSatellites, Done
<1>2. shown' # "axis" => (ConeInv /\ ResultInv)'
  BY <1>1, StepKeepsCone DEF OrbitsInv, WideInv
<1>3. CASE AssembleSatellites(t) BY <1>1, <1>2, <1>3, AssemblyKeepsOrbit DEF WideInv
<1>4. CASE Done(t)
  <2>1. /\ Ahead(t) = {} /\ running' = running \ {t} /\ t \in running
        /\ UNCHANGED <<query, job, answer, angle, satellites>>
    BY <1>4 DEF Done, pathVars
  <2>2. AheadIn(answer, angle[t], t) = {} BY <2>1, AheadIs
  <2>3. \A u \in STTypes \ running' : AheadIn(answer, angle[u], u) = {}
    BY <1>1, <2>1, <2>2 DEF WideInv, OrbitInv
  <2>4. OrbitInv' BY <1>1, <2>1, <2>3 DEF WideInv, OrbitInv, Orbiting
  <2> QED BY <1>2, <2>4 DEF WideInv
<1> QED BY <1>3, <1>4 DEF Thread

LEMMA WideInvariant == OrbitsSpec => [](OrbitsInv /\ WideInv)
<1>1. OrbitsInit => WideInv
  <2> SUFFICES ASSUME OrbitsInit PROVE WideInv OBVIOUS
  <2>1. job # "done" /\ shown = "no" /\ PathsInit BY DEF OrbitsInit, PathsInit
  <2>2. ConeInv /\ ResultInv BY <2>1, InitConeInv
  <2>3. [t \in STTypes |-> 0] \in [STTypes -> Nat] /\ [t \in STTypes |-> <<>>] \in [STTypes -> Seq(Sat)]
    <3>1. <<>> \in Seq(Sat) OBVIOUS
    <3> QED BY <3>1
  <2>4. OrbitInv BY <2>1, <2>3 DEF OrbitsInit, OrbitInv
  <2> QED BY <2>2, <2>4 DEF WideInv
<1>2. OrbitsInv /\ WideInv /\ [OrbitsNext]_vars => WideInv'
  <2> SUFFICES ASSUME OrbitsInv, WideInv, [OrbitsNext]_vars PROVE WideInv' OBVIOUS
  <2>1. CASE Sweep BY <2>1, SweepKeepsOrbit
  <2>2. CASE \E t \in STTypes : Thread(t) BY <2>2, ThreadsKeepOrbit
  <2>3. CASE Wait
    <3>1. /\ UNCHANGED <<pathVars, query, job, answer, angle, satellites, running>>
          /\ running = {} /\ Orbiting /\ job = "done" /\ shown = "no"
      BY <2>3 DEF Wait, pathVars
    <3>2. (ConeInv /\ ResultInv)' BY <3>1, StepKeepsCone DEF OrbitsInv, WideInv
    <3>3. OrbitInv' BY <3>1 DEF WideInv, OrbitInv, Orbiting
    <3> QED BY <3>2, <3>3 DEF WideInv
  <2>4. CASE GetLongestAxialPath
    <3>1. /\ UNCHANGED <<I, query, job, todo, stack, found, waveVars, angle, satellites, running>>
          /\ job = "done" /\ ~Orbiting /\ shown = "no"
          /\ shown' = "axis" \/ (shown' = "panic" /\ answer' = answer)
      BY <2>4 DEF GetLongestAxialPath
    <3>2. OrbitInv' BY <3>1 DEF WideInv, OrbitInv, Orbiting
    <3>3. CASE shown' = "axis" BY <3>2, <3>3 DEF WideInv
    <3>4. CASE shown' = "panic" /\ answer' = answer
      <4>1. UNCHANGED pathVars BY <3>1, <3>4 DEF pathVars, waveVars
      <4>2. (ConeInv /\ ResultInv)' BY <3>1, <4>1, StepKeepsCone DEF OrbitsInv, WideInv
      <4> QED BY <3>2, <4>2 DEF WideInv
    <3> QED BY <3>1, <3>3, <3>4
  <2>5. CASE UNCHANGED vars
    <3>1. UNCHANGED <<pathVars, query, job, answer, angle, satellites, running, shown>>
      BY <2>5 DEF vars, pathVars, orbitVars
    <3>2. shown # "axis" => (ConeInv /\ ResultInv)' BY <3>1, StepKeepsCone DEF OrbitsInv, WideInv
    <3>3. OrbitInv' BY <3>1 DEF WideInv, OrbitInv, Orbiting
    <3> QED BY <3>1, <3>2, <3>3 DEF WideInv
  <2> QED BY <2>1, <2>2, <2>3, <2>4, <2>5 DEF OrbitsNext, Returned
<1> QED BY <1>1, <1>2, OrbitsInvariant, PTL DEF OrbitsSpec

(* The paths around the start: the trails of three links, and the shorter  *)
(* ones that end there.                                                    *)
Sides(f) == Ranges(<<>>, f)
Around3(w, f) ==
    /\ Trail(w, Start, Sides(f), {}) /\ w # <<>>
    /\ Len(w) <= 3 /\ (Len(w) < 3 => ~GoesOn(w, Sides(f)))

LEMMA PairIs ==
    ASSUME NEW F, NEW x \in F, NEW y \in F
    PROVE  <<x, y>> \in Seq(F) /\ Len(<<x, y>>) = 2 /\ \A c : Holds(<<x, y>>, c) <=> c = x \/ c = y
<1>1. <<x, y>> \in Seq(F) /\ Len(<<x, y>>) = 2 /\ <<x, y>>[1] = x /\ <<x, y>>[2] = y OBVIOUS
<1>2. \A i : i \in 1 .. 2 <=> i = 1 \/ i = 2 OBVIOUS
<1> QED BY <1>1, <1>2 DEF Holds

LEMMA OrbitCalls ==
    ASSUME query \in Asked, Orbiting
    PROVE  /\ query.kind = "cone" /\ IsInjective(query.sttypes) /\ Start \in NodePtrs
           /\ AllCalls \in Seq(Fresh(query.starts))
           /\ \A c : Holds(AllCalls, c) <=> \E f \in BOOLEAN : c = Frame(Start, <<>>, f)
<1>1. /\ query \in Queries /\ query.kind = "cone" /\ Len(query.starts) = 1
      /\ query.orientation = "both" /\ (query.sttypes = <<>> \/ Len(query.sttypes) = 1)
  BY DEF Asked, Orbiting
<1>2. query.starts \in Seq(NodePtrs) /\ query.sttypes \in Seq(STTypes) BY <1>1, QueryIs
<1>3. DOMAIN query.starts = {1} /\ Start \in NodePtrs BY <1>1, <1>2 DEF Start
<1>4. IsInjective(query.sttypes)
  <2>1. DOMAIN query.sttypes = 1 .. Len(query.sttypes) /\ (Len(query.sttypes) = 0 \/ Len(query.sttypes) = 1)
    BY <1>1, <1>2
  <2> QED BY <2>1 DEF IsInjective
<1>5. AllCalls \in Seq(Fresh(query.starts)) BY <1>2, CallsAreFresh DEF AllCalls
<1> DEFINE both == <<Frame(Start, <<>>, TRUE), Frame(Start, <<>>, FALSE)>>
<1>6. AllCalls = FlattenSeq([i \in {1} |-> both])
  <2>1. query.orientation # "fwd" BY <1>1
  <2>2. [i \in DOMAIN query.starts |-> <<Frame(query.starts[i], <<>>, TRUE), Frame(query.starts[i], <<>>, FALSE)>>]
          = [i \in {1} |-> both]
    BY <1>3 DEF Start
  <2> HIDE DEF both
  <2> QED BY <1>1, <2>2 DEF AllCalls, Calls
<1>7. PICK F : F = {Frame(Start, <<>>, f) : f \in BOOLEAN} OBVIOUS
<1>8. /\ both \in Seq(F)
      /\ \A c : Holds(both, c) <=> c = Frame(Start, <<>>, TRUE) \/ c = Frame(Start, <<>>, FALSE)
  <2>1. Frame(Start, <<>>, TRUE) \in F /\ Frame(Start, <<>>, FALSE) \in F BY <1>7
  <2> HIDE DEF Frame
  <2> QED BY <2>1, PairIs
<1> HIDE DEF both
<1>9. PICK ss : ss = [i \in {1} |-> both] OBVIOUS
<1>10. ss \in Seq(Seq(F)) /\ Len(ss) = 1 /\ ss[1] = both
  <2>1. ss \in [1 .. 1 -> Seq(F)] BY <1>8, <1>9
  <2> QED BY <1>9, <2>1, SequenceOf
<1>11. \A c : Holds(AllCalls, c) <=> \E k \in 1 .. 1 : Holds(ss[k], c)
  BY <1>6, <1>9, <1>10, FlattenElements
<1>12. \A c : Holds(AllCalls, c) <=> Holds(both, c)
  <2>1. \A k : k \in 1 .. 1 <=> k = 1 OBVIOUS
  <2> QED BY <1>10, <1>11, <2>1
<1>13. \A c : Holds(AllCalls, c) <=> \E f \in BOOLEAN : c = Frame(Start, <<>>, f)
  <2> HIDE DEF Frame
  <2> QED BY <1>8, <1>12
<1> QED BY <1>1, <1>3, <1>4, <1>5, <1>13

LEMMA OrbitPaths ==
    ASSUME OrbitsInv, WideInv, shown = "orbit", query.loaded, Len(answer) < query.limit
    PROVE  \A w : w \in ToSet(answer) <=> \E f \in BOOLEAN : Around3(w, f)
<1>1. /\ query \in Asked /\ Orbiting /\ job = "done" /\ ResultInv BY DEF OrbitsInv, WideInv, OrbitInv
<1>2. PICK C : C = AllCalls /\ \A c : Holds(C, c) <=> \E f \in BOOLEAN : c = Frame(Start, <<>>, f)
  BY <1>1, OrbitCalls
<1>3. ToSet(answer) = {x[2] : x \in Promised(C)}
  <2>1. Plain BY <1>1, OrbitCalls DEF Plain
  <2> QED BY <1>1, <1>2, <2>1 DEF ResultInv, Result
<1>4. \A x : x \in Promised(C) <=> \E i \in 1 .. Len(C) : \E w \in Promise(C[i]) : x = <<i, w>>
  BY DEF Promised
<1>5. \A w : w \in ToSet(answer) <=> \E c : Holds(C, c) /\ w \in Promise(c)
  <2>1. ASSUME NEW w \in ToSet(answer) PROVE \E c : Holds(C, c) /\ w \in Promise(c)
    <3>1. PICK x \in Promised(C) : w = x[2] BY <1>3
    <3>2. PICK i \in 1 .. Len(C) : \E v \in Promise(C[i]) : x = <<i, v>> BY <1>4
    <3>3. w \in Promise(C[i]) /\ Holds(C, C[i]) BY <3>1, <3>2 DEF Holds
    <3> QED BY <3>3
  <2>2. ASSUME NEW w, NEW c, Holds(C, c), w \in Promise(c) PROVE w \in ToSet(answer)
    <3>1. PICK i \in 1 .. Len(C) : C[i] = c BY <2>2 DEF Holds
    <3>2. <<i, w>> \in Promised(C) /\ <<i, w>>[2] = w BY <1>4, <2>2, <3>1
    <3> QED BY <1>3, <3>2
  <2> QED BY <2>1, <2>2
<1>6. ASSUME NEW f \in BOOLEAN, NEW w PROVE w \in Promise(Frame(Start, <<>>, f)) <=> Around3(w, f)
  <2>1. query.sttypes = <<>> /\ query.arrows = {} /\ query.admit = NodePtrs /\ query.depth = 3
    BY <1>1 DEF Asked, Orbiting, probe_radius
  <2>2. PICK c : c = Frame(Start, <<>>, f) OBVIOUS
  <2>3. c.nptr = Start /\ c.forward = f BY <2>2 DEF Frame
  <2>4. TypesOf(c) = Sides(f) BY <2>1, <2>3 DEF TypesOf, Sides
  <2>5. w \in Seq(Link) => Nodes(w) \subseteq query.admit
    <3>1. \A l \in Link : l.dst \in NodePtrs BY DEF Link
    <3>2. ASSUME w \in Seq(Link) PROVE \A i \in DOMAIN w : w[i].dst \in NodePtrs BY <3>1, <3>2
    <3> QED BY <2>1, <3>2 DEF Nodes
  <2> QED BY <2>1, <2>2, <2>3, <2>4, <2>5 DEF Promise, Around3, Trail, Walk
<1> QED BY <1>2, <1>5, <1>6

LEMMA OrbitShows ==
    ASSUME OrbitsInv, WideInv, shown = "orbit", query.loaded, Len(answer) < query.limit,
           NEW t \in STTypes, NEW l
    PROVE  (\E i \in 1 .. Len(answer) : Turns(answer, t, i) /\ Shows(answer[i], l)) <=>
               \E f \in BOOLEAN : \E w :
                   /\ Trail(w, Start, Sides(f), {}) /\ Len(w) \in {2, 3} /\ STtype[w[2].arr] = t
                   /\ l = w[Len(w)] /\ (Len(w) = 3 => STtype[w[3].arr] # -t)
<1>1. I \in Graphs /\ Start \in NodePtrs /\ answer \in Seq(Seq(Link))
  BY OrbitCalls DEF OrbitsInv, SearchInv, WideInv, OrbitInv
<1>2. \A w : (\E i \in 1 .. Len(answer) : answer[i] = w) <=> \E f \in BOOLEAN : Around3(w, f)
  <2>1. DOMAIN answer = 1 .. Len(answer) BY <1>1
  <2>2. \A w : w \in ToSet(answer) <=> \E i \in 1 .. Len(answer) : answer[i] = w BY <2>1 DEF ToSet
  <2> QED BY <2>2, OrbitPaths
<1>3. ASSUME NEW i \in 1 .. Len(answer), Turns(answer, t, i), Shows(answer[i], l)
      PROVE  \E f \in BOOLEAN : \E w :
                   /\ Trail(w, Start, Sides(f), {}) /\ Len(w) \in {2, 3} /\ STtype[w[2].arr] = t
                   /\ l = w[Len(w)] /\ (Len(w) = 3 => STtype[w[3].arr] # -t)
  <2>1. PICK p \in Seq(Link) : p = answer[i] BY <1>1
  <2>2. PICK f \in BOOLEAN : Around3(p, f) BY <1>2, <2>1
  <2>3. /\ Trail(p, Start, Sides(f), {}) /\ p # <<>> /\ Len(p) <= 3 /\ Len(p) > 1
        /\ STtype[p[2].arr] = t
    BY <1>3, <2>1, <2>2 DEF Around3, Turns
  <2>4. CASE l = p[2]
    <3>1. PICK w : w = SubSeq(p, 1, 2) OBVIOUS
    <3>2. Len(p) \in Nat /\ 2 \in 1 .. Len(p) BY <2>3
    <3>3. Walk(w, Start, Sides(f), {}) /\ Len(w) = 2 /\ \A j \in 1 .. 2 : w[j] = p[j]
      <4>1. Walk(p, Start, Sides(f), {}) BY <2>3 DEF Trail
      <4> QED BY <3>1, <3>2, <4>1, WalkCut
    <3>4. NoRepeat(w)
      <4>1. \A j \in 1 .. 2 : j \in 1 .. Len(p) BY <3>2
      <4> QED BY <2>3, <3>3, <4>1 DEF Trail, NoRepeat
    <3>5. Trail(w, Start, Sides(f), {}) BY <3>3, <3>4 DEF Trail, Walk
    <3>6. w[2] = p[2] BY <3>3
    <3> QED BY <2>3, <2>4, <3>3, <3>5, <3>6
  <2>5. CASE l # p[2]
    <3>1. Len(p) > 2 /\ l = p[3] /\ STtype[p[3].arr] # -STtype[p[2].arr] BY <1>3, <2>1, <2>5 DEF Shows
    <3>2. Len(p) = 3
      <4>1. PICK n \in Nat : n = Len(p) OBVIOUS
      <4>2. n <= 3 /\ n > 2 BY <2>3, <3>1, <4>1
      <4>3. n = 3 BY <4>2
      <4> QED BY <4>1, <4>3
    <3> QED BY <2>3, <3>1, <3>2
  <2> QED BY <2>4, <2>5
<1>4. ASSUME NEW f \in BOOLEAN, NEW w, Trail(w, Start, Sides(f), {}), Len(w) \in {2, 3},
             STtype[w[2].arr] = t, l = w[Len(w)], Len(w) = 3 => STtype[w[3].arr] # -t
      PROVE  \E i \in 1 .. Len(answer) : Turns(answer, t, i) /\ Shows(answer[i], l)
  <2>1. w \in Seq(Link) /\ w # <<>> /\ Len(w) <= 3 /\ Len(w) > 1 BY <1>4 DEF Trail
  <2>2. CASE Len(w) = 3 \/ ~GoesOn(w, Sides(f))
    <3>1. Around3(w, f) BY <1>4, <2>1, <2>2 DEF Around3
    <3>2. PICK i \in 1 .. Len(answer) : answer[i] = w BY <1>2, <3>1
    <3> QED BY <1>4, <2>1, <3>2 DEF Turns, Shows
  <2>3. CASE Len(w) = 2 /\ GoesOn(w, Sides(f))
    <3>1. PICK m : Holds(LinksOf(Tip(w), Sides(f), query.arrows), m) /\ m \in Unvisited(w)
      BY <2>3 DEF GoesOn
    <3>2. query.arrows = {} BY DEF OrbitsInv, Asked
    <3>3. Sides(f) \in Seq(STTypes)
      <4>1. <<>> \in Seq(STTypes) OBVIOUS
      <4> QED BY <4>1, RangesTypes DEF Sides
    <3>4. PICK v \in Seq(Link) : v = Append(w, m) /\ Walk(v, Start, Sides(f), {}) /\ Len(v) = 3
      <4>1. /\ Append(w, m) \in Seq(Link) /\ Len(Append(w, m)) = Len(w) + 1
            /\ Walk(Append(w, m), Start, Sides(f), {})
        BY <1>1, <1>4, <2>1, <3>1, <3>2, <3>3, TrailGoesOn
      <4>2. PICK v \in Seq(Link) : v = Append(w, m) BY <4>1
      <4>3. Len(v) = 3
        <5>1. PICK n \in Nat : n = Len(v) BY <4>2
        <5>2. n = 2 + 1 BY <2>3, <4>1, <4>2, <5>1
        <5>3. n = 3 BY <5>2
        <5> QED BY <5>1, <5>3
      <4>4. Walk(v, Start, Sides(f), {}) BY <4>1, <4>2
      <4> QED BY <4>2, <4>3, <4>4
    <3>5. v[1] = w[1] /\ v[2] = w[2] /\ v[3] = m
      <4>1. m \in Link BY <3>1 DEF Unvisited
      <4> QED BY <2>1, <2>3, <3>4, <4>1
    <3>6. m.dst # w[1].dst /\ m.dst # w[2].dst /\ w[1].dst # w[2].dst
      <4>1. DOMAIN w = 1 .. 2 BY <2>1, <2>3
      <4>2. m.dst # w[1].dst /\ m.dst # w[2].dst BY <3>1, <4>1 DEF Unvisited, Nodes
      <4> QED BY <1>4, <2>3, <4>2 DEF Trail, NoRepeat
    <3>7. NoRepeat(v)
      <4>1. \A i \in 1 .. 3 : i = 1 \/ i = 2 \/ i = 3 OBVIOUS
      <4> QED BY <3>4, <3>5, <3>6, <4>1 DEF NoRepeat
    <3>8. Around3(v, f) BY <3>4, <3>7 DEF Around3, Trail, Walk
    <3>9. PICK i \in 1 .. Len(answer) : answer[i] = v BY <1>2, <3>8
    <3> QED BY <1>4, <2>3, <3>4, <3>5, <3>9 DEF Turns, Shows
  <2> QED BY <1>4, <2>2, <2>3
<1> QED BY <1>3, <1>4

(* As OrbitExact has them. *)
RoundWalks(k) == UNION {Trails(Start, k, Ranges(<<>>, forward), {}) : forward \in BOOLEAN}
SecondLinks(t) == {w[2] : w \in {v \in RoundWalks(2) : STtype[v[2].arr] = t}}
ThirdLinks(t) == {w[3] : w \in {v \in RoundWalks(3) : STtype[v[2].arr] = t /\ STtype[v[3].arr] # -t}}
ShownLinks(sats) == [i \in DOMAIN sats |-> [arr |-> sats[i].arr, dst |-> sats[i].dst]]
ShownExactly(t) ==
    /\ IsInjective(ShownLinks(satellites[t]))
    /\ ToSet(ShownLinks(satellites[t])) = SecondLinks(t) \cup ThirdLinks(t)

LEMMA ShownLinksAre ==
    ASSUME NEW list \in Seq(Sat), Single(list)
    PROVE  /\ IsInjective(ShownLinks(list))
           /\ \A l : l \in ToSet(ShownLinks(list)) <=> l \in Link /\ Has(list, l)
<1>1. PICK n \in Nat : n = Len(list) /\ DOMAIN list = 1 .. n OBVIOUS
<1>2. PICK s : s = ShownLinks(list) OBVIOUS
<1>3. DOMAIN s = 1 .. n /\ \A i \in 1 .. n : s[i] = [arr |-> list[i].arr, dst |-> list[i].dst]
  BY <1>1, <1>2 DEF ShownLinks
<1>4. \A i \in 1 .. n : list[i] \in Sat BY <1>1
<1>5. \A i \in 1 .. n : s[i] \in Link /\ s[i].arr = list[i].arr /\ s[i].dst = list[i].dst
  BY <1>3, <1>4 DEF Sat, Link
<1>6. IsInjective(s)
  <2>1. \A i, j \in 1 .. n : s[i] = s[j] => i = j BY <1>1, <1>5 DEF Single
  <2> QED BY <1>3, <2>1 DEF IsInjective
<1>7. ASSUME NEW l PROVE l \in ToSet(s) <=> l \in Link /\ Has(list, l)
  <2>1. l \in ToSet(s) <=> \E i \in 1 .. n : s[i] = l BY <1>3 DEF ToSet
  <2>2. Has(list, l) <=> \E i \in 1 .. n : list[i].arr = l.arr /\ list[i].dst = l.dst BY <1>1 DEF Has
  <2>3. ASSUME NEW i \in 1 .. n, l \in Link PROVE s[i] = l <=> list[i].arr = l.arr /\ list[i].dst = l.dst
    <3>1. l = [arr |-> l.arr, dst |-> l.dst] BY <2>3 DEF Link
    <3> QED BY <1>3, <1>5, <2>3, <3>1
  <2> QED BY <1>5, <2>1, <2>2, <2>3
<1> QED BY <1>2, <1>6, <1>7

LEMMA WalksAround ==
    ASSUME I \in Graphs, Start \in NodePtrs, NEW t \in STTypes, NEW l
    PROVE  l \in SecondLinks(t) \cup ThirdLinks(t) <=>
               \E f \in BOOLEAN : \E w :
                   /\ Trail(w, Start, Sides(f), {}) /\ Len(w) \in {2, 3} /\ STtype[w[2].arr] = t
                   /\ l = w[Len(w)] /\ (Len(w) = 3 => STtype[w[3].arr] # -t)
<1>1. \A f \in BOOLEAN : Sides(f) \in Seq(STTypes)
  <2>1. <<>> \in Seq(STTypes) OBVIOUS
  <2> QED BY <2>1, RangesTypes DEF Sides
<1>2. ASSUME NEW k \in {2, 3}, NEW w
      PROVE  w \in RoundWalks(k) <=> \E f \in BOOLEAN : Trail(w, Start, Sides(f), {}) /\ Len(w) = k
  <2>1. \A f \in BOOLEAN : w \in Trails(Start, k, Sides(f), {}) <=> Trail(w, Start, Sides(f), {}) /\ Len(w) = k
    <3>1. k \in Nat OBVIOUS
    <3> QED BY <1>1, <3>1, TrailsAre
  <2>2. w \in RoundWalks(k) <=> \E f \in BOOLEAN : w \in Trails(Start, k, Sides(f), {})
    BY DEF RoundWalks, Sides
  <2> QED BY <2>1, <2>2
<1>3. l \in SecondLinks(t) <=> \E w \in RoundWalks(2) : STtype[w[2].arr] = t /\ l = w[2]
  BY DEF SecondLinks
<1>4. l \in ThirdLinks(t) <=>
          \E w \in RoundWalks(3) : STtype[w[2].arr] = t /\ STtype[w[3].arr] # -t /\ l = w[3]
  BY DEF ThirdLinks
<1>5. l \in SecondLinks(t) <=>
          \E w : \E f \in BOOLEAN :
              Trail(w, Start, Sides(f), {}) /\ Len(w) = 2 /\ STtype[w[2].arr] = t /\ l = w[2]
  <2>1. \A w : w \in RoundWalks(2) <=> \E f \in BOOLEAN : Trail(w, Start, Sides(f), {}) /\ Len(w) = 2
    BY <1>2
  <2> QED BY <1>3, <2>1
<1>6. l \in ThirdLinks(t) <=>
          \E w : \E f \in BOOLEAN :
              /\ Trail(w, Start, Sides(f), {}) /\ Len(w) = 3 /\ STtype[w[2].arr] = t
              /\ STtype[w[3].arr] # -t /\ l = w[3]
  <2>1. \A w : w \in RoundWalks(3) <=> \E f \in BOOLEAN : Trail(w, Start, Sides(f), {}) /\ Len(w) = 3
    BY <1>2
  <2> QED BY <1>4, <2>1
<1>7. 2 # 3 OBVIOUS
<1> QED BY <1>5, <1>6, <1>7

(* Whatever the order of the goroutines and of the paths, the orbit of a   *)
(* node (GetNodeOrbit) shows for each link type, each once, the second     *)
(* links of the node's walks that have this type and the third links that  *)
(* follow them and are not of the opposite type.                           *)
THEOREM OrbitOfEveryWalk == OrbitsSpec => []OrbitExact
<1>1. ASSUME OrbitsInv, WideInv, shown = "orbit", query.loaded, Len(answer) < query.limit
      PROVE  \A t \in STTypes : ShownExactly(t)
  <2> SUFFICES ASSUME NEW t \in STTypes PROVE ShownExactly(t) OBVIOUS
  <2>1. query \in Asked /\ Orbiting /\ job = "done" /\ running = {} /\ I \in Graphs
    BY <1>1 DEF OrbitsInv, WideInv, OrbitInv, SearchInv
  <2>2. Start \in NodePtrs BY <2>1, OrbitCalls
  <2>3. PICK a, list : a = angle[t] /\ list = satellites[t] OBVIOUS
  <2>4. PICK ans \in Seq(Seq(Link)) : ans = answer BY <1>1, <2>1 DEF WideInv, OrbitInv
  <2>5. Gathered(ans, a, list, t) /\ AheadIn(ans, a, t) = {}
    BY <1>1, <2>1, <2>3, <2>4 DEF WideInv, OrbitInv
  <2>6. list \in Seq(Sat) /\ Single(list) BY <2>5 DEF Gathered
  <2>7. ASSUME NEW l \in Link
        PROVE  Has(list, l) <=> \E i \in 1 .. Len(ans) : Turns(ans, t, i) /\ Shows(ans[i], l)
    <3>1. PICK n \in Nat : n = Len(ans) OBVIOUS
    <3>2. a \in 0 .. n BY <2>5, <3>1 DEF Gathered
    <3>3. Has(list, l) <=> \E i \in 1 .. a : Turns(ans, t, i) /\ Shows(ans[i], l)
      BY <2>5 DEF Gathered
    <3>4. \A i \in 1 .. n : Turns(ans, t, i) => i \in 1 .. a
      <4> SUFFICES ASSUME NEW i \in 1 .. n, Turns(ans, t, i), i \notin 1 .. a PROVE FALSE OBVIOUS
      <4>1. i \in (a + 1) .. n BY <3>2
      <4> QED BY <2>5, <3>1, <4>1 DEF AheadIn
    <3>5. \A i \in 1 .. a : i \in 1 .. n BY <3>2
    <3> QED BY <3>1, <3>3, <3>4, <3>5
  <2>8. ASSUME NEW l
        PROVE  (\E i \in 1 .. Len(ans) : Turns(ans, t, i) /\ Shows(ans[i], l)) <=>
                   l \in SecondLinks(t) \cup ThirdLinks(t)
    <3>1. (\E i \in 1 .. Len(answer) : Turns(answer, t, i) /\ Shows(answer[i], l)) <=>
              \E f \in BOOLEAN : \E w :
                   /\ Trail(w, Start, Sides(f), {}) /\ Len(w) \in {2, 3} /\ STtype[w[2].arr] = t
                   /\ l = w[Len(w)] /\ (Len(w) = 3 => STtype[w[3].arr] # -t)
      BY <1>1, OrbitShows
    <3>2. l \in SecondLinks(t) \cup ThirdLinks(t) <=>
              \E f \in BOOLEAN : \E w :
                   /\ Trail(w, Start, Sides(f), {}) /\ Len(w) \in {2, 3} /\ STtype[w[2].arr] = t
                   /\ l = w[Len(w)] /\ (Len(w) = 3 => STtype[w[3].arr] # -t)
      BY <2>1, <2>2, WalksAround
    <3> QED BY <2>4, <3>1, <3>2
  <2>9. ASSUME NEW l \in SecondLinks(t) \cup ThirdLinks(t) PROVE l \in Link
    <3>1. PICK f \in BOOLEAN : \E w :
                   /\ Trail(w, Start, Sides(f), {}) /\ Len(w) \in {2, 3} /\ l = w[Len(w)]
      BY <2>1, <2>2, WalksAround
    <3>2. PICK w \in Seq(Link) : Len(w) \in {2, 3} /\ l = w[Len(w)] BY <3>1 DEF Trail
    <3>3. PICK n \in {2, 3} : n = Len(w) BY <3>2
    <3>4. n \in 1 .. n OBVIOUS
    <3>5. w[n] \in Link BY <3>3, <3>4
    <3> QED BY <3>2, <3>3, <3>5
  <2>10. ToSet(ShownLinks(list)) = SecondLinks(t) \cup ThirdLinks(t)
    <3>1. \A l : l \in ToSet(ShownLinks(list)) <=> l \in Link /\ Has(list, l) BY <2>6, ShownLinksAre
    <3> QED BY <2>7, <2>8, <2>9, <3>1
  <2>11. IsInjective(ShownLinks(list)) BY <2>6, ShownLinksAre
  <2> QED BY <2>3, <2>10, <2>11 DEF ShownExactly
<1>2. OrbitsInv /\ WideInv => OrbitExact
  BY <1>1, Zenon DEF OrbitExact, ShownExactly, ShownLinks, SecondLinks, ThirdLinks, RoundWalks
<1> QED BY <1>2, WideInvariant, PTL
=============================================================================
