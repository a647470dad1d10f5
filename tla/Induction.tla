------------------------------- MODULE Induction -------------------------------
(***************************************************************************)
(* Induction over data in first-order terms.  The induction theorems of    *)
(* the library take the property as an operator; here it is a set, so that *)
(* the provers can use what is proved.  Everything rests on the strict     *)
(* subsets of a finite set being well-founded.                             *)
(***************************************************************************)
EXTENDS Integers, SequencesExt, FiniteSetTheorems, WellFoundedInduction, TLAPS

(* A set of natural numbers has a least element: of the intervals below    *)
(* its elements one is minimal.                                            *)
LEMMA LeastNatural ==
    ASSUME NEW S \in SUBSET Nat, S # {}
    PROVE  \E x \in S : \A y \in S : x <= y
<1> DEFINE Below == {0 .. x : x \in S}
<1>1. Below \subseteq FiniteSubsetsOf(Nat) /\ Below # {}
  <2>1. ASSUME NEW b \in Below PROVE b \in FiniteSubsetsOf(Nat)
    <3>1. PICK x \in S : b = 0 .. x OBVIOUS
    <3>2. IsFiniteSet(0 .. x) BY FS_Interval
    <3> QED BY <3>1, <3>2 DEF FiniteSubsetsOf
  <2> QED BY <2>1
<1>2. PICK b \in Below : \A c \in Below : ~ (<<c, b>> \in StrictSubsetOrdering(Nat))
  BY <1>1, FS_StrictSubsetOrderingWellFounded, WFMin, Zenon
<1>3. PICK x \in S : b = 0 .. x BY <1>2
<1>4. ASSUME NEW y \in S PROVE x <= y
  <2>1. <<0 .. y, 0 .. x>> \notin StrictSubsetOrdering(Nat) BY <1>2, <1>3
  <2>2. ~ (0 .. y \subseteq 0 .. x /\ 0 .. y # 0 .. x)
    BY <2>1 DEF StrictSubsetOrdering
  <2>3. CASE 0 .. y = 0 .. x BY <2>3
  <2>4. CASE ~ (0 .. y \subseteq 0 .. x) BY <2>4
  <2> QED BY <2>2, <2>3, <2>4
<1> QED BY <1>4

LEMMA InductionOnNat ==
    ASSUME NEW S \in SUBSET Nat, 0 \in S, \A n \in S : n + 1 \in S
    PROVE  S = Nat
<1>1. SUFFICES ASSUME Nat \ S # {} PROVE FALSE OBVIOUS
<1>2. PICK x \in Nat \ S : \A y \in Nat \ S : x <= y BY <1>1, LeastNatural
<1>3. x - 1 \in Nat BY <1>2
<1> QED BY <1>2, <1>3

(* A property of the steps 0 .. n of a run. *)
LEMMA InductionOnSteps ==
    ASSUME NEW n \in Nat, NEW S \in SUBSET (0 .. n), 0 \in S,
           \A k \in 1 .. n : k - 1 \in S => k \in S
    PROVE  S = 0 .. n
<1> DEFINE N == {k \in Nat : k <= n => k \in S}
<1>1. 0 \in N OBVIOUS
<1>2. ASSUME NEW k \in N PROVE k + 1 \in N
  <2>1. k \in Nat /\ (k <= n => k \in S) OBVIOUS
  <2>2. CASE k + 1 <= n
    <3>1. k + 1 \in 1 .. n /\ (k + 1) - 1 = k BY <2>1, <2>2
    <3> QED BY <2>1, <2>2, <3>1
  <2>3. CASE ~(k + 1 <= n) BY <2>1, <2>3
  <2> QED BY <2>2, <2>3
<1>3. N = Nat
  <2>1. N \in SUBSET Nat OBVIOUS
  <2> HIDE DEF N
  <2> QED BY <1>1, <1>2, <2>1, InductionOnNat
<1>4. ASSUME NEW k \in 0 .. n PROVE k \in S
  <2>1. k \in N BY <1>3
  <2> QED BY <2>1
<1> QED BY <1>4

LEMMA MaxIsGreatest ==
    ASSUME NEW n \in Nat, NEW s \in SUBSET (1 .. n), n \in s
    PROVE  Max(s) = n
<1>1. \A x \in s : n >= x OBVIOUS
<1>2. \A x \in s : (\A y \in s : x >= y) => x = n OBVIOUS
<1> QED BY <1>1, <1>2, Zenon DEF Max

LEMMA GreatestExists ==
    ASSUME NEW n \in Nat, NEW s \in SUBSET (1 .. n), s # {}
    PROVE  Max(s) \in s
<1> DEFINE T == {n - x : x \in s}
<1>1. T \in SUBSET Nat /\ T # {}
  <2>1. \A x \in s : n - x \in Nat OBVIOUS
  <2> QED BY <2>1
<1>2. PICK t \in T : \A u \in T : t <= u
  <2> HIDE DEF T
  <2> QED BY <1>1, LeastNatural
<1>3. PICK x \in s : t = n - x OBVIOUS
<1>4. \A y \in s : n - x <= n - y BY <1>2, <1>3
<1>5. \A y \in s : x >= y BY <1>4
<1> QED BY <1>5 DEF Max

LEMMA WithoutGreatest ==
    ASSUME NEW n \in Nat, NEW m \in 1 .. n, NEW s \in SUBSET (1 .. m), s # {}
    PROVE  s \ {Max(s)} \in SUBSET (1 .. (m - 1)) /\ Max(s) \in 1 .. n
<1>1. CASE m \in s
  <2>1. Max(s) = m BY <1>1, MaxIsGreatest
  <2>2. \A x \in s \ {m} : x \in 1 .. (m - 1) OBVIOUS
  <2> QED BY <2>1, <2>2
<1>2. CASE m \notin s
  <2>1. \A x \in s : x \in 1 .. (m - 1) BY <1>2
  <2>2. m \in Nat /\ m <= n OBVIOUS
  <2>3. Max(s) \in s BY <2>2, GreatestExists
  <2>4. Max(s) \in 1 .. n
    <3>1. \A x \in s : x \in 1 .. n BY <2>2
    <3> QED BY <2>3, <3>1
  <2>5. s \ {Max(s)} \in SUBSET (1 .. (m - 1)) BY <2>1
  <2> QED BY <2>4, <2>5
<1> QED BY <1>1, <1>2

(* g is a fold over 1 .. n as MapThenFoldSet defines it: a function on the *)
(* sets of indices, which takes the greatest index of each last.  F holds  *)
(* the values of the folded operator.                                      *)
IsFold(g, b, n, F) ==
    \A s \in SUBSET (1 .. n) : g[s] = IF s = {} THEN b ELSE F[g[s \ {Max(s)}], Max(s)]

(* q holds the values a fold goes through, as long as they are in X; r     *)
(* holds them from the first to the last.                                  *)
Passes(q, b, n, X, F) ==
    q[0] = b /\ \A k \in 1 .. n : q[k - 1] \in X => q[k] = F[q[k - 1], k]
IsRun(r, b, n, F) == r[0] = b /\ \A k \in 1 .. n : r[k] = F[r[k - 1], k]

LEMMA FoldExists ==
    ASSUME NEW X, NEW b \in X, NEW n \in Nat, NEW F \in [X \X (1 .. n) -> X]
    PROVE  \E g \in [SUBSET (1 .. n) -> X] : IsFold(g, b, n, F)
<1> DEFINE S == {m \in 0 .. n : \E g \in [SUBSET (1 .. m) -> X] : IsFold(g, b, m, F)}
<1>1. 0 \in S
  <2> DEFINE g == [s \in SUBSET (1 .. 0) |-> b]
  <2>1. SUBSET (1 .. 0) = {{}} OBVIOUS
  <2>2. g \in [SUBSET (1 .. 0) -> X] /\ IsFold(g, b, 0, F) BY <2>1 DEF IsFold
  <2> QED BY <2>2
<1>2. ASSUME NEW m \in 1 .. n, m - 1 \in S PROVE m \in S
  <2>1. PICK g \in [SUBSET (1 .. (m - 1)) -> X] : IsFold(g, b, m - 1, F) BY <1>2
  <2> DEFINE h == [s \in SUBSET (1 .. m) |->
                     IF s = {} THEN b ELSE F[g[s \ {Max(s)}], Max(s)]]
  <2>3. ASSUME NEW s \in SUBSET (1 .. (m - 1)) PROVE h[s] = g[s]
    <3>1. s \in SUBSET (1 .. m) OBVIOUS
    <3>2. g[s] = IF s = {} THEN b ELSE F[g[s \ {Max(s)}], Max(s)] BY <2>1 DEF IsFold
    <3> QED BY <3>1, <3>2
  <2>4. IsFold(h, b, m, F)
    <3>1. ASSUME NEW s \in SUBSET (1 .. m), s # {}
          PROVE  h[s] = F[h[s \ {Max(s)}], Max(s)]
      BY <3>1, <2>3, WithoutGreatest
    <3>2. {} \in SUBSET (1 .. m) /\ h[{}] = b OBVIOUS
    <3> HIDE DEF h
    <3> QED BY <3>1, <3>2 DEF IsFold
  <2>5. h \in [SUBSET (1 .. m) -> X]
    <3>1. ASSUME NEW s \in SUBSET (1 .. m), s # {}
          PROVE  F[g[s \ {Max(s)}], Max(s)] \in X
      <4>1. s \ {Max(s)} \in SUBSET (1 .. (m - 1)) /\ Max(s) \in 1 .. n
        BY <3>1, WithoutGreatest
      <4>2. g[s \ {Max(s)}] \in X BY <2>1, <4>1
      <4> QED BY <4>1, <4>2
    <3> QED BY <3>1
  <2> HIDE DEF h
  <2> QED BY <2>4, <2>5
<1>3. S = 0 .. n
  <2>1. S \in SUBSET (0 .. n) OBVIOUS
  <2> HIDE DEF S
  <2> QED BY <1>1, <1>2, <2>1, InductionOnSteps
<1>4. n \in S
  <2> HIDE DEF S
  <2> QED BY <1>3
<1> QED BY <1>4

(* The values that any such function goes through are a run. *)
LEMMA PassesIsRun ==
    ASSUME NEW X, NEW b \in X, NEW n \in Nat, NEW F \in [X \X (1 .. n) -> X], NEW q,
           Passes(q, b, n, X, F)
    PROVE  /\ \A k \in 0 .. n : q[k] \in X
           /\ IsRun(q, b, n, F)
<1> DEFINE S == {k \in 0 .. n : q[k] \in X}
<1>1. q[0] = b BY DEF Passes
<1>2. ASSUME NEW k \in 1 .. n, q[k - 1] \in X PROVE q[k] = F[q[k - 1], k] /\ q[k] \in X
  BY <1>2 DEF Passes
<1>3. \A k \in 1 .. n : k \in 0 .. n /\ k - 1 \in 0 .. n OBVIOUS
<1>4. 0 \in S /\ S \in SUBSET (0 .. n) BY <1>1
<1>5. \A k \in 1 .. n : k - 1 \in S => k \in S BY <1>2, <1>3
<1>6. S = 0 .. n
  <2> HIDE DEF S
  <2> QED BY <1>4, <1>5, InductionOnSteps
<1>7. \A k \in 0 .. n : q[k] \in X BY <1>6
<1> HIDE DEF S
<1>8. \A k \in 1 .. n : q[k] = F[q[k - 1], k] BY <1>2, <1>3, <1>7
<1> QED BY <1>1, <1>7, <1>8 DEF IsRun

LEMMA Intervals ==
    ASSUME NEW n \in Nat, NEW k \in 1 .. n
    PROVE  /\ 1 .. k \in SUBSET (1 .. n) /\ 1 .. k # {}
           /\ Max(1 .. k) = k /\ (1 .. k) \ {k} = 1 .. (k - 1)
<1>1. k \in Nat /\ 1 .. k \in SUBSET (1 .. k) OBVIOUS
<1>2. k \in 1 .. k OBVIOUS
<1>3. Max(1 .. k) = k BY <1>1, <1>2, MaxIsGreatest
<1>4. (1 .. k) \ {k} = 1 .. (k - 1) OBVIOUS
<1> QED BY <1>3, <1>4

LEMMA RunExists ==
    ASSUME NEW X, NEW b \in X, NEW n \in Nat, NEW F \in [X \X (1 .. n) -> X]
    PROVE  \E r \in [0 .. n -> X] : IsRun(r, b, n, F)
<1>1. PICK g \in [SUBSET (1 .. n) -> X] : IsFold(g, b, n, F) BY FoldExists
<1> DEFINE r == [k \in 0 .. n |-> g[1 .. k]]
<1>2. {} \in SUBSET (1 .. n) /\ g[{}] = b BY <1>1 DEF IsFold
<1>3. \A k \in 1 .. n : g[1 .. k] = F[g[1 .. (k - 1)], k]
  BY <1>1, Intervals DEF IsFold
<1>4. 1 .. 0 = {} OBVIOUS
<1>5. \A k \in 1 .. n : k \in 0 .. n /\ k - 1 \in 0 .. n OBVIOUS
<1>6. r[0] = b /\ \A k \in 1 .. n : r[k] = F[r[k - 1], k]
  <2>1. \A k \in 0 .. n : r[k] = g[1 .. k] OBVIOUS
  <2>2. 0 \in 0 .. n OBVIOUS
  <2> HIDE DEF r
  <2>3. r[0] = b BY <1>2, <1>4, <2>1, <2>2
  <2>4. \A k \in 1 .. n : r[k] = F[r[k - 1], k] BY <1>3, <1>5, <2>1
  <2> QED BY <2>3, <2>4
<1> HIDE DEF r
<1>7. Passes(r, b, n, X, F) BY <1>6 DEF Passes
<1>8. (\A k \in 0 .. n : r[k] \in X) /\ IsRun(r, b, n, F) BY <1>7, PassesIsRun
<1>9. r \in [0 .. n -> X] BY <1>8 DEF r
<1> QED BY <1>8, <1>9

(* What holds at the start of a run and is kept by each step holds at the  *)
(* end.                                                                    *)
LEMMA InductionOnRun ==
    ASSUME NEW X, NEW n \in Nat, NEW r \in [0 .. n -> X], NEW P,
           r[0] \in P, \A k \in 1 .. n : r[k - 1] \in P => r[k] \in P
    PROVE  \A k \in 0 .. n : r[k] \in P
<1> DEFINE S == {k \in 0 .. n : r[k] \in P}
<1>1. 0 \in S /\ S \in SUBSET (0 .. n) OBVIOUS
<1>2. \A k \in 1 .. n : k - 1 \in S => k \in S OBVIOUS
<1>3. S = 0 .. n
  <2> HIDE DEF S
  <2> QED BY <1>1, <1>2, InductionOnSteps
<1> QED BY <1>3

-----------------------------------------------------------------------------
(* Sequences of sequences. *)

(* r[k] joins the first k parts of ss. *)
Joins(r, ss, n) == r[0] = <<>> /\ \A k \in 1 .. n : r[k] = r[k - 1] \o ss[k]

LEMMA ConcatRun ==
    ASSUME NEW S, NEW n \in Nat, NEW ss \in [1 .. n -> Seq(S)]
    PROVE  \E r \in [0 .. n -> Seq(S)] : Joins(r, ss, n)
<1> DEFINE X == Seq(S)
           F == [x \in X \X (1 .. n) |-> x[1] \o ss[x[2]]]
<1>1. F \in [X \X (1 .. n) -> X] /\ <<>> \in X OBVIOUS
<1>2. \A q \in X, k \in 1 .. n : F[q, k] = q \o ss[k] OBVIOUS
<1> HIDE DEF F, X
<1>3. PICK r \in [0 .. n -> X] : IsRun(r, <<>>, n, F) BY <1>1, RunExists
<1>4. \A k \in 1 .. n : k - 1 \in 0 .. n OBVIOUS
<1>5. r[0] = <<>> /\ \A k \in 1 .. n : r[k] = r[k - 1] \o ss[k] BY <1>2, <1>3, <1>4 DEF IsRun
<1> QED BY <1>5 DEF X, Joins

LEMMA FlattenRun ==
    ASSUME NEW S, NEW ss \in Seq(Seq(S)), Len(ss) # 0
    PROVE  \E r \in [0 .. Len(ss) -> Seq(S)] :
               Joins(r, ss, Len(ss)) /\ r[Len(ss)] = FlattenSeq(ss)
<1>0. PICK n \in Nat : n = Len(ss) OBVIOUS
<1> DEFINE Def(f) == f = [i \in 1 .. n |-> IF i = 1 THEN ss[i] ELSE f[i - 1] \o ss[i]]
           flat == CHOOSE f : Def(f)
<1>1. n \in Nat /\ n # 0 /\ ss \in [1 .. n -> Seq(S)] BY <1>0
<1>2. FlattenSeq(ss) = flat[n] BY <1>0 DEF FlattenSeq
<1> HIDE DEF flat, Def
<1>3. PICK r \in [0 .. n -> Seq(S)] : Joins(r, ss, n) BY <1>1, ConcatRun
<1>4. \A i \in 1 .. n : r[i] = IF i = 1 THEN ss[i] ELSE r[i - 1] \o ss[i]
  <2>1. r[1] = ss[1]
    <3>1. 1 \in 1 .. n /\ ss[1] \in Seq(S) BY <1>1
    <3>2. r[1] = r[1 - 1] \o ss[1] BY <1>3, <3>1, Zenon DEF Joins
    <3>3. r[1 - 1] = <<>> BY <1>3 DEF Joins
    <3> QED BY <3>1, <3>2, <3>3
  <2> QED BY <1>3, <2>1 DEF Joins
<1>5. Def([i \in 1 .. n |-> r[i]])
  <2>1. \A i \in 1 .. n : i # 1 => i - 1 \in 1 .. n BY <1>1
  <2> QED BY <1>4, <2>1 DEF Def
<1>6. Def(flat) BY <1>5 DEF flat
<1>7. \A i \in 1 .. n : flat[i] = IF i = 1 THEN ss[i] ELSE flat[i - 1] \o ss[i]
  BY <1>6 DEF Def
<1>8. n \in 1 .. n /\ flat[n] = r[n]
  <2> DEFINE T == {i \in 0 .. n : i # 0 => flat[i] = r[i]}
  <2>1. 0 \in T /\ T \in SUBSET (0 .. n) BY <1>1
  <2>2. ASSUME NEW k \in 1 .. n, k - 1 \in T PROVE k \in T
    <3>1. flat[k] = IF k = 1 THEN ss[k] ELSE flat[k - 1] \o ss[k] BY <1>7
    <3>2. r[k] = IF k = 1 THEN ss[k] ELSE r[k - 1] \o ss[k] BY <1>4
    <3>3. k # 1 => flat[k - 1] = r[k - 1] BY <1>1, <2>2
    <3>4. k \in 0 .. n BY <1>1
    <3> QED BY <3>1, <3>2, <3>3, <3>4
  <2>3. T = 0 .. n
    <3> HIDE DEF T
    <3> QED BY <1>1, <2>1, <2>2, InductionOnSteps
  <2>4. n \in T
    <3> HIDE DEF T
    <3> QED BY <1>1, <2>3
  <2> QED BY <1>1, <2>4
<1> QED BY <1>0, <1>2, <1>3, <1>8

(* x is an element of q. *)
Holds(q, x) == \E i \in 1 .. Len(q) : q[i] = x

LEMMA ConcatHolds ==
    ASSUME NEW S, NEW q \in Seq(S), NEW s \in Seq(S)
    PROVE  /\ q \o s \in Seq(S)
           /\ \A x : Holds(q \o s, x) <=> Holds(q, x) \/ Holds(s, x)
<1>1. ASSUME NEW x, Holds(q, x) PROVE Holds(q \o s, x)
  <2>1. PICK i \in 1 .. Len(q) : q[i] = x BY <1>1 DEF Holds
  <2>2. i \in 1 .. Len(q \o s) /\ (q \o s)[i] = x BY <2>1
  <2> QED BY <2>2 DEF Holds
<1>2. ASSUME NEW x, Holds(s, x) PROVE Holds(q \o s, x)
  <2>1. PICK i \in 1 .. Len(s) : s[i] = x BY <1>2 DEF Holds
  <2>2. Len(q) + i \in 1 .. Len(q \o s) /\ (q \o s)[Len(q) + i] = x BY <2>1
  <2> QED BY <2>2 DEF Holds
<1>3. ASSUME NEW x, Holds(q \o s, x) PROVE Holds(q, x) \/ Holds(s, x)
  <2>1. PICK i \in 1 .. Len(q \o s) : (q \o s)[i] = x BY <1>3 DEF Holds
  <2>2. CASE i <= Len(q)
    <3>1. i \in 1 .. Len(q) /\ q[i] = x BY <2>1, <2>2
    <3> QED BY <3>1 DEF Holds
  <2>3. CASE ~(i <= Len(q))
    <3>1. i - Len(q) \in 1 .. Len(s) /\ s[i - Len(q)] = x BY <2>1, <2>3
    <3> QED BY <3>1 DEF Holds
  <2> QED BY <2>2, <2>3
<1>4. q \o s \in Seq(S) OBVIOUS
<1> QED BY <1>1, <1>2, <1>3, <1>4

(* FlattenSeq holds the elements of its parts and nothing else. *)
LEMMA FlattenElements ==
    ASSUME NEW S, NEW ss \in Seq(Seq(S))
    PROVE  /\ FlattenSeq(ss) \in Seq(S)
           /\ \A x : Holds(FlattenSeq(ss), x) <=> \E k \in 1 .. Len(ss) : Holds(ss[k], x)
<1>1. CASE Len(ss) = 0
  BY <1>1 DEF FlattenSeq, Holds
<1>2. CASE Len(ss) # 0
  <2> DEFINE n == Len(ss)
             Up(m, x) == \E k \in 1 .. m : Holds(ss[k], x)
             T(r) == {m \in 0 .. n : \A x : Holds(r[m], x) <=> Up(m, x)}
  <2>1. n \in Nat /\ \A k \in 1 .. n : ss[k] \in Seq(S) OBVIOUS
  <2>2. PICK r \in [0 .. n -> Seq(S)] :
               Joins(r, ss, n) /\ r[n] = FlattenSeq(ss)
    BY <1>2, FlattenRun
  <2> HIDE DEF n
  <2>3. 0 \in T(r) /\ T(r) \in SUBSET (0 .. n) BY <2>1, <2>2 DEF Holds, Joins
  <2>4. ASSUME NEW m \in 1 .. n, m - 1 \in T(r) PROVE m \in T(r)
    <3>1. m \in 0 .. n /\ m - 1 \in 0 .. n BY <2>1
    <3>2. r[m - 1] \in Seq(S) /\ ss[m] \in Seq(S) BY <2>1, <2>2, <3>1
    <3>3. r[m] = r[m - 1] \o ss[m] BY <2>2 DEF Joins
    <3>4. \A x : Holds(r[m], x) <=> Holds(r[m - 1], x) \/ Holds(ss[m], x)
      BY <3>2, <3>3, ConcatHolds
    <3>5. \A x : Up(m, x) <=> Up(m - 1, x) \/ Holds(ss[m], x)
      <4>1. 1 .. m = 1 .. (m - 1) \cup {m} BY <2>1
      <4> QED BY <4>1
    <3>6. \A x : Holds(r[m - 1], x) <=> Up(m - 1, x) BY <2>4
    <3> HIDE DEF Up
    <3> QED BY <3>1, <3>4, <3>5, <3>6
  <2>5. T(r) = 0 .. n
    <3> HIDE DEF T
    <3> QED BY <2>1, <2>3, <2>4, InductionOnSteps
  <2>6. \A x : Holds(r[n], x) <=> Up(n, x)
    <3>1. n \in T(r)
      <4> HIDE DEF T
      <4> QED BY <2>1, <2>5
    <3> QED BY <3>1
  <2>7. FlattenSeq(ss) \in Seq(S) BY <2>1, <2>2
  <2> QED BY <2>2, <2>6, <2>7 DEF n
<1> QED BY <1>1, <1>2

(* Element j of q is element col[j] of part row[j] of ss, and q goes       *)
(* through the first n parts in their order.                               *)
Placed(q, ss, n, row, col) ==
    /\ \A j \in 1 .. Len(q) : /\ row[j] \in 1 .. n /\ col[j] \in 1 .. Len(ss[row[j]])
                              /\ q[j] = ss[row[j]][col[j]]
    /\ \A m \in 1 .. n : \A c \in 1 .. Len(ss[m]) : \E j \in 1 .. Len(q) : row[j] = m /\ col[j] = c
    /\ \A i, j \in 1 .. Len(q) : i < j => row[i] < row[j] \/ (row[i] = row[j] /\ col[i] < col[j])

LEMMA PlacedNext ==
    ASSUME NEW S, NEW n \in Nat \ {0}, NEW ss, \A m \in 1 .. n : ss[m] \in Seq(S),
           NEW q \in Seq(S), NEW row, NEW col, Placed(q, ss, n - 1, row, col)
    PROVE  \E row2, col2 : Placed(q \o ss[n], ss, n, row2, col2)
<1> DEFINE a == Len(q)
           b == Len(ss[n])
           p == q \o ss[n]
           row2 == [j \in 1 .. (a + b) |-> IF j <= a THEN row[j] ELSE n]
           col2 == [j \in 1 .. (a + b) |-> IF j <= a THEN col[j] ELSE j - a]
<1>1. n \in 1 .. n /\ ss[n] \in Seq(S) /\ a \in Nat /\ b \in Nat OBVIOUS
<1>2. /\ Len(p) = a + b /\ \A j \in 1 .. a : p[j] = q[j]
      /\ \A j \in (a + 1) .. (a + b) : p[j] = ss[n][j - a]
  BY <1>1
<1>3. /\ \A j \in 1 .. a : row2[j] = row[j] /\ col2[j] = col[j] /\ j \in 1 .. (a + b)
      /\ \A j \in (a + 1) .. (a + b) : row2[j] = n /\ col2[j] = j - a /\ j \in 1 .. (a + b)
      /\ \A j \in 1 .. (a + b) : j \in 1 .. a \/ j \in (a + 1) .. (a + b)
  BY <1>1
<1>4. /\ \A j \in 1 .. a : /\ row[j] \in 1 .. (n - 1) /\ col[j] \in 1 .. Len(ss[row[j]])
                           /\ q[j] = ss[row[j]][col[j]]
      /\ \A m \in 1 .. (n - 1) : \A c \in 1 .. Len(ss[m]) : \E j \in 1 .. a : row[j] = m /\ col[j] = c
      /\ \A i, j \in 1 .. a : i < j => row[i] < row[j] \/ (row[i] = row[j] /\ col[i] < col[j])
  BY DEF Placed
<1> HIDE DEF a, p, row2, col2
<1>5. ASSUME NEW j \in 1 .. (a + b)
      PROVE  /\ row2[j] \in 1 .. n /\ col2[j] \in 1 .. Len(ss[row2[j]])
             /\ p[j] = ss[row2[j]][col2[j]]
  <2>1. CASE j \in 1 .. a
    <3>1. row[j] \in 1 .. n BY <1>4, <2>1
    <3> QED BY <1>2, <1>3, <1>4, <2>1, <3>1
  <2>2. CASE j \in (a + 1) .. (a + b)
    <3>1. j - a \in 1 .. b BY <1>1, <2>2
    <3> QED BY <1>1, <1>2, <1>3, <2>2, <3>1
  <2> QED BY <1>3, <2>1, <2>2
<1>6. ASSUME NEW m \in 1 .. n, NEW c \in 1 .. Len(ss[m])
      PROVE  \E j \in 1 .. (a + b) : row2[j] = m /\ col2[j] = c
  <2>1. CASE m = n
    <3>1. a + c \in (a + 1) .. (a + b) /\ (a + c) - a = c BY <1>1, <2>1
    <3> QED BY <1>3, <2>1, <3>1
  <2>2. CASE m # n
    <3>1. m \in 1 .. (n - 1) BY <2>2
    <3>2. PICK j \in 1 .. a : row[j] = m /\ col[j] = c BY <1>4, <3>1
    <3> QED BY <1>3, <3>2
  <2> QED BY <2>1, <2>2
<1>7. ASSUME NEW i \in 1 .. (a + b), NEW j \in 1 .. (a + b), i < j
      PROVE  row2[i] < row2[j] \/ (row2[i] = row2[j] /\ col2[i] < col2[j])
  <2>1. CASE i \in 1 .. a /\ j \in 1 .. a BY <1>3, <1>4, <1>7, <2>1
  <2>2. CASE i \in 1 .. a /\ j \in (a + 1) .. (a + b)
    <3>1. row[i] < n BY <1>4, <2>2
    <3> QED BY <1>3, <2>2, <3>1
  <2>3. CASE i \in (a + 1) .. (a + b) /\ j \in (a + 1) .. (a + b) BY <1>1, <1>3, <1>7, <2>3
  <2>4. ~(i \in (a + 1) .. (a + b) /\ j \in 1 .. a) BY <1>1, <1>7
  <2> QED BY <1>3, <2>1, <2>2, <2>3, <2>4
<1>8. Placed(p, ss, n, row2, col2) BY <1>2, <1>5, <1>6, <1>7 DEF Placed
<1> QED BY <1>8 DEF p

(* Where the elements of FlattenSeq come from. *)
LEMMA FlattenPlaces ==
    ASSUME NEW S, NEW ss \in Seq(Seq(S))
    PROVE  \E row, col : Placed(FlattenSeq(ss), ss, Len(ss), row, col)
<1>1. PICK n \in Nat : n = Len(ss) OBVIOUS
<1>2. \A m \in 1 .. n : ss[m] \in Seq(S) BY <1>1
<1>3. \E row, col : Placed(<<>>, ss, 0, row, col)
  <2>1. Len(<<>>) = 0 /\ 1 .. 0 = {} OBVIOUS
  <2>2. \A row, col : Placed(<<>>, ss, 0, row, col) BY <2>1 DEF Placed
  <2> QED BY <2>2
<1>4. CASE n = 0
  <2>1. FlattenSeq(ss) = <<>>
    <3>1. Len(ss) = 0 BY <1>1, <1>4
    <3>2. FlattenSeq(ss) = ss BY <3>1 DEF FlattenSeq
    <3>3. ss = <<>> BY <3>1
    <3> QED BY <3>2, <3>3
  <2>2. PICK row, col : Placed(<<>>, ss, 0, row, col) BY <1>3
  <2>3. Placed(FlattenSeq(ss), ss, Len(ss), row, col) BY <1>1, <1>4, <2>1, <2>2
  <2> QED BY <2>3
<1>5. CASE n # 0
  <2>1. PICK r \in [0 .. n -> Seq(S)] : Joins(r, ss, n) /\ r[n] = FlattenSeq(ss)
    BY <1>1, <1>5, FlattenRun
  <2> DEFINE T == {k \in 0 .. n : \E row, col : Placed(r[k], ss, k, row, col)}
  <2>2. 0 \in T BY <1>3, <2>1 DEF Joins
  <2>3. ASSUME NEW k \in 1 .. n, k - 1 \in T PROVE k \in T
    <3>1. PICK row, col : Placed(r[k - 1], ss, k - 1, row, col) BY <2>3
    <3>2. k \in 0 .. n /\ k - 1 \in 0 .. n /\ k \in Nat \ {0} /\ \A m \in 1 .. k : m \in 1 .. n OBVIOUS
    <3>3. \E row2, col2 : Placed(r[k - 1] \o ss[k], ss, k, row2, col2)
      BY <1>2, <2>1, <3>1, <3>2, PlacedNext
    <3>4. r[k] = r[k - 1] \o ss[k] BY <2>1 DEF Joins
    <3> QED BY <3>2, <3>3, <3>4
  <2>4. T \in SUBSET (0 .. n) OBVIOUS
  <2>5. T = 0 .. n
    <3> HIDE DEF T
    <3> QED BY <2>2, <2>3, <2>4, InductionOnSteps
  <2>6. n \in T
    <3> HIDE DEF T
    <3>1. n \in 0 .. n OBVIOUS
    <3> QED BY <2>5, <3>1
  <2>7. \E row, col : Placed(r[n], ss, n, row, col) BY <2>6
  <2> QED BY <1>1, <2>1, <2>7
<1> QED BY <1>4, <1>5

(* The elements of s in P, in their order. *)
Sieve(s, P) == FlattenSeq([i \in DOMAIN s |-> IF s[i] \in P THEN <<s[i]>> ELSE <<>>])

LEMMA SieveElements ==
    ASSUME NEW S, NEW s \in Seq(S), NEW P
    PROVE  /\ Sieve(s, P) \in Seq(S)
           /\ \A x : Holds(Sieve(s, P), x) <=> Holds(s, x) /\ x \in P
<1> DEFINE ss == [i \in DOMAIN s |-> IF s[i] \in P THEN <<s[i]>> ELSE <<>>]
<1>1. DOMAIN s = 1 .. Len(s) /\ Len(s) \in Nat /\ \A i \in 1 .. Len(s) : s[i] \in S OBVIOUS
<1>2. \A i \in 1 .. Len(s) : ss[i] = IF s[i] \in P THEN <<s[i]>> ELSE <<>> BY <1>1
<1>3. \A i \in 1 .. Len(s) : ss[i] \in Seq(S)
  <2>1. ASSUME NEW i \in 1 .. Len(s) PROVE <<s[i]>> \in Seq(S) BY <1>1
  <2>2. <<>> \in Seq(S) OBVIOUS
  <2> QED BY <1>2, <2>1, <2>2
<1>4. DOMAIN ss = 1 .. Len(s) BY <1>1
<1>5. ss \in Seq(Seq(S)) /\ Len(ss) = Len(s)
  <2>1. ss \in [1 .. Len(s) -> Seq(S)]
    <3> HIDE DEF ss
    <3>1. ss = [i \in 1 .. Len(s) |-> ss[i]] BY <1>1 DEF ss
    <3> QED BY <1>3, <3>1
  <2> HIDE DEF ss
  <2> QED BY <1>1, <1>4, <2>1
<1>6. \A i \in 1 .. Len(s) : \A x : Holds(ss[i], x) <=> s[i] = x /\ x \in P
  <2> SUFFICES ASSUME NEW i \in 1 .. Len(s), NEW x PROVE Holds(ss[i], x) <=> s[i] = x /\ x \in P
    OBVIOUS
  <2>1. CASE s[i] \in P
    <3>1. ss[i] = <<s[i]>> BY <1>2, <2>1
    <3>2. Len(<<s[i]>>) = 1 /\ <<s[i]>>[1] = s[i] OBVIOUS
    <3> HIDE DEF ss
    <3> QED BY <2>1, <3>1, <3>2 DEF Holds
  <2>2. CASE s[i] \notin P
    <3>1. ss[i] = <<>> BY <1>2, <2>2
    <3> HIDE DEF ss
    <3> QED BY <2>2, <3>1 DEF Holds
  <2> QED BY <2>1, <2>2
<1>7. Sieve(s, P) = FlattenSeq(ss) BY DEF Sieve
<1> HIDE DEF ss
<1>8. Sieve(s, P) \in Seq(S) /\ \A x : Holds(Sieve(s, P), x) <=> \E k \in 1 .. Len(s) : Holds(ss[k], x)
  BY <1>5, <1>7, FlattenElements
<1>9. \A x : Holds(s, x) <=> \E k \in 1 .. Len(s) : s[k] = x BY DEF Holds
<1> QED BY <1>6, <1>8, <1>9

(* Element j of q is element at[j] of s; q goes through those in P.        *)
Picked(q, s, P, at) ==
    /\ \A j \in 1 .. Len(q) : at[j] \in 1 .. Len(s) /\ q[j] = s[at[j]] /\ q[j] \in P
    /\ \A i \in 1 .. Len(s) : s[i] \in P => \E j \in 1 .. Len(q) : at[j] = i
    /\ \A i, j \in 1 .. Len(q) : i < j => at[i] < at[j]

LEMMA SievePlaces ==
    ASSUME NEW S, NEW s \in Seq(S), NEW P
    PROVE  Sieve(s, P) \in Seq(S) /\ \E at : Picked(Sieve(s, P), s, P, at)
<1> DEFINE ss == [i \in DOMAIN s |-> IF s[i] \in P THEN <<s[i]>> ELSE <<>>]
<1>1. PICK n \in Nat : n = Len(s) /\ DOMAIN s = 1 .. n /\ \A i \in 1 .. n : s[i] \in S OBVIOUS
<1>2. \A i \in 1 .. n : ss[i] = IF s[i] \in P THEN <<s[i]>> ELSE <<>> BY <1>1
<1>3. \A i \in 1 .. n : ss[i] \in Seq(S)
  <2>1. ASSUME NEW i \in 1 .. n PROVE <<s[i]>> \in Seq(S) BY <1>1
  <2>2. <<>> \in Seq(S) OBVIOUS
  <2> QED BY <1>2, <2>1, <2>2
<1>4. ss \in Seq(Seq(S)) /\ Len(ss) = n
  <2>0. ss = [i \in 1 .. n |-> ss[i]] BY <1>1
  <2> HIDE DEF ss
  <2>1. ss \in [1 .. n -> Seq(S)] BY <1>3, <2>0
  <2> QED BY <1>1, <2>1
<1>5. Sieve(s, P) = FlattenSeq(ss) BY DEF Sieve
<1> HIDE DEF ss
<1>6. FlattenSeq(ss) \in Seq(S) BY <1>4, FlattenElements
<1>7. PICK q \in Seq(S) : q = FlattenSeq(ss) BY <1>6
<1>8. PICK row, col : Placed(q, ss, n, row, col) BY <1>4, <1>7, FlattenPlaces
<1>9. \A i \in 1 .. n : /\ s[i] \in P => Len(ss[i]) = 1 /\ ss[i][1] = s[i]
                        /\ s[i] \notin P => Len(ss[i]) = 0
  <2> SUFFICES ASSUME NEW i \in 1 .. n
               PROVE  /\ s[i] \in P => Len(ss[i]) = 1 /\ ss[i][1] = s[i]
                      /\ s[i] \notin P => Len(ss[i]) = 0
    OBVIOUS
  <2>1. PICK x : x = s[i] OBVIOUS
  <2>2. Len(<<x>>) = 1 /\ <<x>>[1] = x /\ Len(<<>>) = 0 OBVIOUS
  <2> QED BY <1>2, <2>1, <2>2
<1>10. \A j \in 1 .. Len(q) : row[j] \in 1 .. n /\ q[j] = s[row[j]] /\ q[j] \in P /\ col[j] = 1
  <2> SUFFICES ASSUME NEW j \in 1 .. Len(q)
               PROVE  row[j] \in 1 .. n /\ q[j] = s[row[j]] /\ q[j] \in P /\ col[j] = 1
    OBVIOUS
  <2>1. row[j] \in 1 .. n /\ col[j] \in 1 .. Len(ss[row[j]]) /\ q[j] = ss[row[j]][col[j]]
    BY <1>8 DEF Placed
  <2>2. s[row[j]] \in P BY <1>9, <2>1
  <2>3. Len(ss[row[j]]) = 1 BY <1>9, <2>1, <2>2
  <2> QED BY <1>9, <2>1, <2>2, <2>3
<1>11. \A i \in 1 .. n : s[i] \in P => \E j \in 1 .. Len(q) : row[j] = i
  <2> SUFFICES ASSUME NEW i \in 1 .. n, s[i] \in P PROVE \E j \in 1 .. Len(q) : row[j] = i OBVIOUS
  <2>1. 1 \in 1 .. Len(ss[i]) BY <1>9
  <2> QED BY <1>8, <2>1 DEF Placed
<1>12. \A i, j \in 1 .. Len(q) : i < j => row[i] < row[j]
  <2> SUFFICES ASSUME NEW i \in 1 .. Len(q), NEW j \in 1 .. Len(q), i < j PROVE row[i] < row[j] OBVIOUS
  <2>1. row[i] < row[j] \/ (row[i] = row[j] /\ col[i] < col[j]) BY <1>8 DEF Placed
  <2>2. col[i] = 1 /\ col[j] = 1 BY <1>10
  <2> QED BY <2>1, <2>2
<1>13. Picked(q, s, P, row) BY <1>1, <1>10, <1>11, <1>12 DEF Picked
<1> QED BY <1>5, <1>7, <1>13

(* No element occurs twice. *)
Once(s) == \A i, j \in 1 .. Len(s) : s[i] = s[j] => i = j

LEMMA SieveOnce ==
    ASSUME NEW S, NEW s \in Seq(S), NEW P, Once(s)
    PROVE  Once(Sieve(s, P))
<1>1. PICK q \in Seq(S) : q = Sieve(s, P) BY SievePlaces
<1>2. PICK at : Picked(q, s, P, at) BY <1>1, SievePlaces
<1>3. ASSUME NEW i \in 1 .. Len(q), NEW j \in 1 .. Len(q), q[i] = q[j] PROVE i = j
  <2>1. at[i] \in 1 .. Len(s) /\ at[j] \in 1 .. Len(s) /\ q[i] = s[at[i]] /\ q[j] = s[at[j]]
    BY <1>2 DEF Picked
  <2>2. at[i] = at[j] BY <1>3, <2>1 DEF Once
  <2>3. ~(i < j) /\ ~(j < i) BY <1>2, <2>1, <2>2 DEF Picked
  <2> QED BY <2>3
<1> QED BY <1>1, <1>3 DEF Once

LEMMA FlattenOnce ==
    ASSUME NEW S, NEW ss \in Seq(Seq(S)), \A k \in 1 .. Len(ss) : Once(ss[k]),
           \A k, m \in 1 .. Len(ss) : k # m => \A x : ~(Holds(ss[k], x) /\ Holds(ss[m], x))
    PROVE  Once(FlattenSeq(ss))
<1>1. PICK q \in Seq(S) : q = FlattenSeq(ss) BY FlattenElements
<1>2. PICK row, col : Placed(q, ss, Len(ss), row, col) BY <1>1, FlattenPlaces
<1>3. ASSUME NEW i \in 1 .. Len(q), NEW j \in 1 .. Len(q), q[i] = q[j] PROVE i = j
  <2>1. /\ row[i] \in 1 .. Len(ss) /\ col[i] \in 1 .. Len(ss[row[i]]) /\ q[i] = ss[row[i]][col[i]]
        /\ row[j] \in 1 .. Len(ss) /\ col[j] \in 1 .. Len(ss[row[j]]) /\ q[j] = ss[row[j]][col[j]]
    BY <1>2 DEF Placed
  <2>2. Holds(ss[row[i]], q[i]) /\ Holds(ss[row[j]], q[i]) BY <1>3, <2>1 DEF Holds
  <2>3. row[i] = row[j] BY <2>1, <2>2
  <2>4. col[i] = col[j] BY <1>3, <2>1, <2>3 DEF Once
  <2>5. row[i] \in Nat /\ col[i] \in Nat BY <2>1
  <2>6. i < j => row[i] < row[j] \/ (row[i] = row[j] /\ col[i] < col[j]) BY <1>2 DEF Placed
  <2>7. j < i => row[j] < row[i] \/ (row[j] = row[i] /\ col[j] < col[i]) BY <1>2 DEF Placed
  <2>8. ~(i < j) /\ ~(j < i) BY <2>3, <2>4, <2>5, <2>6, <2>7
  <2> QED BY <2>8
<1> QED BY <1>1, <1>3 DEF Once

(* SetToSeq lists a finite set. *)
LEMMA SetToSeqElements ==
    ASSUME NEW S, IsFiniteSet(S)
    PROVE  /\ SetToSeq(S) \in Seq(S)
           /\ \A x \in S : Holds(SetToSeq(S), x)
<1>1. PICK n \in Nat : n = Cardinality(S) BY FS_CardinalityType
<1>2. ExistsBijection(1 .. n, S) BY <1>1, FS_CardinalityType
<1>3. PICK f \in [1 .. n -> S] : IsInjective(f)
  BY <1>2 DEF ExistsBijection, Bijection, Injection, IsInjective
<1>4. PICK g : g = SetToSeq(S) OBVIOUS
<1>5. g \in [1 .. n -> S] /\ IsInjective(g) BY <1>1, <1>3, <1>4, Zenon DEF SetToSeq
<1>6. g \in Injection(1 .. n, S) BY <1>5 DEF Injection, IsInjective
<1>7. IsFiniteSet(1 .. n) /\ Cardinality(1 .. n) = n BY FS_Interval
<1>8. g \in Surjection(1 .. n, S) BY <1>1, <1>6, <1>7, FS_Injection
<1>9. \A x \in S : \E k \in 1 .. n : g[k] = x BY <1>8 DEF Surjection
<1>10. g \in Seq(S) /\ Len(g) = n BY <1>5
<1> QED BY <1>4, <1>9, <1>10 DEF Holds
=============================================================================
