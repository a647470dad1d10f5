--------------------------- MODULE Searches_proofs ---------------------------
(***************************************************************************)
(* Search commands for every vocabulary and every command, and the         *)
(* short-term memory for every sequence of searches.  In this order: the   *)
(* parts of a command hold its words in their order, and its parameters    *)
(* are well formed; a command that gives both ends of a path has found     *)
(* exactly those when it is read, so that the path search is the handler   *)
(* that is called; a fragment is told to be said before from what the      *)
(* memory held when the call was made.                                     *)
(***************************************************************************)
EXTENDS Searches, ShortTerm, Induction

-----------------------------------------------------------------------------
(* What a search is made of. *)

NameWords == Words \cup {Anything, Wild}
SearchParameters ==
    [Name : Seq(NameWords), From : Seq(NameWords), To : Seq(NameWords),
     Chapter : NameWords \cup {"", Contents, HelpChapter}, Context : Seq(NameWords),
     Arrows : Seq(NameWords), PageNr : Int, Range : Int, Min : Seq(Int), Max : Seq(Int),
     Finds : Seq(NameWords), Sequence : BOOLEAN, Stats : BOOLEAN, Horizon : Int, Shared : BOOLEAN]

SearchesTypeOK ==
    /\ stage \in {"start", "filling", "decoded", "answered", "exited", "panicked"}
    /\ words \in Seq(Words) /\ parts \in Seq(Seq(Words))
    /\ c \in Nat \ {0} /\ p \in Nat \ {0} /\ param \in SearchParameters

LEMMA AppendHolds ==
    ASSUME NEW S, NEW q \in Seq(S), NEW x \in S
    PROVE  Append(q, x) \in Seq(S) /\ \A y : Holds(Append(q, x), y) <=> Holds(q, y) \/ y = x
<1>1. Append(q, x) = q \o <<x>> /\ <<x>> \in Seq(S) OBVIOUS
<1>2. PICK s \in Seq(S) : s = <<x>> BY <1>1
<1>3. \A y : Holds(s, y) <=> y = x BY <1>2 DEF Holds
<1>4. Append(q, x) = q \o s BY <1>1, <1>2
<1> QED BY <1>3, <1>4, ConcatHolds

(* The words of a query that was not put as a command. *)
LEMMA RewrittenIs ==
    ASSUME NEW ws \in Seq(Words)
    PROVE  Rewritten(ws) \in Seq(Words)
<1> DEFINE ss == [i \in DOMAIN ws |-> IF ws[i] \in Concepts THEN ConceptQuery ELSE <<ws[i]>>]
<1>1. RemindQuery \in Seq(Words) /\ ConceptQuery \in Seq(Words) BY SearchesAssumption
<1>2. ss \in Seq(Seq(Words))
  <2>1. PICK n \in Nat : n = Len(ws) /\ DOMAIN ws = 1 .. n /\ \A i \in 1 .. n : ws[i] \in Words OBVIOUS
  <2>2. ASSUME NEW i \in 1 .. n PROVE ss[i] \in Seq(Words)
    <3>1. ss[i] = IF ws[i] \in Concepts THEN ConceptQuery ELSE <<ws[i]>> BY <2>1
    <3>2. <<ws[i]>> \in Seq(Words)
      <4>1. PICK w \in Words : w = ws[i] BY <2>1
      <4>2. <<w>> \in Seq(Words) OBVIOUS
      <4> QED BY <4>1, <4>2
    <3> QED BY <1>1, <3>1, <3>2
  <2>3. ss = [i \in 1 .. n |-> ss[i]] BY <2>1
  <2> HIDE DEF ss
  <2> QED BY <2>2, <2>3
<1>3. Rewritten(ws) = IF ws = <<>> THEN RemindQuery ELSE FlattenSeq(ss) BY DEF Rewritten
<1> HIDE DEF ss
<1> QED BY <1>1, <1>2, <1>3, FlattenElements

LEMMA AppendJoined ==
    ASSUME NEW S, NEW a \in Seq(S), NEW b \in Seq(S), NEW x \in S
    PROVE  a \o Append(b, x) = Append(a \o b, x)
<1>1. PICK s : s = <<x>> OBVIOUS
<1>2. s \in Seq(S) /\ Append(b, x) = b \o s /\ Append(a \o b, x) = (a \o b) \o s BY <1>1
<1>3. a \o (b \o s) = (a \o b) \o s BY <1>2
<1> QED BY <1>2, <1>3

(* A word more at the end of the last part, or in a part of its own.       *)
LEMMA FlattenTail ==
    ASSUME NEW S, NEW ss \in Seq(Seq(S)), NEW ss2 \in Seq(Seq(S)), NEW x \in S, NEW L \in Nat, L # 0,
           Len(ss) = L, \A k \in 1 .. (L - 1) : ss2[k] = ss[k],
           \/ Len(ss2) = L + 1 /\ ss2[L] = ss[L] /\ ss2[L + 1] = <<x>>
           \/ Len(ss2) = L /\ ss2[L] = Append(ss[L], x)
    PROVE  FlattenSeq(ss2) = Append(FlattenSeq(ss), x)
<1>1. PICK n \in Nat : n = Len(ss2) /\ n # 0 /\ (n = L \/ n = L + 1) OBVIOUS
<1>2. PICK r \in [0 .. L -> Seq(S)] : Joins(r, ss, L) /\ r[L] = FlattenSeq(ss) BY FlattenRun
<1>3. PICK r2 \in [0 .. n -> Seq(S)] : Joins(r2, ss2, n) /\ r2[n] = FlattenSeq(ss2) BY <1>1, FlattenRun
<1>4. /\ r[0] = <<>> /\ \A k \in 1 .. L : r[k] = r[k - 1] \o ss[k]
      /\ r2[0] = <<>> /\ \A k \in 1 .. n : r2[k] = r2[k - 1] \o ss2[k]
  BY <1>2, <1>3 DEF Joins
<1>5. /\ L \in 1 .. L /\ L \in 1 .. n /\ n \in 1 .. n /\ L - 1 \in 0 .. (L - 1) /\ L - 1 \in 0 .. L
      /\ \A k \in 1 .. (L - 1) : k \in 1 .. L /\ k \in 1 .. n
  BY <1>1
<1> DEFINE T == {k \in 0 .. (L - 1) : r2[k] = r[k]}
<1>6. T = 0 .. (L - 1)
  <2>1. 0 \in T /\ T \in SUBSET (0 .. (L - 1)) /\ L - 1 \in Nat BY <1>4
  <2>2. ASSUME NEW k \in 1 .. (L - 1), k - 1 \in T PROVE k \in T
    <3>1. r2[k] = r2[k - 1] \o ss2[k] /\ r[k] = r[k - 1] \o ss[k] BY <1>4, <1>5
    <3>2. r2[k - 1] = r[k - 1] BY <2>2
    <3>3. ss2[k] = ss[k] /\ k \in 0 .. (L - 1)
      <4>1. ss2[k] = ss[k] BY Zenon
      <4>2. k \in 0 .. (L - 1) BY <2>2
      <4> QED BY <4>1, <4>2
    <3>4. r2[k] = r[k] BY <3>1, <3>2, <3>3, Zenon
    <3> QED BY <3>3, <3>4
  <2> HIDE DEF T
  <2> QED BY <2>1, <2>2, InductionOnSteps
<1>7. r2[L - 1] = r[L - 1]
  <2>1. L - 1 \in T BY <1>5, <1>6
  <2> QED BY <2>1
<1>8. PICK a \in Seq(S), b \in Seq(S) : a = r[L - 1] /\ b = ss[L] BY <1>2, <1>5
<1>9. r[L] = a \o b BY <1>4, <1>5, <1>8
<1>10. CASE Len(ss2) = L + 1 /\ ss2[L] = ss[L] /\ ss2[L + 1] = <<x>>
  <2>1. n = L + 1 /\ L + 1 \in 1 .. n /\ (L + 1) - 1 = L BY <1>1, <1>10
  <2>2. r2[L] = a \o b BY <1>4, <1>5, <1>7, <1>8, <1>10
  <2>3. r2[L + 1] = r2[(L + 1) - 1] \o ss2[L + 1] BY <1>4, <2>1
  <2>4. r2[n] = (a \o b) \o <<x>> BY <1>10, <2>1, <2>2, <2>3
  <2>5. (a \o b) \o <<x>> = Append(a \o b, x) OBVIOUS
  <2> QED BY <1>2, <1>3, <1>9, <2>4, <2>5
<1>11. CASE Len(ss2) = L /\ ss2[L] = Append(ss[L], x)
  <2>1. n = L BY <1>1, <1>11
  <2>2. r2[L] = a \o Append(b, x) BY <1>4, <1>5, <1>7, <1>8, <1>11
  <2>3. a \o Append(b, x) = Append(a \o b, x)
    <3>1. a \in Seq(S) /\ b \in Seq(S) /\ x \in S OBVIOUS
    <3> QED BY ONLY <3>1, AppendJoined
  <2> QED BY <1>2, <1>3, <1>9, <2>1, <2>2, <2>3
<1> QED BY <1>10, <1>11

(* One step of DecodeSearchField. *)
SegmentNext(ws, ps, i) ==
    IF Begins(ws, i) THEN Append(ps, <<ws[i]>>) ELSE [ps EXCEPT ![Len(ps)] = Append(@, ws[i])]
Segments == {ps \in Seq(Seq(Words)) : Len(ps) # 0}

LEMMA SegmentNextIs ==
    ASSUME NEW ws \in Seq(Words), NEW i \in 1 .. Len(ws), NEW ps \in Segments
    PROVE  /\ SegmentNext(ws, ps, i) \in Segments
           /\ FlattenSeq(SegmentNext(ws, ps, i)) = Append(FlattenSeq(ps), ws[i])
<1>1. PICK w \in Words : w = ws[i] OBVIOUS
<1>2. PICK L \in Nat : L = Len(ps) /\ L # 0 /\ DOMAIN ps = 1 .. L BY DEF Segments
<1>3. ps \in Seq(Seq(Words)) /\ \A m \in 1 .. L : ps[m] \in Seq(Words) BY <1>2 DEF Segments
<1>4. PICK ps2 : ps2 = SegmentNext(ws, ps, i) OBVIOUS
<1>5. CASE Begins(ws, i)
  <2>1. ps2 = Append(ps, <<w>>) BY <1>1, <1>4, <1>5 DEF SegmentNext
  <2>2. PICK one \in Seq(Words) : one = <<w>>
    <3>1. <<w>> \in Seq(Words) OBVIOUS
    <3> QED BY <3>1
  <2>3. /\ ps2 \in Seq(Seq(Words)) /\ Len(ps2) = L + 1 /\ ps2[L + 1] = one
        /\ \A m \in 1 .. L : ps2[m] = ps[m]
    BY <1>2, <1>3, <2>1, <2>2
  <2>4. ps2 \in Segments BY <1>2, <2>3 DEF Segments
  <2>5. \A k \in 1 .. (L - 1) : ps2[k] = ps[k] BY <2>3
  <2>6. L \in 1 .. L BY <1>2
  <2>7. FlattenSeq(ps2) = Append(FlattenSeq(ps), w)
    <3>1. Len(ps2) = L + 1 /\ ps2[L] = ps[L] /\ ps2[L + 1] = <<w>> BY <2>2, <2>3, <2>6
    <3> QED BY <1>2, <1>3, <2>3, <2>5, <3>1, FlattenTail, Zenon
  <2> QED BY <1>1, <1>4, <2>4, <2>7
<1>6. CASE ~Begins(ws, i)
  <2>1. PICK last \in Seq(Words) : last = ps[L] BY <1>2, <1>3
  <2>2. ps2 = [ps EXCEPT ![L] = Append(last, w)] BY <1>1, <1>2, <1>4, <1>6, <2>1 DEF SegmentNext
  <2>3. /\ ps2 \in Seq(Seq(Words)) /\ Len(ps2) = L /\ ps2[L] = Append(last, w)
        /\ \A m \in 1 .. L : m # L => ps2[m] = ps[m]
    BY <1>2, <1>3, <2>2
  <2>4. ps2 \in Segments BY <1>2, <2>3 DEF Segments
  <2>5. \A k \in 1 .. (L - 1) : ps2[k] = ps[k] BY <2>3
  <2>6. FlattenSeq(ps2) = Append(FlattenSeq(ps), w) BY <1>2, <1>3, <2>1, <2>3, <2>5, FlattenTail
  <2> QED BY <1>1, <1>4, <2>4, <2>6
<1> QED BY <1>5, <1>6

(* DecodeSearchField splits a command into parts that hold all its words   *)
(* in their order.                                                         *)
LEMMA SegmentIs ==
    ASSUME NEW ws \in Seq(Words)
    PROVE  Segment(ws) \in Segments /\ FlattenSeq(Segment(ws)) = ws
<1> DEFINE n == Len(ws)
           X == Segments
           first == <<<<>>>>
           F == [x \in X \X (1 .. n) |-> SegmentNext(ws, x[1], x[2])]
           Def(f) == f = [i \in 0 .. n |->
               IF i = 0 THEN <<<<>>>>
               ELSE LET ps == f[i - 1]
                    IN  IF Begins(ws, i) THEN Append(ps, <<ws[i]>>)
                        ELSE [ps EXCEPT ![Len(ps)] = Append(@, ws[i])]]
           segments == CHOOSE f : Def(f)
<1>1. Segment(ws) = segments[n] BY Zenon DEF Segment
<1>2. first \in X /\ Len(first) = 1 /\ first[1] = <<>>
  <2>1. PICK e \in Seq(Words) : e = <<>>
    <3>1. <<>> \in Seq(Words) OBVIOUS
    <3> QED BY <3>1
  <2>2. <<e>> \in Seq(Seq(Words)) /\ Len(<<e>>) = 1 OBVIOUS
  <2> QED BY <2>1, <2>2 DEF Segments
<1>3. n \in Nat /\ \A k \in 1 .. n : k - 1 \in 0 .. n /\ k \in 0 .. n /\ k # 0
  <2>1. n \in Nat OBVIOUS
  <2> HIDE DEF n
  <2> QED BY <2>1
<1>4. \A x \in X, k \in 1 .. n : SegmentNext(ws, x, k) \in X BY SegmentNextIs
<1>5. \A f : Def(f) <=> f = [i \in 0 .. n |-> IF i = 0 THEN first ELSE SegmentNext(ws, f[i - 1], i)]
  BY DEF SegmentNext
<1> HIDE DEF X, n, first, Def
<1>6. F \in [X \X (1 .. n) -> X] /\ \A x \in X, k \in 1 .. n : F[x, k] = SegmentNext(ws, x, k)
  BY <1>4
<1> HIDE DEF F
<1>7. PICK r \in [0 .. n -> X] : IsRun(r, first, n, F) BY <1>2, <1>3, <1>6, RunExists
<1>8. r[0] = first /\ \A k \in 1 .. n : r[k] = SegmentNext(ws, r[k - 1], k)
  BY <1>3, <1>6, <1>7 DEF IsRun
<1>9. Def(r)
  <2>1. \A k \in 0 .. n : r[k] = IF k = 0 THEN first ELSE SegmentNext(ws, r[k - 1], k)
    <3>1. \A k \in 0 .. n : k # 0 => k \in 1 .. n BY <1>3
    <3> QED BY <1>8, <3>1
  <2>2. r = [k \in 0 .. n |-> r[k]] BY <1>7
  <2>3. [k \in 0 .. n |-> r[k]]
          = [k \in 0 .. n |-> IF k = 0 THEN first ELSE SegmentNext(ws, r[k - 1], k)]
    BY <2>1
  <2> QED BY <1>5, <2>2, <2>3
<1>10. Def(segments) BY <1>9
<1> HIDE DEF segments
<1>11. \A k \in 0 .. n : segments[k] = IF k = 0 THEN first ELSE SegmentNext(ws, segments[k - 1], k)
  BY <1>5, <1>10
<1> DEFINE S == {k \in 0 .. n : segments[k] \in X /\ FlattenSeq(segments[k]) = SubSeq(ws, 1, k)}
<1>12. 0 \in S
  <2>1. 0 \in 0 .. n BY <1>3
  <2>2. segments[0] = first BY <1>11, <2>1
  <2>3. FlattenSeq(first) = <<>>
    <3>1. PICK e \in Seq(Words) : e = <<>>
      <4>1. <<>> \in Seq(Words) OBVIOUS
      <4> QED BY <4>1
    <3>2. PICK ss \in Seq(Seq(Words)) : ss = first /\ Len(ss) = 1 /\ ss[1] = e
      <4>1. <<e>> \in Seq(Seq(Words)) /\ Len(<<e>>) = 1 /\ <<e>>[1] = e BY <3>1
      <4>2. first = <<e>> BY <1>2, <3>1 DEF first
      <4> QED BY <4>1, <4>2
    <3>3. \A x : ~Holds(FlattenSeq(ss), x) /\ FlattenSeq(ss) \in Seq(Words)
      <4>1. \A x : Holds(FlattenSeq(ss), x) <=> \E k \in 1 .. 1 : Holds(ss[k], x)
        BY <3>2, FlattenElements
      <4>2. \A x : ~Holds(e, x) BY <3>1 DEF Holds
      <4>3. \A k \in 1 .. 1 : ss[k] = e BY <3>2
      <4> QED BY <4>1, <4>2, <4>3, FlattenElements
    <3>4. PICK f \in Seq(Words) : f = FlattenSeq(ss) BY <3>3
    <3>5. Len(f) = 0
      <4>1. ASSUME Len(f) # 0 PROVE FALSE
        <5>1. 1 \in 1 .. Len(f) BY <4>1
        <5>2. Holds(f, f[1]) BY <5>1 DEF Holds
        <5> QED BY <3>3, <3>4, <5>2
      <4> QED BY <4>1
    <3> QED BY <3>2, <3>4, <3>5
  <2>4. SubSeq(ws, 1, 0) = <<>> OBVIOUS
  <2> QED BY <1>2, <2>1, <2>2, <2>3, <2>4
<1>13. ASSUME NEW k \in 1 .. n, k - 1 \in S PROVE k \in S
  <2>1. k \in 0 .. n /\ k - 1 \in 0 .. n /\ k # 0 BY <1>3
  <2>2. PICK ps \in X : ps = segments[k - 1] /\ FlattenSeq(ps) = SubSeq(ws, 1, k - 1) BY <1>13
  <2>3. segments[k] = SegmentNext(ws, ps, k) BY <1>11, <2>1, <2>2
  <2>4. k \in 1 .. Len(ws) /\ ps \in Segments BY DEF n, X
  <2>5. FlattenSeq(SegmentNext(ws, ps, k)) = Append(SubSeq(ws, 1, k - 1), ws[k])
    BY <2>2, <2>4, SegmentNextIs
  <2>6. Append(SubSeq(ws, 1, k - 1), ws[k]) = SubSeq(ws, 1, k) BY <2>4
  <2>7. SegmentNext(ws, ps, k) \in X BY <1>4
  <2> QED BY <2>1, <2>3, <2>5, <2>6, <2>7
<1>14. S \in SUBSET (0 .. n) OBVIOUS
<1>15. n \in S
  <2> HIDE DEF S
  <2>1. S = 0 .. n BY <1>3, <1>12, <1>13, <1>14, InductionOnSteps
  <2> QED BY <1>3, <2>1
<1>16. SubSeq(ws, 1, n) = ws BY DEF n
<1> QED BY <1>1, <1>15, <1>16 DEF X, n

-----------------------------------------------------------------------------
(* The words FillInParameters reads. *)

LEMMA LeastInInterval ==
    ASSUME NEW i \in Nat, NEW j \in Int, NEW S \in SUBSET (i .. j), S # {}
    PROVE  Min(S) \in S /\ \A x \in S : Min(S) <= x
<1>1. S \in SUBSET Nat OBVIOUS
<1>2. PICK x \in S : \A y \in S : x <= y BY <1>1, LeastNatural
<1> QED BY <1>2 DEF Min

(* IsParam: the words up to the next command word.                         *)
LEMMA ParamsFromIs ==
    ASSUME Part \in Seq(Words), NEW i \in 1 .. (Len(Part) + 1)
    PROVE  /\ ParamsFrom(i) \in Seq(Words) /\ i + Len(ParamsFrom(i)) <= Len(Part) + 1
           /\ \A k \in 1 .. Len(ParamsFrom(i)) : /\ ParamsFrom(i)[k] = Part[i + k - 1]
                                                 /\ ~IsCommand[Part[i + k - 1]]
           /\ i + Len(ParamsFrom(i)) <= Len(Part) => IsCommand[Part[i + Len(ParamsFrom(i))]]
<1> DEFINE part == Part
           stops == {j \in i .. Len(part) : IsCommand[part[j]]}
           stop == IF stops = {} THEN Len(part) ELSE Min(stops) - 1
<1>1. part \in Seq(Words) /\ i \in 1 .. (Len(part) + 1) OBVIOUS
<1>2. ParamsFrom(i) = SubSeq(part, i, stop) BY DEF ParamsFrom
<1> HIDE DEF part
<1>3. Len(part) \in Nat /\ i \in Nat BY <1>1
<1>4. /\ stop \in (i - 1) .. Len(part)
      /\ \A j \in i .. stop : ~IsCommand[part[j]]
      /\ stop + 1 <= Len(part) => IsCommand[part[stop + 1]]
  <2>1. CASE stops = {}
    <3>1. stop = Len(part) BY <2>1
    <3>2. \A j \in i .. Len(part) : ~IsCommand[part[j]] BY <2>1
    <3> HIDE DEF stop
    <3> QED BY <1>1, <1>3, <3>1, <3>2
  <2>2. CASE stops # {}
    <3>1. PICK m : m = Min(stops) OBVIOUS
    <3>2. m \in stops /\ \A x \in stops : m <= x
      <4>1. stops \in SUBSET (i .. Len(part)) OBVIOUS
      <4>2. PICK S : S = stops OBVIOUS
      <4>3. PICK j \in Int : j = Len(part) BY <1>3
      <4> HIDE DEF stops, stop
      <4>4. S \in SUBSET (i .. j) /\ S # {} BY <2>2, <4>1, <4>2, <4>3
      <4>5. Min(S) \in S /\ \A x \in S : Min(S) <= x BY <1>3, <4>4, LeastInInterval
      <4> QED BY <3>1, <4>2, <4>5
    <3>3. m \in i .. Len(part) /\ IsCommand[part[m]] BY <3>2
    <3>4. \A j \in i .. (m - 1) : ~IsCommand[part[j]]
      <4>1. ASSUME NEW j \in i .. (m - 1), IsCommand[part[j]] PROVE FALSE
        <5>1. j \in i .. Len(part) BY <1>3, <3>3
        <5>2. j \in stops BY <4>1, <5>1
        <5>3. m <= j BY <3>2, <5>2
        <5> QED BY <1>3, <3>3, <5>3
      <4> QED BY <4>1
    <3>5. stop = m - 1 BY <2>2, <3>1
    <3> HIDE DEF stop, stops
    <3> QED BY <1>3, <3>3, <3>4, <3>5
  <2> QED BY <2>1, <2>2
<1> HIDE DEF stop
<1>5. PICK s \in Int : s = stop BY <1>3, <1>4
<1>6. s \in (i - 1) .. Len(part) BY <1>4, <1>5
<1>7. /\ SubSeq(part, i, s) \in Seq(Words) /\ Len(SubSeq(part, i, s)) = s + 1 - i
      /\ \A k \in 1 .. (s + 1 - i) : SubSeq(part, i, s)[k] = part[i + k - 1] /\ i + k - 1 \in i .. s
  BY <1>1, <1>3, <1>6
<1>8. i + (s + 1 - i) = s + 1 /\ s + 1 <= Len(part) + 1 BY <1>3, <1>6
<1>9. /\ \A j \in i .. s : ~IsCommand[part[j]]
      /\ s + 1 <= Len(part) => IsCommand[part[s + 1]]
  BY <1>4, <1>5
<1>10. ParamsFrom(i) = SubSeq(part, i, s) BY <1>2, <1>5
<1> QED BY <1>7, <1>8, <1>9, <1>10 DEF part

LEMMA StarIs ==
    ASSUME NEW ws \in Seq(Words)
    PROVE  /\ Star(ws) \in Seq(NameWords)
           /\ \A x : Holds(Star(ws), x) => x = Wild \/ Holds(ws, x)
           /\ \A x : Holds(ws, x) /\ x # Anything => Holds(Star(ws), x)
<1>1. PICK n \in Nat : n = Len(ws) /\ DOMAIN ws = 1 .. n /\ \A i \in 1 .. n : ws[i] \in Words OBVIOUS
<1>2. Star(ws) = [i \in 1 .. n |-> IF ws[i] = Anything THEN Wild ELSE ws[i]] BY <1>1 DEF Star
<1>3. \A i \in 1 .. n : (IF ws[i] = Anything THEN Wild ELSE ws[i]) \in NameWords BY <1>1 DEF NameWords
<1>4. PICK st : st = Star(ws) OBVIOUS
<1>5. st \in [1 .. n -> NameWords] /\ \A i \in 1 .. n : st[i] = IF ws[i] = Anything THEN Wild ELSE ws[i]
  BY <1>2, <1>3, <1>4
<1>6. st \in Seq(NameWords) /\ Len(st) = n BY <1>5
<1> QED BY <1>1, <1>4, <1>5, <1>6 DEF Holds

LEMMA SplitIs ==
    ASSUME NEW ws \in Seq(Words)
    PROVE  /\ Split(ws) \in Seq(Words) /\ SplitEnds(ws) \in Seq(Words)
           /\ \A x : Holds(Split(ws), x) <=> \E k \in 1 .. Len(ws) : Holds(Commas[ws[k]], x)
           /\ \A x : Holds(SplitEnds(ws), x) <=>
                  \E k \in 1 .. Len(ws) : IF ws[k] \in DOMAIN Literal THEN x = ws[k] ELSE Holds(Commas[ws[k]], x)
<1> DEFINE ss == [i \in DOMAIN ws |-> Commas[ws[i]]]
           es == [i \in DOMAIN ws |-> IF ws[i] \in DOMAIN Literal THEN <<ws[i]>> ELSE Commas[ws[i]]]
<1>1. PICK n \in Nat : n = Len(ws) /\ DOMAIN ws = 1 .. n /\ \A i \in 1 .. n : ws[i] \in Words OBVIOUS
<1>2. ASSUME NEW w \in Words
      PROVE  Commas[w] \in Seq(Words) /\ <<w>> \in Seq(Words) /\ \A x : Holds(<<w>>, x) <=> x = w
  <2>1. Commas[w] \in Seq(Words \ DOMAIN Literal) BY SearchesAssumption
  <2>2. PICK s \in Seq(Words) : s = <<w>>
    <3>1. <<w>> \in Seq(Words) OBVIOUS
    <3> QED BY <3>1
  <2>3. \A x : Holds(s, x) <=> x = w BY <2>2 DEF Holds
  <2>4. Commas[w] \in Seq(Words)
    <3>1. PICK s2 \in Seq(Words \ DOMAIN Literal) : s2 = Commas[w] BY <2>1
    <3>2. s2 \in Seq(Words) OBVIOUS
    <3> QED BY <3>1, <3>2
  <2> QED BY <2>2, <2>3, <2>4
<1>3. /\ \A i \in 1 .. n : ss[i] = Commas[ws[i]]
      /\ \A i \in 1 .. n : es[i] = IF ws[i] \in DOMAIN Literal THEN <<ws[i]>> ELSE Commas[ws[i]]
      /\ ss = [i \in 1 .. n |-> ss[i]] /\ es = [i \in 1 .. n |-> es[i]]
  BY <1>1
<1>4. Split(ws) = FlattenSeq(ss) /\ SplitEnds(ws) = FlattenSeq(es) BY Zenon DEF Split, SplitEnds
<1> HIDE DEF ss, es
<1>5. ASSUME NEW i \in 1 .. n PROVE ss[i] \in Seq(Words) /\ es[i] \in Seq(Words)
  <2>1. PICK w \in Words : w = ws[i] BY <1>1
  <2>2. Commas[w] \in Seq(Words) /\ <<w>> \in Seq(Words) BY <1>2
  <2>3. ss[i] = Commas[w] /\ es[i] = IF w \in DOMAIN Literal THEN <<w>> ELSE Commas[w] BY <1>3, <2>1
  <2> QED BY <2>2, <2>3
<1>6. ss \in Seq(Seq(Words)) /\ es \in Seq(Seq(Words)) /\ Len(ss) = n /\ Len(es) = n
  <2>1. \A f : f = [i \in 1 .. n |-> f[i]] /\ (\A i \in 1 .. n : f[i] \in Seq(Words)) =>
                f \in Seq(Seq(Words)) /\ Len(f) = n
    OBVIOUS
  <2> QED BY <1>3, <1>5, <2>1
<1>7. /\ FlattenSeq(ss) \in Seq(Words) /\ FlattenSeq(es) \in Seq(Words)
      /\ \A x : Holds(FlattenSeq(ss), x) <=> \E k \in 1 .. n : Holds(ss[k], x)
      /\ \A x : Holds(FlattenSeq(es), x) <=> \E k \in 1 .. n : Holds(es[k], x)
  BY <1>6, FlattenElements
<1>8. ASSUME NEW x, NEW k \in 1 .. n
      PROVE  Holds(es[k], x) <=> IF ws[k] \in DOMAIN Literal THEN x = ws[k] ELSE Holds(Commas[ws[k]], x)
  BY <1>1, <1>2, <1>3
<1>9. /\ \A x : (\E k \in 1 .. n : Holds(ss[k], x)) <=> \E k \in 1 .. n : Holds(Commas[ws[k]], x)
      /\ \A x : (\E k \in 1 .. n : Holds(es[k], x)) <=>
             \E k \in 1 .. n : IF ws[k] \in DOMAIN Literal THEN x = ws[k] ELSE Holds(Commas[ws[k]], x)
  BY <1>3, <1>8
<1> QED BY <1>1, <1>4, <1>7, <1>9, Zenon

(* What FillInParameters makes of a search is one again. *)
LEMMA OverwrittenIs ==
    ASSUME NEW S, NEW other \in Seq(S), NEW n \in Nat, NEW ws \in Seq(S)
    PROVE  /\ Overwritten(other, n, ws) \in Seq(S) /\ Len(Overwritten(other, n, ws)) = Len(other)
           /\ \A i \in 1 .. Len(other) :
                  Overwritten(other, n, ws)[i] = IF n < i /\ i <= Len(ws) THEN ws[i] ELSE other[i]
<1>1. PICK m \in Nat : m = Len(other) /\ DOMAIN other = 1 .. m /\ \A i \in 1 .. m : other[i] \in S OBVIOUS
<1>2. PICK l \in Nat : l = Len(ws) /\ \A i \in 1 .. l : ws[i] \in S OBVIOUS
<1>3. PICK o : o = Overwritten(other, n, ws) OBVIOUS
<1>4. o = [i \in 1 .. m |-> IF n < i /\ i <= l THEN ws[i] ELSE other[i]] BY <1>1, <1>2, <1>3 DEF Overwritten
<1>5. \A i \in 1 .. m : (IF n < i /\ i <= l THEN ws[i] ELSE other[i]) \in S BY <1>1, <1>2
<1>6. o \in [1 .. m -> S] /\ \A i \in 1 .. m : o[i] = IF n < i /\ i <= l THEN ws[i] ELSE other[i] BY <1>4, <1>5
<1>7. o \in Seq(S) /\ Len(o) = m BY <1>6
<1> QED BY <1>1, <1>2, <1>3, <1>6, <1>7

EndLists(q) == /\ q.From \in Seq(NameWords) /\ q.To \in Seq(NameWords) /\ q.Name \in Seq(NameWords)
               /\ q.Shared \in BOOLEAN
SameOthers(q, q2) == /\ q2.Name = q.Name /\ q2.PageNr = q.PageNr /\ q2.Sequence = q.Sequence
                     /\ q2.Context = q.Context /\ q2.Arrows = q.Arrows /\ q2.Finds = q.Finds

LEMMA AppendsAre ==
    ASSUME NEW q \in SearchParameters, NEW ws \in Seq(NameWords)
    PROVE  /\ AppendFrom(q, ws) \in SearchParameters /\ SameOthers(q, AppendFrom(q, ws))
           /\ AppendFrom(q, ws).From = q.From \o ws
           /\ AppendFrom(q, ws).To = IF q.Shared THEN Overwritten(q.To, Len(q.From), q.From \o ws) ELSE q.To
           /\ AppendFrom(q, ws).Shared = (q.Shared /\ Fits(Len(q.From), Len(q.From \o ws)))
           /\ AppendTo(q, ws) \in SearchParameters /\ SameOthers(q, AppendTo(q, ws))
           /\ AppendTo(q, ws).To = q.To \o ws
           /\ AppendTo(q, ws).From = IF q.Shared THEN Overwritten(q.From, Len(q.To), q.To \o ws) ELSE q.From
           /\ AppendTo(q, ws).Shared = (q.Shared /\ Fits(Len(q.To), Len(q.To \o ws)))
<1>1. PICK from0 \in Seq(NameWords) : from0 = q.From BY DEF SearchParameters
<1>2. PICK to0 \in Seq(NameWords) : to0 = q.To BY DEF SearchParameters
<1>3. PICK shared \in BOOLEAN : shared = q.Shared BY DEF SearchParameters
<1>4. PICK from1 \in Seq(NameWords) : from1 = from0 \o ws
  <2>1. from0 \o ws \in Seq(NameWords) OBVIOUS
  <2> QED BY <2>1
<1>5. PICK to1 \in Seq(NameWords) : to1 = to0 \o ws
  <2>1. to0 \o ws \in Seq(NameWords) OBVIOUS
  <2> QED BY <2>1
<1>6. PICK over \in Seq(NameWords) : over = IF shared THEN Overwritten(to0, Len(from0), from1) ELSE to0
  <2>1. PICK n \in Nat : n = Len(from0) OBVIOUS
  <2>2. Overwritten(to0, n, from1) \in Seq(NameWords) BY OverwrittenIs
  <2> QED BY <2>1, <2>2
<1>7. PICK rest \in Seq(NameWords) : rest = IF shared THEN Overwritten(from0, Len(to0), to1) ELSE from0
  <2>1. PICK n \in Nat : n = Len(to0) OBVIOUS
  <2>2. Overwritten(from0, n, to1) \in Seq(NameWords) BY OverwrittenIs
  <2> QED BY <2>1, <2>2
<1>8. PICK still \in BOOLEAN : still = (shared /\ Fits(Len(from0), Len(from1)))
  <2>1. (shared /\ Fits(Len(from0), Len(from1))) \in BOOLEAN OBVIOUS
  <2> QED BY <2>1
<1>9. PICK yet \in BOOLEAN : yet = (shared /\ Fits(Len(to0), Len(to1)))
  <2>1. (shared /\ Fits(Len(to0), Len(to1))) \in BOOLEAN OBVIOUS
  <2> QED BY <2>1
<1>10. AppendFrom(q, ws) = [q EXCEPT !.From = from1, !.To = over, !.Shared = still]
  BY <1>1, <1>2, <1>3, <1>4, <1>6, <1>8 DEF AppendFrom
<1>11. AppendTo(q, ws) = [q EXCEPT !.To = to1, !.From = rest, !.Shared = yet]
  BY <1>1, <1>2, <1>3, <1>5, <1>7, <1>9 DEF AppendTo
<1>12. /\ AppendFrom(q, ws) \in SearchParameters /\ SameOthers(q, AppendFrom(q, ws))
       /\ AppendFrom(q, ws).From = from1 /\ AppendFrom(q, ws).To = over /\ AppendFrom(q, ws).Shared = still
  BY <1>10 DEF SearchParameters, SameOthers
<1>13. /\ AppendTo(q, ws) \in SearchParameters /\ SameOthers(q, AppendTo(q, ws))
       /\ AppendTo(q, ws).To = to1 /\ AppendTo(q, ws).From = rest /\ AppendTo(q, ws).Shared = yet
  BY <1>11 DEF SearchParameters, SameOthers
<1> QED BY <1>1, <1>2, <1>3, <1>4, <1>5, <1>6, <1>7, <1>8, <1>9, <1>12, <1>13, Zenon

LEMMA OrphanIs ==
    ASSUME NEW q \in SearchParameters, NEW w \in Words
    PROVE  AddOrphan(q, w) \in SearchParameters
<1>1. PICK one \in Seq(NameWords) : one = <<w>>
  <2>1. PICK v \in NameWords : v = w BY DEF NameWords
  <2>2. <<v>> \in Seq(NameWords) OBVIOUS
  <2> QED BY <2>1, <2>2
<1>2. AppendTo(q, one) \in SearchParameters /\ AppendFrom(q, one) \in SearchParameters BY AppendsAre
<1>3. PICK names \in Seq(NameWords) : names = q.Name BY DEF SearchParameters
<1>4. PICK v \in NameWords : v = w BY DEF NameWords
<1>5. Append(names, v) \in Seq(NameWords) OBVIOUS
<1>6. [q EXCEPT !.Name = Append(@, w)] \in SearchParameters BY <1>3, <1>4, <1>5 DEF SearchParameters
<1> QED BY <1>1, <1>2, <1>6 DEF AddOrphan

(* A node pointer after "to" takes the place of what was said before it. *)
LEMMA TargetsAre ==
    ASSUME NEW q \in SearchParameters, NEW ws \in Seq(Words)
    PROVE  /\ (\A k \in 1 .. Len(ws) : ws[k] \notin DOMAIN Literal) => Targets(q, ws) = AppendTo(q, ws)
           /\ Targets(q, ws) \in SearchParameters
<1> DEFINE lits == {i \in DOMAIN ws : ws[i] \in DOMAIN Literal}
           before == AppendTo(q, SubSeq(ws, 1, Min(lits) - 1))
           to1 == before.From \o SubSeq(ws, Max(lits), Len(ws))
<1>1. Targets(q, ws) = IF lits = {} THEN AppendTo(q, ws)
                       ELSE [before EXCEPT !.To = to1, !.Shared = Fits(Len(before.From), Len(to1))]
  BY DEF Targets
<1>2. PICK n \in Nat : n = Len(ws) /\ DOMAIN ws = 1 .. n /\ \A k \in 1 .. n : ws[k] \in Words OBVIOUS
<1>3. ws \in Seq(NameWords) BY DEF NameWords
<1>4. lits = {} <=> \A k \in 1 .. Len(ws) : ws[k] \notin DOMAIN Literal BY <1>2
<1>5. PICK S : S = lits OBVIOUS
<1>6. S \in SUBSET (1 .. n) BY <1>2, <1>5
<1>7. CASE lits = {}
  <2> HIDE DEF lits
  <2>1. AppendTo(q, ws) \in SearchParameters BY <1>3, AppendsAre
  <2> QED BY <1>1, <1>4, <1>7, <2>1
<1>8. CASE lits # {}
  <2> HIDE DEF lits
  <2>1. PICK lo \in 1 .. n : lo = Min(S)
    <3>1. 1 \in Nat /\ n \in Int OBVIOUS
    <3>2. Min(S) \in S BY <1>5, <1>6, <1>8, <3>1, LeastInInterval
    <3> QED BY <1>6, <3>2
  <2>2. PICK hi \in 1 .. n : hi = Max(S)
    <3>1. Max(S) \in S BY <1>5, <1>6, <1>8, GreatestExists
    <3> QED BY <1>6, <3>1
  <2>3. PICK head \in Seq(NameWords) : head = SubSeq(ws, 1, lo - 1)
    <3>1. SubSeq(ws, 1, lo - 1) \in Seq(NameWords) BY <1>2, <1>3
    <3> QED BY <3>1
  <2>4. PICK tail \in Seq(NameWords) : tail = SubSeq(ws, hi, Len(ws))
    <3>1. SubSeq(ws, hi, n) \in Seq(NameWords) BY <1>2, <1>3
    <3> QED BY <1>2, <3>1
  <2>5. PICK b \in SearchParameters : b = before
    <3>1. before = AppendTo(q, head) BY <1>5, <2>1, <2>3
    <3> QED BY <3>1, AppendsAre
  <2>6. PICK t \in Seq(NameWords) : t = to1
    <3>1. PICK f \in Seq(NameWords) : f = b.From BY DEF SearchParameters
    <3>2. f \o tail \in Seq(NameWords) OBVIOUS
    <3>3. to1 = f \o tail BY <1>5, <2>2, <2>4, <2>5, <3>1
    <3> QED BY <3>2, <3>3
  <2>7. PICK shared \in BOOLEAN : shared = Fits(Len(before.From), Len(to1))
    <3>1. Fits(Len(before.From), Len(to1)) \in BOOLEAN BY DEF Fits
    <3> QED BY <3>1
  <2> HIDE DEF before, to1
  <2>8. Targets(q, ws) = [b EXCEPT !.To = t, !.Shared = shared] BY <1>1, <1>8, <2>5, <2>6, <2>7
  <2>9. [b EXCEPT !.To = t, !.Shared = shared] \in SearchParameters BY DEF SearchParameters
  <2> QED BY <1>4, <1>8, <2>8, <2>9
<1> QED BY <1>7, <1>8

-----------------------------------------------------------------------------
(* The state of a search. *)

SearchesInv == /\ SearchesTypeOK
               /\ stage = "start" => param = EmptyParam /\ c = 1 /\ p = 1

AtWord == stage = "filling" /\ c <= Len(parts) /\ p <= Len(Part)

LEMMA AtWordIs ==
    ASSUME SearchesInv, AtWord
    PROVE  /\ c \in 1 .. Len(parts) /\ Part \in Seq(Words) /\ p \in 1 .. Len(Part) /\ Len(Part) \in Nat
           /\ Part[p] \in Words /\ \A k \in 1 .. Len(Part) : Part[k] \in Words
           /\ param \in SearchParameters
<1>1. c \in 1 .. Len(parts) /\ p \in Nat \ {0} /\ parts \in Seq(Seq(Words)) /\ param \in SearchParameters
  BY DEF SearchesInv, SearchesTypeOK, AtWord
<1>2. PICK part \in Seq(Words) : part = Part BY <1>1 DEF Part
<1>3. p \in 1 .. Len(part) BY <1>1, <1>2 DEF AtWord
<1> QED BY <1>1, <1>2, <1>3

(* A case of FillInParameters keeps it. *)
LEMMA FillStep ==
    ASSUME SearchesInv, AtWord, NEW q2 \in SearchParameters, NEW next \in Nat \ {0}, Fill(q2, next)
    PROVE  SearchesInv'
BY DEF Fill, AtWord, SearchesInv, SearchesTypeOK

LEMMA ParamsIs ==
    ASSUME SearchesInv, AtWord
    PROVE  /\ Params \in Seq(Words) /\ Params \in Seq(NameWords) /\ Len(Params) \in Nat
           /\ p + 1 + Len(Params) \in Nat \ {0} /\ p + 1 \in Nat \ {0}
           /\ ParamsFrom(p) \in Seq(Words) /\ p + Len(ParamsFrom(p)) + 1 \in Nat \ {0}
           /\ Split(Params) \in Seq(NameWords) /\ SplitEnds(Params) \in Seq(NameWords)
<1>1. p + 1 \in 1 .. (Len(Part) + 1) /\ p \in 1 .. (Len(Part) + 1) /\ p \in Nat \ {0} /\ Part \in Seq(Words)
  BY AtWordIs
<1>2. PICK ws \in Seq(Words) : ws = Params BY <1>1, ParamsFromIs DEF Params
<1>3. PICK vs \in Seq(Words) : vs = ParamsFrom(p) BY <1>1, ParamsFromIs
<1>4. PICK s \in Seq(Words) : s = Split(ws) BY SplitIs
<1>5. PICK e \in Seq(Words) : e = SplitEnds(ws) BY SplitIs
<1>6. ws \in Seq(NameWords) /\ s \in Seq(NameWords) /\ e \in Seq(NameWords) BY DEF NameWords
<1>7. Len(ws) \in Nat /\ Len(vs) \in Nat OBVIOUS
<1> QED BY <1>1, <1>2, <1>3, <1>4, <1>5, <1>6, <1>7

LEMMA NextWordIs ==
    ASSUME SearchesInv, AtWord, HasNext
    PROVE  NextWord \in Words /\ p + 1 \in 1 .. Len(Part) /\ NextWord = Part[p + 1]
<1>1. p + 1 \in 1 .. Len(Part) BY AtWordIs DEF HasNext
<1> QED BY <1>1, AtWordIs DEF NextWord

LEMMA StarWord ==
    ASSUME NEW w \in Words
    PROVE  Star(<<w>>)[1] \in NameWords
<1>1. Star(<<w>>)[1] = IF w = Anything THEN Wild ELSE w BY DEF Star
<1> QED BY <1>1 DEF NameWords

(* One more of the words that are read to a list. *)
LEMMA ListGrows ==
    ASSUME NEW q \in SearchParameters, NEW ws \in Seq(NameWords)
    PROVE  /\ [q EXCEPT !.Name = @ \o ws] \in SearchParameters
           /\ [q EXCEPT !.Context = @ \o ws] \in SearchParameters
           /\ [q EXCEPT !.Arrows = @ \o ws] \in SearchParameters
           /\ [q EXCEPT !.Finds = @ \o ws] \in SearchParameters
<1>1. \A old \in Seq(NameWords) : old \o ws \in Seq(NameWords) OBVIOUS
<1>2. /\ q.Name \in Seq(NameWords) /\ q.Context \in Seq(NameWords)
      /\ q.Arrows \in Seq(NameWords) /\ q.Finds \in Seq(NameWords)
  BY DEF SearchParameters
<1>3. /\ q.Name \o ws \in Seq(NameWords) /\ q.Context \o ws \in Seq(NameWords)
      /\ q.Arrows \o ws \in Seq(NameWords) /\ q.Finds \o ws \in Seq(NameWords)
  BY <1>1, <1>2
<1> QED BY <1>3 DEF SearchParameters

LEMMA FlagKeeps == SearchesInv /\ Flag => SearchesInv'
<1> SUFFICES ASSUME SearchesInv, Flag PROVE SearchesInv' OBVIOUS
<1>1. AtWord BY DEF Flag, At, AtWord
<1>2. PICK q \in SearchParameters : q = param BY <1>1, AtWordIs
<1>3. <<Anything>> \in Seq(NameWords)
  <2>1. Anything \in NameWords BY DEF NameWords
  <2> QED BY <2>1
<1>4. /\ [q EXCEPT !.Stats = TRUE] \in SearchParameters /\ [q EXCEPT !.Sequence = TRUE] \in SearchParameters
      /\ [q EXCEPT !.Horizon = RECENT] \in SearchParameters /\ [q EXCEPT !.Horizon = NEVER] \in SearchParameters
      /\ [q EXCEPT !.Chapter = HelpChapter, !.Name = <<Anything>>] \in SearchParameters
  <2>1. RECENT \in Int /\ NEVER \in Int BY DEF RECENT, NEVER
  <2>2. HelpChapter \in NameWords \cup {"", Contents, HelpChapter} OBVIOUS
  <2> QED BY <1>3, <2>1, <2>2 DEF SearchParameters
<1>5. \E q2 \in SearchParameters : Fill(q2, p + 1) BY <1>2, <1>4 DEF Flag
<1> QED BY <1>1, <1>5, ParamsIs, FillStep

LEMMA ChapterKeeps == SearchesInv /\ (Chapter \/ Notes) => SearchesInv'
<1> SUFFICES ASSUME SearchesInv, Chapter \/ Notes PROVE SearchesInv' OBVIOUS
<1>1. AtWord BY DEF Chapter, Notes, At, AtWord
<1>2. PICK q \in SearchParameters : q = param BY <1>1, AtWordIs
<1>3. HasNext => Star(<<NextWord>>)[1] \in NameWords BY <1>1, NextWordIs, StarWord
<1>4. Stop \in Nat \ {0} BY <1>1, AtWordIs DEF Stop
<1>5. PICK nr \in Int : nr = IF q.PageNr < 1 THEN 1 ELSE q.PageNr
  <2>1. PICK old \in Int : old = q.PageNr BY DEF SearchParameters
  <2> QED BY <2>1
<1>6. CASE Chapter
  <2>1. PICK ch \in NameWords \cup {"", Contents, HelpChapter} :
            ch = IF HasNext THEN Star(<<NextWord>>)[1] ELSE Contents
    BY <1>3
  <2>2. Fill([q EXCEPT !.Chapter = ch], Stop) BY <1>2, <1>6, <2>1 DEF Chapter
  <2>3. [q EXCEPT !.Chapter = ch] \in SearchParameters BY DEF SearchParameters
  <2> QED BY <1>1, <1>4, <2>2, <2>3, FillStep
<1>7. CASE Notes
  <2>1. PICK ch \in NameWords \cup {"", Contents, HelpChapter} :
            ch = IF HasNext THEN Star(<<NextWord>>)[1] ELSE q.Chapter
    BY <1>3 DEF SearchParameters
  <2>2. Fill([q EXCEPT !.PageNr = nr, !.Chapter = ch], p + 1) BY <1>2, <1>5, <1>7, <2>1 DEF Notes
  <2>3. [q EXCEPT !.PageNr = nr, !.Chapter = ch] \in SearchParameters BY DEF SearchParameters
  <2> QED BY <1>1, <2>2, <2>3, ParamsIs, FillStep
<1> QED BY <1>6, <1>7

LEMMA OrphanStep ==
    ASSUME SearchesInv, AtWord
    PROVE  /\ AddOrphan(param, Word) \in SearchParameters
           /\ Fill(AddOrphan(param, Word), p + 1) => SearchesInv'
<1>1. Word \in Words BY AtWordIs DEF Word
<1>2. AddOrphan(param, Word) \in SearchParameters BY <1>1, AtWordIs, OrphanIs
<1> QED BY <1>2, ParamsIs, FillStep

LEMMA NumericKeeps == SearchesInv /\ Numeric => SearchesInv'
<1> SUFFICES ASSUME SearchesInv, Numeric PROVE SearchesInv' OBVIOUS
<1>1. AtWord /\ SomethingLike[Word] \in {"page", "range", "min", "max"} BY DEF Numeric, At, AtWord
<1>2. PICK q \in SearchParameters : q = param BY <1>1, AtWordIs
<1>3. CASE ~HasNext BY <1>1, <1>3, OrphanStep DEF Numeric
<1>4. CASE HasNext
  <2>1. NextWord \in Words BY <1>1, <1>4, NextWordIs
  <2>2. PICK num \in Int : num = Number[NextWord] BY <2>1, SearchesAssumption
  <2>3. p + 2 \in Nat \ {0} BY <1>1, AtWordIs
  <2>4. AddOrphan(AddOrphan(param, Word), NextWord) \in SearchParameters BY <1>1, <2>1, OrphanStep, OrphanIs
  <2>5. \A old \in Seq(Int) : Append(old, num) \in Seq(Int) OBVIOUS
  <2>6. q.Min \in Seq(Int) /\ q.Max \in Seq(Int) BY DEF SearchParameters
  <2>7. Append(q.Min, num) \in Seq(Int) /\ Append(q.Max, num) \in Seq(Int) BY <2>5, <2>6
  <2>8. /\ [q EXCEPT !.PageNr = num] \in SearchParameters /\ [q EXCEPT !.Range = num] \in SearchParameters
        /\ [q EXCEPT !.Min = Append(@, num)] \in SearchParameters
        /\ [q EXCEPT !.Max = Append(@, num)] \in SearchParameters
    BY <2>7 DEF SearchParameters
  <2>9. CASE num <= 0
    <3>1. Fill(AddOrphan(AddOrphan(param, Word), NextWord), p + 2) BY <1>4, <2>2, <2>9 DEF Numeric
    <3> QED BY <1>1, <2>3, <2>4, <3>1, FillStep
  <2>10. CASE ~(num <= 0)
    <3>1. PICK q2 : q2 = CASE SomethingLike[Word] = "page"  -> [q EXCEPT !.PageNr = num]
                           [] SomethingLike[Word] = "range" -> [q EXCEPT !.Range = num]
                           [] SomethingLike[Word] = "min"   -> [q EXCEPT !.Min = Append(@, num)]
                           [] SomethingLike[Word] = "max"   -> [q EXCEPT !.Max = Append(@, num)]
      OBVIOUS
    <3>2. Fill(q2, p + 2) BY <1>2, <1>4, <2>2, <2>10, <3>1 DEF Numeric
    <3>3. q2 \in SearchParameters
      <4>1. CASE SomethingLike[Word] = "page" BY <2>8, <3>1, <4>1
      <4>2. CASE SomethingLike[Word] = "range" BY <2>8, <3>1, <4>2
      <4>3. CASE SomethingLike[Word] = "min" BY <2>8, <3>1, <4>3
      <4>4. CASE SomethingLike[Word] = "max" BY <2>8, <3>1, <4>4
      <4> QED BY <1>1, <4>1, <4>2, <4>3, <4>4
    <3> QED BY <1>1, <2>3, <3>2, <3>3, FillStep
  <2> QED BY <2>9, <2>10
<1> QED BY <1>3, <1>4

LEMMA ListedKeeps == SearchesInv /\ Listed => SearchesInv'
<1> SUFFICES ASSUME SearchesInv, Listed PROVE SearchesInv' OBVIOUS
<1>1. AtWord BY DEF Listed, At, AtWord
<1>2. PICK q \in SearchParameters : q = param BY <1>1, AtWordIs
<1>3. CASE ~HasNext BY <1>1, <1>3, OrphanStep DEF Listed
<1>4. CASE HasNext
  <2>1. PICK ws \in Seq(NameWords) : ws = Split(Params) BY <1>1, ParamsIs
  <2>2. /\ [q EXCEPT !.Arrows = @ \o ws] \in SearchParameters
        /\ [q EXCEPT !.Context = @ \o ws] \in SearchParameters
    BY ListGrows
  <2>3. \E q2 \in SearchParameters : Fill(q2, p + 1 + Len(Params)) BY <1>2, <1>4, <2>1, <2>2 DEF Listed
  <2> QED BY <1>1, <2>3, ParamsIs, FillStep
<1> QED BY <1>3, <1>4

LEMMA FromKeeps == SearchesInv /\ From => SearchesInv'
<1> SUFFICES ASSUME SearchesInv, From PROVE SearchesInv' OBVIOUS
<1>1. AtWord BY DEF From, At, AtWord
<1>2. Fill(AppendFrom(param, SplitEnds(Params)), p + 1 + Len(Params)) BY DEF From
<1>3. AppendFrom(param, SplitEnds(Params)) \in SearchParameters BY <1>1, AtWordIs, ParamsIs, AppendsAre
<1> QED BY <1>1, <1>2, <1>3, ParamsIs, FillStep

LEMMA ToNodesKeeps == SearchesInv /\ ToNodes => SearchesInv'
<1> SUFFICES ASSUME SearchesInv, ToNodes PROVE SearchesInv' OBVIOUS
<1>1. AtWord BY DEF ToNodes, At, AtWord
<1>2. param \in SearchParameters BY <1>1, AtWordIs
<1>3. CASE /\ p > 1 /\ HasNext
           /\ LET q == IF param.From = <<>> THEN AppendFrom(param, <<Part[p - 1]>>) ELSE param
              IN  Fill(Targets(q, SplitEnds(Params)), p + 1 + Len(Params))
  <2>1. PICK q : q = IF param.From = <<>> THEN AppendFrom(param, <<Part[p - 1]>>) ELSE param OBVIOUS
  <2>2. <<Part[p - 1]>> \in Seq(NameWords)
    <3>1. p - 1 \in 1 .. Len(Part) BY <1>1, <1>3, AtWordIs
    <3>2. PICK w \in NameWords : w = Part[p - 1] BY <1>1, <3>1, AtWordIs DEF NameWords
    <3>3. <<w>> \in Seq(NameWords) OBVIOUS
    <3> QED BY <3>2, <3>3
  <2>3. q \in SearchParameters BY <1>2, <2>1, <2>2, AppendsAre
  <2>4. SplitEnds(Params) \in Seq(Words) BY <1>1, ParamsIs, SplitIs
  <2>5. Targets(q, SplitEnds(Params)) \in SearchParameters BY <2>3, <2>4, TargetsAre
  <2>6. Fill(Targets(q, SplitEnds(Params)), p + 1 + Len(Params)) BY <1>3, <2>1
  <2> QED BY <1>1, <2>5, <2>6, ParamsIs, FillStep
<1>4. CASE p = 1 /\ HasNext /\ Fill(AppendTo(param, Split(Params)), p + 1 + Len(Params))
  <2>1. AppendTo(param, Split(Params)) \in SearchParameters BY <1>1, <1>2, ParamsIs, AppendsAre
  <2> QED BY <1>1, <1>4, <2>1, ParamsIs, FillStep
<1>5. CASE ~HasNext /\ Fill(param, Stop)
  <2>1. Stop \in Nat \ {0} BY <1>1, AtWordIs DEF Stop
  <2> QED BY <1>1, <1>2, <1>5, <2>1, FillStep
<1> QED BY <1>3, <1>4, <1>5 DEF ToNodes

LEMMA AboutKeeps == SearchesInv /\ About => SearchesInv'
<1> SUFFICES ASSUME SearchesInv, About PROVE SearchesInv' OBVIOUS
<1>1. AtWord BY DEF About, At, AtWord
<1>2. PICK q \in SearchParameters : q = param BY <1>1, AtWordIs
<1>3. CASE ~HasNext BY <1>1, <1>3, OrphanStep DEF About
<1>4. CASE HasNext
  <2>1. PICK ws \in Seq(Words) : ws = Params /\ ws \in Seq(NameWords) BY <1>1, ParamsIs
  <2>2. PICK chapter2 : chapter2 = Last(ws) OBVIOUS
  <2>3. ws # <<>> => chapter2 \in NameWords
    <3>1. ASSUME ws # <<>> PROVE ws[Len(ws)] \in Words BY <3>1
    <3> QED BY <2>2, <3>1 DEF Last, NameWords
  <2>4. chapter2 \in NameWords => [q EXCEPT !.Chapter = chapter2] \in SearchParameters BY DEF SearchParameters
  <2>5. [q EXCEPT !.Name = @ \o ws] \in SearchParameters BY <2>1, ListGrows
  <2>6. Fill(IF ws = <<>> THEN q
             ELSE IF q.PageNr > 0 THEN [q EXCEPT !.Chapter = chapter2]
             ELSE [q EXCEPT !.Name = @ \o ws], p + 1 + Len(Params))
    BY <1>2, <1>4, <2>1, <2>2 DEF About
  <2>7. \E q2 \in SearchParameters : Fill(q2, p + 1 + Len(Params)) BY <2>3, <2>4, <2>5, <2>6
  <2> QED BY <1>1, <2>7, ParamsIs, FillStep
<1> QED BY <1>3, <1>4

LEMMA NamesKeep == SearchesInv /\ (Finds \/ Text) => SearchesInv'
<1> SUFFICES ASSUME SearchesInv, Finds \/ Text PROVE SearchesInv' OBVIOUS
<1>1. AtWord BY DEF Finds, Text, At, AtWord
<1>2. PICK q \in SearchParameters : q = param BY <1>1, AtWordIs
<1>3. CASE Finds
  <2>1. PICK ws \in Seq(NameWords) : ws = Star(Params) BY <1>1, ParamsIs, StarIs
  <2>2. [q EXCEPT !.Finds = @ \o ws] \in SearchParameters BY ListGrows
  <2>3. Fill([q EXCEPT !.Finds = @ \o ws], p + 1 + Len(Params)) BY <1>2, <1>3, <2>1 DEF Finds
  <2> QED BY <1>1, <2>2, <2>3, ParamsIs, FillStep
<1>4. CASE Text
  <2>1. PICK vs \in Seq(Words) : vs = ParamsFrom(p) BY <1>1, ParamsIs
  <2>2. PICK ws \in Seq(NameWords) : ws = Star(vs) BY StarIs
  <2>3. [q EXCEPT !.Name = @ \o ws] \in SearchParameters BY ListGrows
  <2>4. Fill([q EXCEPT !.Name = @ \o ws], p + Len(vs) + 1) BY <1>2, <1>4, <2>1, <2>2 DEF Text
  <2>5. p + Len(vs) + 1 \in Nat \ {0} BY <1>1, <2>1, ParamsIs
  <2> QED BY <1>1, <2>3, <2>4, <2>5, FillStep
<1> QED BY <1>3, <1>4

LEMMA NextPartKeeps == SearchesInv /\ NextPart => SearchesInv'
BY DEF SearchesInv, SearchesTypeOK, NextPart

LEMMA DecodeKeeps == SearchesInv /\ DecodeSearchField => SearchesInv'
<1> SUFFICES ASSUME SearchesInv, DecodeSearchField PROVE SearchesInv' OBVIOUS
<1>1. /\ stage' = "filling" /\ words' = Rewritten(words) /\ parts' = Segment(words')
      /\ c' = c /\ p' = p /\ param' = param
  BY DEF DecodeSearchField
<1>2. words' \in Seq(Words) BY <1>1, RewrittenIs DEF SearchesInv, SearchesTypeOK
<1>3. parts' \in Seq(Seq(Words)) BY <1>1, <1>2, SegmentIs DEF Segments
<1> QED BY <1>1, <1>2, <1>3 DEF SearchesInv, SearchesTypeOK

-----------------------------------------------------------------------------
(* The end of FillInParameters. *)

(* Only wildcards are dropped from the names.                              *)
LEMMA WithoutWildcardsIs ==
    ASSUME NEW names \in Seq(NameWords)
    PROVE  /\ WithoutWildcards(names) \in Seq(NameWords)
           /\ \A x : Holds(WithoutWildcards(names), x) => Holds(names, x)
           /\ \A x : Holds(names, x) /\ x \notin {Wild, Anything} => Holds(WithoutWildcards(names), x)
<1> DEFINE ss == [i \in DOMAIN names |-> IF names[i] \in {Wild, Anything} THEN <<>> ELSE <<names[i]>>]
<1>1. PICK n \in Nat : n = Len(names) /\ DOMAIN names = 1 .. n /\ \A i \in 1 .. n : names[i] \in NameWords OBVIOUS
<1>2. \A i \in 1 .. n : ss[i] = IF names[i] \in {Wild, Anything} THEN <<>> ELSE <<names[i]>> BY <1>1
<1>3. ss = [i \in 1 .. n |-> ss[i]] BY <1>1
<1>4. PICK flat : flat = FlattenSeq(ss) OBVIOUS
<1>5. WithoutWildcards(names) = IF flat = <<>> THEN names ELSE flat BY <1>4 DEF WithoutWildcards
<1> HIDE DEF ss
<1>6. \A i \in 1 .. n : ss[i] \in Seq(NameWords)
  <2>1. ASSUME NEW i \in 1 .. n PROVE ss[i] \in Seq(NameWords)
    <3>1. PICK w \in NameWords : w = names[i] BY <1>1
    <3>2. <<>> \in Seq(NameWords) /\ <<w>> \in Seq(NameWords) OBVIOUS
    <3> QED BY <1>2, <3>1, <3>2
  <2> QED BY <2>1
<1>7. ss \in Seq(Seq(NameWords)) /\ Len(ss) = n BY <1>1, <1>3, <1>6
<1>8. /\ flat \in Seq(NameWords)
      /\ \A x : Holds(flat, x) <=> \E k \in 1 .. n : Holds(ss[k], x)
  BY <1>4, <1>7, FlattenElements
<1>9. ASSUME NEW x, Holds(flat, x) PROVE Holds(names, x)
  <2>1. PICK k \in 1 .. n : Holds(ss[k], x) BY <1>8, <1>9
  <2>2. CASE names[k] \in {Wild, Anything}
    <3>1. ss[k] = <<>> BY <1>2, <2>2
    <3> QED BY <2>1, <3>1 DEF Holds
  <2>3. CASE names[k] \notin {Wild, Anything}
    <3>1. ss[k] = <<names[k]>> BY <1>2, <2>3
    <3>2. x = names[k] BY <2>1, <3>1 DEF Holds
    <3> QED BY <1>1, <3>2 DEF Holds
  <2> QED BY <2>2, <2>3
<1>10. ASSUME NEW x, Holds(names, x), x \notin {Wild, Anything} PROVE Holds(flat, x)
  <2>1. PICK k \in 1 .. n : names[k] = x BY <1>1, <1>10 DEF Holds
  <2>2. ss[k] = <<x>> BY <1>2, <1>10, <2>1
  <2>3. Holds(ss[k], x) BY <2>2 DEF Holds
  <2> QED BY <1>8, <2>3
<1>11. CASE flat = <<>>
  <2>1. WithoutWildcards(names) = names BY <1>5, <1>11
  <2> QED BY <2>1
<1>12. CASE flat # <<>>
  <2>1. WithoutWildcards(names) = flat BY <1>5, <1>12
  <2> QED BY <1>8, <1>9, <1>10, <2>1
<1> QED BY <1>11, <1>12

(* What becomes of the names that are found. *)
LEMMA WithDiracIs ==
    ASSUME NEW q \in SearchParameters
    PROVE  /\ Diracs(q) = {} => WithDirac(q) = q
           /\ Diracs(q) # {} => \E w \in DOMAIN DiracNotation : Holds(q.Name, w)
           /\ ~BadDirac(q) => WithDirac(q) \in SearchParameters
<1>1. Diracs(q) = {} => WithDirac(q) = q BY DEF WithDirac
<1>2. PICK names \in Seq(NameWords) : names = q.Name BY DEF SearchParameters
<1>3. PICK n \in Nat : n = Len(names) /\ DOMAIN names = 1 .. n OBVIOUS
<1>4. Diracs(q) \in SUBSET (1 .. n) /\ \A i \in Diracs(q) : names[i] \in DOMAIN DiracNotation
  BY <1>2, <1>3 DEF Diracs
<1>5. ASSUME Diracs(q) # {}
      PROVE  \E w \in DOMAIN DiracNotation : Holds(q.Name, w)
  <2>1. PICK i \in Diracs(q) : TRUE BY <1>5
  <2> QED BY <1>2, <1>3, <1>4, <2>1 DEF Holds
<1>6. ASSUME Diracs(q) # {}, FirstDirac(q) # <<>> PROVE WithDirac(q) \in SearchParameters
  <2>1. PICK S : S = Diracs(q) OBVIOUS
  <2>2. Min(S) \in S
    <3>1. S \in SUBSET (1 .. n) /\ S # {} /\ 1 \in Nat /\ n \in Int BY <1>4, <1>6, <2>1
    <3> QED BY <3>1, LeastInInterval
  <2>3. PICK w \in DOMAIN DiracNotation : w = names[Min(S)] BY <1>4, <2>1, <2>2
  <2>4. PICK d : d = FirstDirac(q) OBVIOUS
  <2>5. d = DiracNotation[w] BY <1>2, <2>1, <2>3, <2>4 DEF FirstDirac
  <2>6. d \in Words \X Words \X Words BY <1>6, <2>4, <2>5, SearchesAssumption
  <2>7. d[1] \in NameWords /\ d[2] \in NameWords /\ d[3] \in NameWords BY <2>6 DEF NameWords
  <2>8. <<d[1]>> \in Seq(NameWords) /\ <<d[2]>> \in Seq(NameWords) /\ <<d[3]>> \in Seq(NameWords)
        /\ <<>> \in Seq(NameWords)
    BY <2>7
  <2>9. WithDirac(q) = [q EXCEPT !.Name = <<>>, !.From = <<d[1]>>, !.To = <<d[2]>>, !.Context = <<d[3]>>]
    BY <1>6, <2>4 DEF WithDirac
  <2> QED BY <2>8, <2>9 DEF SearchParameters
<1> QED BY <1>1, <1>5, <1>6 DEF BadDirac

LEMMA DecodedKeeps == SearchesInv /\ Decoded => SearchesInv'
<1> SUFFICES ASSUME SearchesInv, Decoded PROVE SearchesInv' OBVIOUS
<1>1. PICK q : q = [param EXCEPT !.Name = WithoutWildcards(param.Name)] OBVIOUS
<1>2. /\ stage = "filling" /\ words' = words /\ parts' = parts /\ c' = c /\ p' = p
      /\ IF BadDirac(q) THEN stage' = "exited" /\ param' = q
         ELSE stage' = "decoded" /\ param' = WithDirac(q)
  BY <1>1 DEF Decoded
<1>3. param \in SearchParameters BY DEF SearchesInv, SearchesTypeOK
<1>4. q \in SearchParameters
  <2>1. param.Name \in Seq(NameWords) BY <1>3 DEF SearchParameters
  <2>2. WithoutWildcards(param.Name) \in Seq(NameWords) BY <2>1, WithoutWildcardsIs
  <2> QED BY <1>1, <1>3, <2>2 DEF SearchParameters
<1>5. ~BadDirac(q) => WithDirac(q) \in SearchParameters BY <1>4, WithDiracIs
<1> QED BY <1>2, <1>4, <1>5 DEF SearchesInv, SearchesTypeOK

LEMMA SearchKeeps == SearchesInv /\ Search => SearchesInv'
<1> SUFFICES ASSUME SearchesInv, Search PROVE SearchesInv' OBVIOUS
<1>1. /\ stage = "decoded" /\ stage' \in {"panicked", "exited", "answered"}
      /\ words' = words /\ parts' = parts /\ c' = c /\ p' = p /\ param' = param
  BY DEF Search, End
<1> QED BY <1>1 DEF SearchesInv, SearchesTypeOK

LEMMA SearchesInvInit == Init => SearchesInv
<1> SUFFICES ASSUME Init PROVE SearchesInv OBVIOUS
<1>1. words \in Seq(Words) BY SearchesAssumption DEF Init
<1>2. <<>> \in Seq(NameWords) /\ <<>> \in Seq(Int) /\ <<>> \in Seq(Seq(Words)) OBVIOUS
<1>3. EmptyParam \in SearchParameters BY <1>2 DEF EmptyParam, SearchParameters
<1> QED BY <1>1, <1>2, <1>3 DEF Init, SearchesInv, SearchesTypeOK

LEMMA SearchesInvNext == SearchesInv /\ [Next]_vars => SearchesInv'
<1>1. ASSUME SearchesInv, UNCHANGED vars PROVE SearchesInv' BY <1>1 DEF vars, SearchesInv, SearchesTypeOK
<1>2. SearchesInv /\ FillInParameters => SearchesInv'
  BY FlagKeeps, ChapterKeeps, NumericKeeps, ListedKeeps, FromKeeps, ToNodesKeeps, AboutKeeps, NamesKeep,
     NextPartKeeps DEF FillInParameters
<1> QED BY <1>1, <1>2, DecodeKeeps, DecodedKeeps, SearchKeeps DEF Next

THEOREM SearchesInvAlways == Spec => []SearchesInv
BY SearchesInvInit, SearchesInvNext, PTL DEF Spec

(* The state of a search is well formed: the parameters DecodeSearchField  *)
(* builds and the place FillInParameters has reached in the parts of the   *)
(* command.                                                                *)
THEOREM SearchesTypeCorrect == Spec => []SearchesTypeOK
<1>1. SearchesInv => SearchesTypeOK BY DEF SearchesInv
<1> QED BY <1>1, SearchesInvAlways, PTL

-----------------------------------------------------------------------------
(* Commands that give both ends of a path. *)

PathEnds == {w \in Words : Plain(w) /\ Commas[w] = <<w>>}
RangePart(q) == Len(q) = 2 /\ SomethingLike[q[1]] = "range" /\ Number[q[2]] > 0
FromToPart(q, x, y) == Len(q) = 4 /\ SomethingLike[q[1]] = "from" /\ q[2] = x /\ q[3] = To /\ q[4] = y
FromPart(q, x) == Len(q) = 2 /\ SomethingLike[q[1]] = "from" /\ q[2] = x
ToPart(q, y) == Len(q) = 2 /\ SomethingLike[q[1]] = "to" /\ q[2] = y
KetPart(q, k) == Len(q) = 1 /\ q[1] = k
Ket(k, x, y) == /\ k \in DOMAIN DiracNotation /\ DiracNotation[k] # <<>>
                /\ DiracNotation[k][1] = x /\ DiracNotation[k][2] = y

EndsParts(ps, x, y) ==
    /\ \A m \in 1 .. Len(ps) : \/ Len(ps[m]) = 0 \/ RangePart(ps[m])
                               \/ FromToPart(ps[m], x, y) \/ FromPart(ps[m], x) \/ ToPart(ps[m], y)
    /\ \E m \in 1 .. Len(ps) : FromToPart(ps[m], x, y) \/ FromPart(ps[m], x)
    /\ \E m \in 1 .. Len(ps) : FromToPart(ps[m], x, y) \/ ToPart(ps[m], y)
KetParts(ps, k) ==
    /\ \A m \in 1 .. Len(ps) : Len(ps[m]) = 0 \/ RangePart(ps[m]) \/ KetPart(ps[m], k)
    /\ \E m \in 1 .. Len(ps) : KetPart(ps[m], k)

(* Where the reading of such a command is, and what it has found. *)
ReadPart(m) == m < c \/ (m = c /\ p > Len(Part))
NothingElse(q) == q.PageNr = 0 /\ q.Sequence = FALSE
Only(q, x) == \A w : Holds(q, w) => w = x

EndsFilling(x, y) ==
    /\ NothingElse(param) /\ param.Name = <<>> /\ Only(param.From, x) /\ Only(param.To, y) /\ ~param.Shared
    /\ \A m \in 1 .. Len(parts) : ReadPart(m) =>
          /\ FromToPart(parts[m], x, y) \/ FromPart(parts[m], x) => Holds(param.From, x)
          /\ FromToPart(parts[m], x, y) \/ ToPart(parts[m], y) => Holds(param.To, y)
    /\ c <= Len(parts) => \/ p = 1 \/ p > Len(Part)
                          \/ FromToPart(Part, x, y) /\ p = 3 /\ Holds(param.From, x)
KetFilling(k) ==
    /\ NothingElse(param) /\ param.From = <<>> /\ param.To = <<>> /\ Only(param.Name, k)
    /\ \A m \in 1 .. Len(parts) : ReadPart(m) => (KetPart(parts[m], k) => Holds(param.Name, k))
    /\ c <= Len(parts) => p = 1 \/ p > Len(Part)
PathFound(x, y) ==
    /\ NothingElse(param) /\ param.Name = <<>>
    /\ Only(param.From, x) /\ Holds(param.From, x) /\ Only(param.To, y) /\ Holds(param.To, y)

PathKnown(x, y) == /\ stage = "decoded" => PathFound(x, y)
                   /\ stage = "answered" => /\ PathFound(x, y) /\ answer[1].kind = "paths"
                                            /\ answer[1].nodes = leftptrs /\ answer[1].ends = rightptrs
EndsInv(x, y) == (stage = "filling" => EndsFilling(x, y)) /\ PathKnown(x, y)
KetInv(k, x, y) == (stage = "filling" => KetFilling(k)) /\ PathKnown(x, y)
PathsInv == \A x, y \in PathEnds :
    /\ EndsParts(parts, x, y) => EndsInv(x, y)
    /\ \A k \in DOMAIN DiracNotation : Ket(k, x, y) /\ KetParts(parts, k) => KetInv(k, x, y)

(* The commands of ExplicitPathsSolved, part by part.                      *)
LEMMA GivenIs ==
    ASSUME parts \in Seq(Seq(Words)), NEW x \in PathEnds, NEW y \in PathEnds, EndsGiven(x, y)
    PROVE  \/ EndsParts(parts, x, y)
           \/ \E k \in DOMAIN DiracNotation : Ket(k, x, y) /\ KetParts(parts, k)
<1> DEFINE ps == {q \in ToSet(parts) : q # <<>>}
           rest == {q \in ps : RangePart(q)}
           ToOnly(q) == Len(q) = 2 /\ IsCommand[q[1]] /\ SomethingLike[q[1]] = "to" /\ q[2] = y
           KetOf(q) == Len(q) = 1 /\ q[1] \in DOMAIN DiracNotation /\ IsPrefix(<<x, y>>, DiracNotation[q[1]])
<1>1. \/ \E q \in ps : (FromToPart(q, x, y) \/ KetOf(q)) /\ ps \ rest = {q}
      \/ \E q, r \in ps : FromPart(q, x) /\ ToOnly(r) /\ ps \ rest = {q, r}
  BY DEF EndsGiven, RangePart, FromToPart, FromPart
<1>2. PICK n \in Nat : n = Len(parts) /\ DOMAIN parts = 1 .. n /\ \A m \in 1 .. n : parts[m] \in Seq(Words)
  OBVIOUS
<1>3. /\ \A m \in 1 .. n : Len(parts[m]) = 0 \/ parts[m] \in ps
      /\ \A q \in ps : \E m \in 1 .. n : q = parts[m]
  <2>1. ToSet(parts) = {parts[m] : m \in 1 .. n} BY <1>2 DEF ToSet
  <2>2. ASSUME NEW m \in 1 .. n, Len(parts[m]) # 0 PROVE parts[m] # <<>> BY <2>2
  <2> QED BY <2>1, <2>2
<1> HIDE DEF ps
<1>4. ASSUME NEW q \in ps, FromToPart(q, x, y), ps \ rest = {q} PROVE EndsParts(parts, x, y)
  <2>1. \A o \in ps : RangePart(o) \/ o = q BY <1>4
  <2>2. \A m \in 1 .. n : Len(parts[m]) = 0 \/ RangePart(parts[m]) \/ FromToPart(parts[m], x, y)
    BY <1>3, <1>4, <2>1
  <2>3. \E m \in 1 .. n : FromToPart(parts[m], x, y) BY <1>3, <1>4
  <2> QED BY <1>2, <2>2, <2>3 DEF EndsParts
<1>5. ASSUME NEW q \in ps, KetOf(q), ps \ rest = {q}
      PROVE  \E k \in DOMAIN DiracNotation : Ket(k, x, y) /\ KetParts(parts, k)
  <2>1. PICK k \in DOMAIN DiracNotation : k = q[1] BY <1>5
  <2>2. PICK d : d = DiracNotation[k] OBVIOUS
  <2>3. IsPrefix(<<x, y>>, d) BY <1>5, <2>1, <2>2
  <2>4. d \in {<<>>} \cup (Words \X Words \X Words) BY <2>2, SearchesAssumption
  <2>5. Len(<<x, y>>) <= Len(d) /\ SubSeq(<<x, y>>, 1, 2) = SubSeq(d, 1, 2)
    BY <2>3 DEF IsPrefix
  <2>6. d # <<>> BY <2>5
  <2>7. d[1] = x /\ d[2] = y
    <3>1. d \in Words \X Words \X Words BY <2>4, <2>6
    <3>2. SubSeq(<<x, y>>, 1, 2)[1] = x /\ SubSeq(<<x, y>>, 1, 2)[2] = y BY DEF PathEnds
    <3>3. d \in Seq(Words) /\ Len(d) = 3
      <4>1. PICK w1 \in Words, w2 \in Words, w3 \in Words : d = <<w1, w2, w3>> BY <3>1
      <4> QED BY <4>1
    <3>4. SubSeq(d, 1, 2)[1] = d[1] /\ SubSeq(d, 1, 2)[2] = d[2] BY <3>3
    <3> QED BY <2>5, <3>2, <3>4
  <2>8. Ket(k, x, y) BY <2>2, <2>6, <2>7 DEF Ket
  <2>9. \A o \in ps : RangePart(o) \/ o = q BY <1>5
  <2>10. KetPart(q, k) BY <1>5, <2>1 DEF KetPart
  <2>11. \A m \in 1 .. n : Len(parts[m]) = 0 \/ RangePart(parts[m]) \/ KetPart(parts[m], k)
    BY <1>3, <2>9, <2>10
  <2>12. \E m \in 1 .. n : KetPart(parts[m], k) BY <1>3, <2>10
  <2> QED BY <1>2, <2>8, <2>11, <2>12 DEF KetParts
<1>6. ASSUME NEW q \in ps, NEW r \in ps, FromPart(q, x), ToOnly(r), ps \ rest = {q, r}
      PROVE  EndsParts(parts, x, y)
  <2>1. \A o \in ps : RangePart(o) \/ o = q \/ o = r BY <1>6
  <2>2. ToPart(r, y) BY <1>6 DEF ToPart
  <2>3. \A m \in 1 .. n : Len(parts[m]) = 0 \/ RangePart(parts[m]) \/ FromPart(parts[m], x) \/ ToPart(parts[m], y)
    BY <1>3, <1>6, <2>1, <2>2
  <2>4. \E m \in 1 .. n : FromPart(parts[m], x) BY <1>3, <1>6
  <2>5. \E m \in 1 .. n : ToPart(parts[m], y) BY <1>3, <2>2
  <2> QED BY <1>2, <2>3, <2>4, <2>5 DEF EndsParts
<1> QED BY <1>1, <1>4, <1>5, <1>6

(* A plain word before a command word, or at the end of its part, is all a *)
(* case reads.                                                             *)
LEMMA OneParam ==
    ASSUME Part \in Seq(Words), NEW i \in 1 .. Len(Part), ~IsCommand[Part[i]],
           i + 1 <= Len(Part) => IsCommand[Part[i + 1]]
    PROVE  ParamsFrom(i) = <<Part[i]>>
<1>1. PICK part \in Seq(Words) : part = Part OBVIOUS
<1>2. PICK s \in Seq(Words) :
          /\ s = ParamsFrom(i) /\ i + Len(s) <= Len(part) + 1
          /\ \A k \in 1 .. Len(s) : s[k] = part[i + k - 1] /\ ~IsCommand[part[i + k - 1]]
          /\ i + Len(s) <= Len(part) => IsCommand[part[i + Len(s)]]
  <2>1. i \in 1 .. (Len(Part) + 1) BY <1>1
  <2> QED BY <1>1, <2>1, ParamsFromIs
<1>3. PICK n \in Nat : n = Len(s) OBVIOUS
<1>4. n # 0 BY <1>1, <1>2, <1>3
<1>5. ~(n >= 2)
  <2>1. ASSUME n >= 2 PROVE FALSE
    <3>1. 2 \in 1 .. Len(s) /\ i + 2 - 1 = i + 1 /\ i + 1 <= Len(part) BY <1>2, <1>3, <2>1
    <3>2. ~IsCommand[part[i + 1]] BY <1>2, <3>1
    <3> QED BY <1>1, <3>1, <3>2
  <2> QED BY <2>1
<1>6. n = 1 BY <1>4, <1>5
<1>7. s[1] = part[i]
  <2>1. 1 \in 1 .. Len(s) /\ i + 1 - 1 = i BY <1>3, <1>6
  <2> QED BY <1>2, <2>1
<1>8. s = <<s[1]>>
  <2>1. s = [j \in 1 .. 1 |-> s[j]]
    <3>1. s \in [1 .. Len(s) -> Words] OBVIOUS
    <3>2. s \in [1 .. 1 -> Words] BY <1>3, <1>6, <3>1
    <3> QED BY <3>2
  <2>2. [j \in 1 .. 1 |-> s[j]] = [j \in 1 .. 1 |-> s[1]] OBVIOUS
  <2>3. <<s[1]>> = [j \in 1 .. 1 |-> s[1]] OBVIOUS
  <2> QED BY <2>1, <2>2, <2>3
<1> QED BY <1>1, <1>2, <1>7, <1>8

-----------------------------------------------------------------------------
(* What a step may be where the reading is. *)

(* The keyword decides which case reads it.                                *)
LEMMA ReadsWord ==
    ASSUME SearchesInv, AtWord, Next
    PROVE  /\ SomethingLike[Part[p]] = "from" => From
           /\ SomethingLike[Part[p]] = "to" => ToNodes
           /\ SomethingLike[Part[p]] = "range" => Numeric
           /\ SomethingLike[Part[p]] = "text" => Text
<1>1. p \in Nat /\ Len(Part) \in Nat /\ c \in Nat /\ Len(parts) \in Nat
  BY AtWordIs DEF SearchesInv, SearchesTypeOK
<1>2. ~DecodeSearchField /\ ~Decoded /\ ~Search /\ ~NextPart
  BY <1>1 DEF AtWord, DecodeSearchField, Decoded, Search, NextPart
<1>3. PICK kw : kw = SomethingLike[Part[p]] OBVIOUS
<1>4. /\ Flag => kw \in {"stats", "seq", "new", "never", "help"}
      /\ Chapter => kw = "chapter"
      /\ Notes => kw = "notes"
      /\ Numeric => kw \in {"page", "range", "min", "max"}
      /\ Listed => kw \in {"arrow", "context"}
      /\ From => kw = "from"
      /\ ToNodes => kw = "to"
      /\ About => kw = "on"
      /\ Finds => kw = "finds"
      /\ Text => kw \in {"text", "remind"}
  BY <1>3 DEF Flag, Chapter, Notes, Numeric, Listed, From, ToNodes, About, Finds, Text, At, Word
<1>5. \/ Flag \/ Chapter \/ Notes \/ Numeric \/ Listed \/ From \/ ToNodes \/ About \/ Finds \/ Text
  BY <1>2 DEF Next, FillInParameters
<1> QED BY <1>3, <1>4, <1>5

LEMMA ReadsPart ==
    ASSUME SearchesInv, stage = "filling", Next
    PROVE  /\ c <= Len(parts) /\ p > Len(Part) => NextPart
           /\ c > Len(parts) => Decoded
<1>1. p \in Nat /\ c \in Nat \ {0} /\ Len(parts) \in Nat BY DEF SearchesInv, SearchesTypeOK
<1>2. ~DecodeSearchField /\ ~Search BY DEF DecodeSearchField, Search
<1>3. ASSUME Next, ~NextPart, ~Decoded PROVE c <= Len(parts) /\ p <= Len(Part)
  BY <1>2, <1>3 DEF Next, FillInParameters, Flag, Chapter, Notes, Numeric, Listed, From, ToNodes, About, Finds,
                    Text, At
<1>4. Decoded => c > Len(parts) BY DEF Decoded
<1>5. NextPart => c <= Len(parts) BY DEF NextPart
<1>6. c <= Len(parts) => Len(Part) \in Nat
  <2>1. ASSUME c <= Len(parts) PROVE Len(Part) \in Nat
    <3>1. c \in 1 .. Len(parts) BY <1>1, <2>1
    <3> QED BY <3>1 DEF Part, SearchesInv, SearchesTypeOK
  <2> QED BY <2>1
<1> QED BY <1>1, <1>3, <1>4, <1>5, <1>6

LEMMA OneWord ==
    ASSUME NEW S, NEW x \in S
    PROVE  <<x>> \in Seq(S) /\ Len(<<x>>) = 1 /\ <<x>>[1] = x /\ \A w : Holds(<<x>>, w) <=> w = x
<1>1. PICK ws : ws = <<x>> OBVIOUS
<1>2. ws \in Seq(S) /\ Len(ws) = 1 /\ ws[1] = x BY <1>1
<1>3. \A w : Holds(ws, w) <=> w = x BY <1>2 DEF Holds
<1> QED BY <1>1, <1>2, <1>3

(* What a step leaves of the search for a path. *)
Stays == stage' = "filling" /\ words' = words /\ parts' = parts /\ c' = c

LEMMA WhatNext ==
    ASSUME SearchesInv, AtWord
    PROVE  /\ HasNext <=> p + 1 <= Len(Part)
           /\ \A q, next : Fill(q, next) => Stays /\ param' = q /\ p' = next
BY AtWordIs DEF HasNext, Fill, Stays, AtWord

(* A depth leaves the ends alone.                                          *)
LEMMA RangeRead ==
    ASSUME SearchesInv, AtWord, Next, p = 1, RangePart(Part)
    PROVE  /\ Stays /\ p' = 3
           /\ param'.PageNr = param.PageNr /\ param'.Sequence = param.Sequence /\ param'.Name = param.Name
           /\ param'.From = param.From /\ param'.To = param.To /\ param'.Shared = param.Shared
<1>1. Numeric /\ SomethingLike[Word] = "range" BY ReadsWord DEF RangePart, Word
<1>2. HasNext BY WhatNext DEF RangePart
<1>3. NextWord \in Words /\ NextWord = Part[2] BY <1>2, NextWordIs
<1>4. PICK num \in Int : num = Number[NextWord] BY <1>3, SearchesAssumption
<1>5. num > 0 BY <1>3, <1>4 DEF RangePart
<1>6. PICK q2 : q2 = [param EXCEPT !.Range = num] OBVIOUS
<1>7. Fill(q2, p + 2)
  <2>1. ~(num <= 0) BY <1>5
  <2> QED BY <1>1, <1>2, <1>4, <1>6, <2>1 DEF Numeric
<1>8. Stays /\ param' = q2 /\ p' = 3 BY <1>7, WhatNext
<1> QED BY <1>6, <1>8, AtWordIs DEF SearchParameters

(* An end of a path has no commas and is no node pointer.                  *)
LEMMA PathEndSplit ==
    ASSUME NEW x \in PathEnds
    PROVE  Split(<<x>>) = <<x>> /\ SplitEnds(<<x>>) = <<x>> /\ x \notin DOMAIN Literal
<1>1. x \in Words /\ Commas[x] = <<x>> BY DEF PathEnds
<1>2. x \notin DOMAIN Literal
  <2>1. PICK s \in Seq(Words \ DOMAIN Literal) : s = <<x>> BY <1>1, SearchesAssumption
  <2>2. 1 \in 1 .. Len(s) /\ s[1] = x BY <2>1
  <2> QED BY <2>2
<1>3. PICK one \in Seq(Words) : one = <<x>> /\ Len(one) = 1 /\ one[1] = x BY <1>1, OneWord
<1>4. PICK ss : ss = <<one>> OBVIOUS
<1>5. ss \in Seq(Seq(Words)) /\ Len(ss) = 1 /\ ss[1] = one BY <1>4
<1>6. FlattenSeq(ss) = one
  <2>1. PICK r \in [0 .. Len(ss) -> Seq(Words)] : Joins(r, ss, Len(ss)) /\ r[Len(ss)] = FlattenSeq(ss)
    <3>1. Len(ss) # 0 BY <1>5
    <3> QED BY <1>5, <3>1, FlattenRun
  <2>2. r[0] = <<>> /\ \A k \in 1 .. 1 : r[k] = r[k - 1] \o ss[k] BY <1>5, <2>1 DEF Joins
  <2>3. 1 \in 1 .. 1 /\ 1 - 1 = 0 OBVIOUS
  <2>4. r[1] = <<>> \o one BY <1>5, <2>2, <2>3
  <2>5. <<>> \o one = one BY <1>3
  <2> QED BY <1>5, <2>1, <2>4, <2>5
<1>7. [i \in DOMAIN one |-> Commas[one[i]]] = ss
      /\ [i \in DOMAIN one |-> IF one[i] \in DOMAIN Literal THEN <<one[i]>> ELSE Commas[one[i]]] = ss
  <2>1. DOMAIN one = 1 .. 1 BY <1>3
  <2>2. /\ [i \in DOMAIN one |-> Commas[one[i]]] = [i \in 1 .. 1 |-> one]
        /\ [i \in DOMAIN one |-> IF one[i] \in DOMAIN Literal THEN <<one[i]>> ELSE Commas[one[i]]]
              = [i \in 1 .. 1 |-> one]
    BY <1>1, <1>2, <1>3, <2>1
  <2>3. ss = [i \in 1 .. 1 |-> one] BY <1>4
  <2> QED BY <2>2, <2>3
<1> QED BY <1>2, <1>3, <1>6, <1>7 DEF Split, SplitEnds

(* The words after "from" become the start of the path.                    *)
LEMMA SourceRead ==
    ASSUME SearchesInv, AtWord, Next, p = 1, ~param.Shared, NEW x \in PathEnds, NEW y,
           FromToPart(Part, x, y) \/ FromPart(Part, x)
    PROVE  /\ Stays /\ p' = 3
           /\ param'.PageNr = param.PageNr /\ param'.Sequence = param.Sequence /\ param'.Name = param.Name
           /\ \A w : Holds(param'.From, w) <=> Holds(param.From, w) \/ w = x
           /\ param'.To = param.To /\ ~param'.Shared
<1>1. From BY ReadsWord DEF FromToPart, FromPart
<1>2. Part \in Seq(Words) /\ 2 \in 1 .. Len(Part) /\ Part[2] = x BY AtWordIs DEF FromToPart, FromPart
<1>3. x \in Words /\ ~IsCommand[x] BY DEF PathEnds, Plain
<1>4. 2 + 1 <= Len(Part) => IsCommand[Part[2 + 1]]
  <2>1. ASSUME 2 + 1 <= Len(Part) PROVE Part[2 + 1] = To /\ To \in Words
    <3>1. Part[3] = To /\ 3 \in 1 .. Len(Part) BY <2>1 DEF FromToPart, FromPart
    <3> QED BY <1>2, <3>1
  <2> QED BY <2>1, SearchesAssumption
<1>5. Params = <<x>>
  <2>1. PICK i \in 1 .. Len(Part) : i = 2 BY <1>2
  <2>2. ParamsFrom(i) = <<Part[i]>> BY <1>2, <1>3, <1>4, <2>1, OneParam
  <2> QED BY <1>2, <2>1, <2>2 DEF Params
<1>6. PICK ws \in Seq(NameWords) : ws = <<x>> /\ Len(ws) = 1 /\ \A w : Holds(ws, w) <=> w = x
  <2>1. x \in NameWords BY <1>3 DEF NameWords
  <2> QED BY <2>1, OneWord
<1>7. PICK old \in Seq(NameWords) : old = param.From BY AtWordIs DEF SearchParameters
<1>8. PICK q2 : q2 = AppendFrom(param, ws) OBVIOUS
<1>9. q2.From = old \o ws /\ q2.To = param.To /\ ~q2.Shared /\ SameOthers(param, q2)
  BY <1>7, <1>8, AtWordIs, AppendsAre
<1>10. \A w : Holds(q2.From, w) <=> Holds(old, w) \/ w = x
  <2>1. \A w : Holds(old \o ws, w) <=> Holds(old, w) \/ Holds(ws, w) BY <1>6, ConcatHolds
  <2>2. \A w : Holds(ws, w) <=> w = x BY <1>6
  <2>3. PICK s : s = old \o ws OBVIOUS
  <2>4. q2.From = s BY <1>9, <2>3
  <2> QED BY <2>1, <2>2, <2>3, <2>4
<1>11. Fill(q2, p + 1 + 1)
  <2>1. SplitEnds(Params) = ws BY <1>5, <1>6, PathEndSplit
  <2>2. Len(Params) = 1 BY <1>5, <1>6
  <2> QED BY <1>1, <1>8, <2>1, <2>2 DEF From
<1>12. Stays /\ param' = q2 /\ p' = 3 BY <1>11, WhatNext
<1> QED BY <1>7, <1>9, <1>10, <1>12 DEF SameOthers

(* The words after "to" become its end.                                    *)
LEMMA TargetRead ==
    ASSUME SearchesInv, AtWord, Next, ~param.Shared, NEW x, NEW y \in PathEnds,
           \/ p = 1 /\ ToPart(Part, y)
           \/ p = 3 /\ FromToPart(Part, x, y) /\ Holds(param.From, x)
    PROVE  /\ Stays /\ p' > Len(Part)
           /\ param'.PageNr = param.PageNr /\ param'.Sequence = param.Sequence /\ param'.Name = param.Name
           /\ \A w : Holds(param'.To, w) <=> Holds(param.To, w) \/ w = y
           /\ param'.From = param.From /\ ~param'.Shared
<1>1. ToNodes /\ SomethingLike[Part[p]] = "to"
  <2>1. CASE p = 1 /\ ToPart(Part, y) BY <2>1, ReadsWord DEF ToPart
  <2>2. CASE p = 3 /\ FromToPart(Part, x, y)
    <3>1. Part[p] = To /\ To \in Words BY <2>2, AtWordIs DEF FromToPart
    <3>2. SomethingLike[To] = "to" BY <3>1, SearchesAssumption
    <3> QED BY <3>1, <3>2, ReadsWord
  <2> QED BY <2>1, <2>2
<1>2. PICK a \in Nat : a = p /\ a + 1 = Len(Part) /\ Part[a + 1] = y /\ Part \in Seq(Words)
  BY AtWordIs DEF FromToPart, ToPart
<1>3. y \in Words /\ ~IsCommand[y] BY DEF PathEnds, Plain
<1>4. Params = <<y>>
  <2>1. PICK i \in 1 .. Len(Part) : i = a + 1 BY <1>2
  <2>2. ParamsFrom(i) = <<Part[i]>> BY <1>2, <1>3, <2>1, OneParam
  <2> QED BY <1>2, <2>1, <2>2 DEF Params
<1>5. HasNext BY <1>2, WhatNext
<1>6. PICK ws \in Seq(Words) :
          ws = <<y>> /\ ws \in Seq(NameWords) /\ Len(ws) = 1 /\ ws[1] = y /\ \A w : Holds(ws, w) <=> w = y
  <2>1. y \in NameWords BY <1>3 DEF NameWords
  <2>2. <<y>> \in Seq(NameWords) BY <2>1, OneWord
  <2> QED BY <1>3, <2>2, OneWord
<1>7. PICK old \in Seq(NameWords) : old = param.To BY AtWordIs DEF SearchParameters
<1>8. PICK q2 : q2 = AppendTo(param, ws) OBVIOUS
<1>9. q2.To = old \o ws /\ q2.From = param.From /\ ~q2.Shared /\ SameOthers(param, q2)
  BY <1>6, <1>7, <1>8, AtWordIs, AppendsAre
<1>10. \A w : Holds(q2.To, w) <=> Holds(old, w) \/ w = y
  <2>1. \A w : Holds(old \o ws, w) <=> Holds(old, w) \/ Holds(ws, w) BY <1>6, ConcatHolds
  <2>2. \A w : Holds(ws, w) <=> w = y BY <1>6
  <2>3. PICK s : s = old \o ws OBVIOUS
  <2>4. q2.To = s BY <1>9, <2>3
  <2> QED BY <2>1, <2>2, <2>3, <2>4
<1>11. Split(Params) = ws /\ SplitEnds(Params) = ws /\ Len(Params) = 1 BY <1>4, <1>6, PathEndSplit
<1>12. Fill(q2, p + 1 + 1)
  <2>1. CASE p = 1
    <3>1. Fill(AppendTo(param, Split(Params)), p + 1 + Len(Params)) BY <1>1, <1>5, <2>1 DEF ToNodes
    <3> QED BY <1>8, <1>11, <3>1
  <2>2. CASE p = 3 /\ Holds(param.From, x)
    <3>1. PICK begin : begin = IF param.From = <<>> THEN AppendFrom(param, <<Part[p - 1]>>) ELSE param OBVIOUS
    <3>2. begin = param BY <2>2, <3>1 DEF Holds
    <3>3. Fill(Targets(begin, SplitEnds(Params)), p + 1 + Len(Params)) BY <1>1, <1>5, <2>2, <3>1 DEF ToNodes
    <3>4. Targets(param, ws) = q2
      <4>1. \A k \in 1 .. Len(ws) : ws[k] \notin DOMAIN Literal BY <1>6, PathEndSplit
      <4> QED BY <1>8, <4>1, AtWordIs, TargetsAre
    <3> QED BY <1>11, <3>2, <3>3, <3>4
  <2> QED BY <2>1, <2>2
<1>13. Stays /\ param' = q2 /\ p' = a + 2
  <2>1. p + 1 + 1 = a + 2 BY <1>2
  <2> QED BY <1>12, <2>1, WhatNext
<1>14. p' > Len(Part) BY <1>2, <1>13
<1> QED BY <1>7, <1>9, <1>10, <1>13, <1>14 DEF SameOthers

(* A word in Dirac notation is read as a name.                             *)
LEMMA KetRead ==
    ASSUME SearchesInv, AtWord, Next, p = 1, NEW k \in DOMAIN DiracNotation, KetPart(Part, k)
    PROVE  /\ Stays /\ p' = 3
           /\ param'.PageNr = param.PageNr /\ param'.Sequence = param.Sequence
           /\ \A w : Holds(param'.Name, w) <=> Holds(param.Name, w) \/ w = k
           /\ param'.From = param.From /\ param'.To = param.To
<1>1. k \in Words /\ ~IsCommand[k] /\ SomethingLike[k] = "text" /\ k # Anything BY SearchesAssumption
<1>2. Text BY <1>1, ReadsWord DEF KetPart
<1>3. Part \in Seq(Words) /\ 1 \in 1 .. Len(Part) /\ Part[1] = k /\ Len(Part) = 1 BY AtWordIs DEF KetPart
<1>4. ParamsFrom(p) = <<k>>
  <2>1. PICK i \in 1 .. Len(Part) : i = 1 BY <1>3
  <2>2. ParamsFrom(i) = <<Part[i]>> BY <1>1, <1>3, <2>1, OneParam
  <2> QED BY <1>3, <2>1, <2>2
<1>5. PICK ws : ws = <<k>> OBVIOUS
<1>6. ws \in Seq(Words) /\ Len(ws) = 1 /\ ws[1] = k /\ DOMAIN ws = 1 .. 1 BY <1>1, <1>5
<1>7. PICK read \in Seq(NameWords) : read = Star(ws) /\ \A w : Holds(read, w) <=> w = k
  <2>1. PICK read : read = Star(ws) OBVIOUS
  <2>2. read \in Seq(NameWords) BY <1>6, <2>1, StarIs
  <2>3. read = [i \in 1 .. 1 |-> k]
    <3>1. read = [i \in 1 .. 1 |-> IF ws[i] = Anything THEN Wild ELSE ws[i]] BY <1>6, <2>1 DEF Star
    <3> QED BY <1>1, <1>6, <3>1
  <2>4. Len(read) = 1 /\ read[1] = k BY <2>2, <2>3
  <2> QED BY <2>1, <2>2, <2>4 DEF Holds
<1>8. PICK old \in Seq(NameWords) : old = param.Name BY AtWordIs DEF SearchParameters
<1>9. PICK more : more = old \o read OBVIOUS
<1>10. \A w : Holds(more, w) <=> Holds(old, w) \/ w = k BY <1>7, <1>9, ConcatHolds
<1>11. PICK q2 : q2 = [param EXCEPT !.Name = more] OBVIOUS
<1>12. Fill(q2, p + 1 + 1) BY <1>2, <1>4, <1>5, <1>6, <1>7, <1>8, <1>9, <1>11 DEF Text
<1>13. Stays /\ param' = q2 /\ p' = 3 BY <1>12, WhatNext
<1> QED BY <1>8, <1>10, <1>11, <1>13, AtWordIs DEF SearchParameters

(* The reading of a command that gives both ends. *)
EndsRead(q, part, x, y) ==
    /\ FromToPart(part, x, y) \/ FromPart(part, x) => Holds(q.From, x)
    /\ FromToPart(part, x, y) \/ ToPart(part, y) => Holds(q.To, y)

LEMMA PartsAre ==
    ASSUME SearchesInv
    PROVE  /\ p \in Nat /\ c \in Nat \ {0} /\ Len(parts) \in Nat
           /\ c <= Len(parts) => c \in 1 .. Len(parts) /\ Len(Part) \in Nat /\ Part = parts[c]
<1>1. p \in Nat /\ c \in Nat \ {0} /\ Len(parts) \in Nat /\ parts \in Seq(Seq(Words))
  BY DEF SearchesInv, SearchesTypeOK
<1>2. ASSUME c <= Len(parts) PROVE c \in 1 .. Len(parts) /\ Len(Part) \in Nat
  <2>1. c \in 1 .. Len(parts) BY <1>1, <1>2
  <2>2. parts[c] \in Seq(Words) BY <1>1, <2>1
  <2> QED BY <2>1, <2>2 DEF Part
<1> QED BY <1>1, <1>2 DEF Part

LEMMA EndsWord ==
    ASSUME SearchesInv, AtWord, NEW x \in PathEnds, NEW y \in PathEnds, EndsFilling(x, y),
           Stays, p' \in Nat, NothingElse(param'), param'.Name = <<>>,
           Only(param'.From, x), Only(param'.To, y), ~param'.Shared,
           Holds(param.From, x) => Holds(param'.From, x), Holds(param.To, y) => Holds(param'.To, y),
           \/ p' > Len(Part) /\ EndsRead(param', Part, x, y)
           \/ FromToPart(Part, x, y) /\ p' = 3 /\ Holds(param'.From, x)
    PROVE  EndsFilling(x, y)'
<1>1. parts' = parts /\ c' = c /\ Part' = Part BY DEF Stays, Part
<1>2. ASSUME NEW m \in 1 .. Len(parts), m < c \/ (m = c /\ p' > Len(Part)) PROVE EndsRead(param', parts[m], x, y)
  <2>1. CASE m < c
    <3>1. ReadPart(m) BY <2>1 DEF ReadPart
    <3> QED BY <3>1 DEF EndsFilling, EndsRead
  <2>2. CASE m = c /\ p' > Len(Part)
    <3>1. parts[m] = Part BY <2>2 DEF Part
    <3>2. CASE EndsRead(param', Part, x, y) BY <3>1, <3>2
    <3>3. CASE FromToPart(Part, x, y) /\ p' = 3
      <4>1. Len(Part) = 4 BY <3>3 DEF FromToPart
      <4> QED BY <2>2, <3>3, <4>1
    <3> QED BY <3>2, <3>3
  <2> QED BY <1>2, <2>1, <2>2
<1>3. p' > Len(Part) \/ (FromToPart(Part, x, y) /\ p' = 3 /\ Holds(param'.From, x)) OBVIOUS
<1>4. /\ NothingElse(param)' /\ param'.Name = <<>> /\ Only(param.From, x)' /\ Only(param.To, y)'
      /\ ~param'.Shared
  BY DEF NothingElse, Only
<1>5. \A m \in 1 .. Len(parts') : ReadPart(m)' => EndsRead(param', parts'[m], x, y)
  BY <1>1, <1>2 DEF ReadPart
<1> QED BY <1>1, <1>3, <1>4, <1>5 DEF EndsFilling, EndsRead

(* Reading a part of such a command finds the end it gives.                *)
LEMMA EndsStep ==
    ASSUME SearchesInv, NEW x \in PathEnds, NEW y \in PathEnds, EndsParts(parts, x, y), EndsFilling(x, y),
           stage = "filling", c <= Len(parts), Next
    PROVE  stage' = "filling" /\ parts' = parts /\ EndsFilling(x, y)'
<1>1. /\ p \in Nat /\ c \in 1 .. Len(parts) /\ Len(parts) \in Nat /\ Len(Part) \in Nat /\ Part = parts[c]
  BY PartsAre
<1>2. CASE p > Len(Part)
  <2>1. /\ c' = c + 1 /\ p' = 1 /\ stage' = stage /\ parts' = parts /\ param' = param
    BY <1>2, ReadsPart DEF NextPart
  <2>2. ASSUME NEW m \in 1 .. Len(parts), m < c + 1 \/ (m = c + 1 /\ 1 > Len(parts[m]))
        PROVE  EndsRead(param, parts[m], x, y)
    <3>1. CASE m < c + 1
      <4>1. ReadPart(m) BY <1>1, <1>2, <3>1 DEF ReadPart
      <4> QED BY <4>1 DEF EndsFilling, EndsRead
    <3>2. CASE 1 > Len(parts[m])
      <4>1. ~(FromToPart(parts[m], x, y) \/ FromPart(parts[m], x) \/ ToPart(parts[m], y))
        BY <3>2 DEF FromToPart, FromPart, ToPart
      <4> QED BY <4>1 DEF EndsRead
    <3> QED BY <2>2, <3>1, <3>2
  <2>3. \A m \in 1 .. Len(parts') : ReadPart(m)' => EndsRead(param', parts'[m], x, y)
    BY <2>1, <2>2 DEF ReadPart, Part
  <2>4. /\ NothingElse(param)' /\ param'.Name = <<>> /\ Only(param.From, x)' /\ Only(param.To, y)'
        /\ ~param'.Shared
    BY <2>1 DEF EndsFilling, NothingElse, Only
  <2> QED BY <2>1, <2>3, <2>4 DEF EndsFilling, EndsRead
<1>3. CASE p <= Len(Part)
  <2>1. AtWord BY <1>3 DEF AtWord
  <2>2. NothingElse(param) /\ param.Name = <<>> /\ Only(param.From, x) /\ Only(param.To, y) /\ ~param.Shared
    BY DEF EndsFilling
  <2>3. p = 1 \/ (FromToPart(Part, x, y) /\ p = 3 /\ Holds(param.From, x)) BY <1>1, <1>3 DEF EndsFilling
  <2>4. \/ RangePart(Part) \/ FromToPart(Part, x, y) \/ FromPart(Part, x) \/ ToPart(Part, y)
    <3>1. Len(Part) # 0 BY <1>1, <1>3, <2>3
    <3> QED BY <1>1, <3>1 DEF EndsParts
  <2>5. CASE p = 1 /\ RangePart(Part)
    <3>1. /\ Stays /\ p' = 3
          /\ param'.PageNr = param.PageNr /\ param'.Sequence = param.Sequence /\ param'.Name = param.Name
          /\ param'.From = param.From /\ param'.To = param.To /\ param'.Shared = param.Shared
      BY <2>1, <2>5, RangeRead
    <3>2. p' > Len(Part) /\ EndsRead(param', Part, x, y)
      BY <2>5, <3>1 DEF EndsRead, RangePart, FromToPart, FromPart, ToPart
    <3>3. NothingElse(param') /\ Only(param'.From, x) /\ Only(param'.To, y) BY <2>2, <3>1 DEF NothingElse
    <3> QED BY <2>1, <2>2, <3>1, <3>2, <3>3, EndsWord DEF Stays
  <2>6. CASE p = 1 /\ (FromToPart(Part, x, y) \/ FromPart(Part, x))
    <3>1. /\ Stays /\ p' = 3
          /\ param'.PageNr = param.PageNr /\ param'.Sequence = param.Sequence /\ param'.Name = param.Name
          /\ \A w : Holds(param'.From, w) <=> Holds(param.From, w) \/ w = x
          /\ param'.To = param.To /\ ~param'.Shared
      BY <2>1, <2>2, <2>6, SourceRead
    <3>2. NothingElse(param') /\ Only(param'.From, x) /\ Only(param'.To, y)
      BY <2>2, <3>1 DEF NothingElse, Only
    <3>3. \/ p' > Len(Part) /\ EndsRead(param', Part, x, y)
          \/ FromToPart(Part, x, y) /\ p' = 3 /\ Holds(param'.From, x)
      BY <2>6, <3>1 DEF EndsRead, FromToPart, FromPart, ToPart
    <3> QED BY <2>1, <2>2, <3>1, <3>2, <3>3, EndsWord DEF Stays
  <2>7. CASE \/ p = 1 /\ ToPart(Part, y)
             \/ p = 3 /\ FromToPart(Part, x, y) /\ Holds(param.From, x)
    <3>1. /\ Stays /\ p' > Len(Part)
          /\ param'.PageNr = param.PageNr /\ param'.Sequence = param.Sequence /\ param'.Name = param.Name
          /\ \A w : Holds(param'.To, w) <=> Holds(param.To, w) \/ w = y
          /\ param'.From = param.From /\ ~param'.Shared
      BY <2>1, <2>2, <2>7, TargetRead
    <3>2. NothingElse(param') /\ Only(param'.From, x) /\ Only(param'.To, y)
      BY <2>2, <3>1 DEF NothingElse, Only
    <3>3. EndsRead(param', Part, x, y) BY <2>7, <3>1 DEF EndsRead, FromToPart, FromPart, ToPart
    <3>4. p' \in Nat
      <4>1. SearchesInv' BY SearchesInvNext
      <4> QED BY <4>1 DEF SearchesInv, SearchesTypeOK
    <3> QED BY <2>1, <2>2, <3>1, <3>2, <3>3, <3>4, EndsWord DEF Stays
  <2> QED BY <2>3, <2>4, <2>5, <2>6, <2>7
<1> QED BY <1>1, <1>2, <1>3

(* The same for a command in Dirac notation. *)
LEMMA KetWord ==
    ASSUME SearchesInv, AtWord, NEW k \in DOMAIN DiracNotation, KetFilling(k),
           Stays, NothingElse(param'), param'.From = <<>>, param'.To = <<>>, Only(param'.Name, k),
           Holds(param.Name, k) => Holds(param'.Name, k),
           p' > Len(Part), KetPart(Part, k) => Holds(param'.Name, k)
    PROVE  KetFilling(k)'
<1>1. parts' = parts /\ c' = c /\ Part' = Part BY DEF Stays, Part
<1>2. ASSUME NEW m \in 1 .. Len(parts), m < c \/ m = c, KetPart(parts[m], k) PROVE Holds(param'.Name, k)
  <2>1. CASE m < c
    <3>1. ReadPart(m) BY <2>1 DEF ReadPart
    <3> QED BY <1>2, <3>1 DEF KetFilling
  <2>2. CASE m = c BY <1>2, <2>2 DEF Part
  <2> QED BY <1>2, <2>1, <2>2
<1>3. \A m \in 1 .. Len(parts') : ReadPart(m)' => (KetPart(parts'[m], k) => Holds(param'.Name, k))
  BY <1>1, <1>2 DEF ReadPart
<1>4. NothingElse(param)' /\ Only(param.Name, k)' BY DEF NothingElse, Only
<1> QED BY <1>1, <1>3, <1>4 DEF KetFilling

LEMMA KetStep ==
    ASSUME SearchesInv, NEW k \in DOMAIN DiracNotation, KetParts(parts, k), KetFilling(k),
           stage = "filling", c <= Len(parts), Next
    PROVE  stage' = "filling" /\ parts' = parts /\ KetFilling(k)'
<1>1. /\ p \in Nat /\ c \in 1 .. Len(parts) /\ Len(parts) \in Nat /\ Len(Part) \in Nat /\ Part = parts[c]
  BY PartsAre
<1>2. CASE p > Len(Part)
  <2>1. /\ c' = c + 1 /\ p' = 1 /\ stage' = stage /\ parts' = parts /\ param' = param
    BY <1>2, ReadsPart DEF NextPart
  <2>2. ASSUME NEW m \in 1 .. Len(parts), m < c + 1 \/ (m = c + 1 /\ 1 > Len(parts[m])), KetPart(parts[m], k)
        PROVE  Holds(param.Name, k)
    <3>1. m < c + 1 BY <2>2 DEF KetPart
    <3>2. ReadPart(m) BY <1>1, <1>2, <3>1 DEF ReadPart
    <3> QED BY <2>2, <3>2 DEF KetFilling
  <2>3. \A m \in 1 .. Len(parts') : ReadPart(m)' => (KetPart(parts'[m], k) => Holds(param'.Name, k))
    BY <2>1, <2>2 DEF ReadPart, Part
  <2>4. NothingElse(param)' /\ param'.From = <<>> /\ param'.To = <<>> /\ Only(param.Name, k)'
    BY <2>1 DEF KetFilling, NothingElse, Only
  <2> QED BY <2>1, <2>3, <2>4 DEF KetFilling
<1>3. CASE p <= Len(Part)
  <2>1. AtWord BY <1>3 DEF AtWord
  <2>2. NothingElse(param) /\ param.From = <<>> /\ param.To = <<>> /\ Only(param.Name, k) BY DEF KetFilling
  <2>3. p = 1 BY <1>1, <1>3 DEF KetFilling
  <2>4. RangePart(Part) \/ KetPart(Part, k)
    <3>1. Len(Part) # 0 BY <1>1, <1>3, <2>3
    <3> QED BY <1>1, <3>1 DEF KetParts
  <2>5. CASE RangePart(Part)
    <3>1. /\ Stays /\ p' = 3
          /\ param'.PageNr = param.PageNr /\ param'.Sequence = param.Sequence /\ param'.Name = param.Name
          /\ param'.From = param.From /\ param'.To = param.To
      BY <2>1, <2>3, <2>5, RangeRead
    <3>2. p' > Len(Part) /\ ~KetPart(Part, k) BY <2>5, <3>1 DEF RangePart, KetPart
    <3>3. NothingElse(param') /\ Only(param'.Name, k) BY <2>2, <3>1 DEF NothingElse
    <3> QED BY <2>1, <2>2, <3>1, <3>2, <3>3, KetWord DEF Stays
  <2>6. CASE KetPart(Part, k)
    <3>1. /\ Stays /\ p' = 3
          /\ param'.PageNr = param.PageNr /\ param'.Sequence = param.Sequence
          /\ \A w : Holds(param'.Name, w) <=> Holds(param.Name, w) \/ w = k
          /\ param'.From = param.From /\ param'.To = param.To
      BY <2>1, <2>3, <2>6, KetRead
    <3>2. p' > Len(Part) BY <2>6, <3>1 DEF KetPart
    <3>3. NothingElse(param') /\ Only(param'.Name, k) BY <2>2, <3>1 DEF NothingElse, Only
    <3> QED BY <2>1, <2>2, <3>1, <3>2, <3>3, KetWord DEF Stays
  <2> QED BY <2>4, <2>5, <2>6
<1> QED BY <1>1, <1>2, <1>3

-----------------------------------------------------------------------------
(* Before and after the reading. *)

LEMMA PathsDecode ==
    ASSUME SearchesInv, stage = "start", Next, NEW x, NEW y, NEW k
    PROVE  stage' = "filling" /\ EndsFilling(x, y)' /\ KetFilling(k)'
<1>1. /\ stage' = "filling" /\ c' = 1 /\ p' = 1 /\ param' = EmptyParam
  <2>1. DecodeSearchField
    <3>1. Next => DecodeSearchField \/ stage # "start"
      BY DEF Next, FillInParameters, Flag, Chapter, Notes, Numeric, Listed, From, ToNodes, About, Finds, Text, At,
             NextPart, Decoded, Search
    <3> QED BY <3>1
  <2> QED BY <2>1 DEF DecodeSearchField, SearchesInv
<1>2. /\ NothingElse(param)' /\ param'.Name = <<>> /\ param'.From = <<>> /\ param'.To = <<>> /\ ~param'.Shared
      /\ Only(param.From, x)' /\ Only(param.To, y)' /\ Only(param.Name, k)'
  <2>1. param'.Name = <<>> /\ param'.From = <<>> /\ param'.To = <<>> /\ ~param'.Shared /\ NothingElse(param)'
    BY <1>1 DEF EmptyParam, NothingElse
  <2>2. \A w : ~Holds(<<>>, w) BY DEF Holds
  <2> QED BY <2>1, <2>2 DEF Only
<1>3. SearchesInv' BY SearchesInvNext
<1>4. ASSUME NEW m \in 1 .. Len(parts'), ReadPart(m)' PROVE Len(parts'[m]) = 0
  <2>1. parts' \in Seq(Seq(Words)) BY <1>3 DEF SearchesInv, SearchesTypeOK
  <2>2. PICK n \in Nat : n = Len(parts'[m]) BY <2>1
  <2>3. m = 1 /\ 1 > n BY <1>1, <1>4, <2>2 DEF ReadPart, Part
  <2> QED BY <2>2, <2>3
<1>5. ASSUME NEW m \in 1 .. Len(parts'), ReadPart(m)'
      PROVE  ~(FromToPart(parts'[m], x, y) \/ FromPart(parts'[m], x) \/ ToPart(parts'[m], y) \/ KetPart(parts'[m], k))
  BY <1>4, <1>5 DEF FromToPart, FromPart, ToPart, KetPart
<1>6. EndsFilling(x, y)' BY <1>1, <1>2, <1>5 DEF EndsFilling
<1>7. KetFilling(k)' BY <1>1, <1>2, <1>5 DEF KetFilling
<1> QED BY <1>1, <1>6, <1>7

LEMMA OnlyNone == ASSUME NEW q \in Seq(NameWords), \A w : ~Holds(q, w) PROVE q = <<>>
<1>1. PICK n \in Nat : n = Len(q) OBVIOUS
<1>2. n = 0
  <2>1. ASSUME n # 0 PROVE FALSE
    <3>1. 1 \in 1 .. Len(q) BY <1>1, <2>1
    <3> QED BY <3>1 DEF Holds
  <2> QED BY <2>1
<1>3. Len(q) = 0 BY <1>1, <1>2
<1> QED BY <1>3

LEMMA EndsDecoded ==
    ASSUME SearchesInv, NEW x \in PathEnds, NEW y \in PathEnds, EndsParts(parts, x, y), EndsFilling(x, y),
           stage = "filling", c > Len(parts), Next
    PROVE  stage' = "decoded" /\ parts' = parts /\ PathFound(x, y)'
<1>1. Decoded BY ReadsPart
<1>2. PICK q : q = [param EXCEPT !.Name = WithoutWildcards(param.Name)] OBVIOUS
<1>3. /\ parts' = parts
      /\ IF BadDirac(q) THEN stage' = "exited" /\ param' = q
         ELSE stage' = "decoded" /\ param' = WithDirac(q)
  BY <1>1, <1>2 DEF Decoded
<1>4. param \in SearchParameters /\ param.Name = <<>> BY DEF SearchesInv, SearchesTypeOK, EndsFilling
<1>5. WithoutWildcards(param.Name) = <<>>
  <2>1. PICK names \in Seq(NameWords) : names = param.Name BY <1>4 DEF SearchParameters
  <2>2. PICK rest \in Seq(NameWords) : rest = WithoutWildcards(names) BY WithoutWildcardsIs
  <2>3. \A w : Holds(rest, w) => Holds(names, w) BY <2>2, WithoutWildcardsIs
  <2>4. \A w : ~Holds(names, w) BY <1>4, <2>1 DEF Holds
  <2>5. rest = <<>> BY <2>3, <2>4, OnlyNone
  <2> QED BY <2>1, <2>2, <2>5
<1>6. q \in SearchParameters /\ q.Name = <<>> /\ q.From = param.From /\ q.To = param.To
      /\ q.PageNr = param.PageNr /\ q.Sequence = param.Sequence
  BY <1>2, <1>4, <1>5 DEF SearchParameters
<1>7. Diracs(q) = {} BY <1>6 DEF Diracs
<1>8. ~BadDirac(q) /\ WithDirac(q) = q BY <1>7 DEF BadDirac, WithDirac
<1>9. \A m \in 1 .. Len(parts) : ReadPart(m) BY PartsAre DEF ReadPart
<1>10. Holds(param.From, x) /\ Holds(param.To, y) BY <1>9 DEF EndsParts, EndsFilling
<1>11. NothingElse(param) /\ Only(param.From, x) /\ Only(param.To, y) BY DEF EndsFilling
<1>12. param' = q /\ stage' = "decoded" BY <1>3, <1>8
<1> QED BY <1>3, <1>6, <1>10, <1>11, <1>12 DEF PathFound, NothingElse, Only

LEMMA KetDecoded ==
    ASSUME SearchesInv, NEW x \in PathEnds, NEW y \in PathEnds, NEW k \in DOMAIN DiracNotation, Ket(k, x, y),
           KetParts(parts, k), KetFilling(k), stage = "filling", c > Len(parts), Next
    PROVE  stage' = "decoded" /\ parts' = parts /\ PathFound(x, y)'
<1>1. Decoded BY ReadsPart
<1>2. PICK q : q = [param EXCEPT !.Name = WithoutWildcards(param.Name)] OBVIOUS
<1>3. /\ parts' = parts
      /\ IF BadDirac(q) THEN stage' = "exited" /\ param' = q
         ELSE stage' = "decoded" /\ param' = WithDirac(q)
  BY <1>1, <1>2 DEF Decoded
<1>4. param \in SearchParameters BY DEF SearchesInv, SearchesTypeOK
<1>5. \A m \in 1 .. Len(parts) : ReadPart(m) BY PartsAre DEF ReadPart
<1>6. Holds(param.Name, k) /\ Only(param.Name, k) /\ NothingElse(param) BY <1>5 DEF KetParts, KetFilling
<1>7. PICK old \in Seq(NameWords) : old = param.Name BY <1>4 DEF SearchParameters
<1>8. PICK names \in Seq(NameWords) : names = WithoutWildcards(old) BY WithoutWildcardsIs
<1>9. Holds(names, k) /\ Only(names, k)
  <2>1. /\ \A w : Holds(names, w) => Holds(old, w)
        /\ \A w : Holds(old, w) /\ w \notin {Wild, Anything} => Holds(names, w)
    BY <1>8, WithoutWildcardsIs
  <2>2. k \notin {Wild, Anything} BY SearchesAssumption
  <2> QED BY <1>6, <1>7, <2>1, <2>2 DEF Only
<1>10. q.Name = names /\ q.PageNr = param.PageNr /\ q.Sequence = param.Sequence
  BY <1>2, <1>4, <1>7, <1>8 DEF SearchParameters
<1>11. PICK n \in Nat : n = Len(names) /\ DOMAIN names = 1 .. n OBVIOUS
<1>12. \A i \in 1 .. n : names[i] = k BY <1>9, <1>11 DEF Only, Holds
<1>13. PICK S : S = Diracs(q) OBVIOUS
<1>14. S \in SUBSET (1 .. n) /\ S # {}
  <2>1. S = {i \in 1 .. n : names[i] \in DOMAIN DiracNotation} BY <1>10, <1>11, <1>13 DEF Diracs
  <2>2. \E i \in 1 .. n : names[i] = k BY <1>9, <1>11 DEF Holds
  <2> QED BY <2>1, <2>2
<1>15. Min(S) \in 1 .. n
  <2>1. 1 \in Nat /\ n \in Int OBVIOUS
  <2> QED BY <1>14, <2>1, LeastInInterval
<1>16. PICK d : d = FirstDirac(q) OBVIOUS
<1>17. d = DiracNotation[k] BY <1>10, <1>12, <1>13, <1>15, <1>16 DEF FirstDirac
<1>18. d # <<>> /\ d[1] = x /\ d[2] = y BY <1>17 DEF Ket
<1>19. ~BadDirac(q) BY <1>16, <1>18 DEF BadDirac
<1>20. WithDirac(q) = [q EXCEPT !.Name = <<>>, !.From = <<x>>, !.To = <<y>>, !.Context = <<d[3]>>]
  BY <1>13, <1>14, <1>16, <1>18 DEF WithDirac
<1>21. /\ param'.Name = <<>> /\ param'.From = <<x>> /\ param'.To = <<y>>
       /\ param'.PageNr = param.PageNr /\ param'.Sequence = param.Sequence
  BY <1>2, <1>3, <1>4, <1>10, <1>19, <1>20 DEF SearchParameters
<1>22. /\ Holds(param'.From, x) /\ Only(param'.From, x) /\ Holds(param'.To, y) /\ Only(param'.To, y)
  <2>1. x \in Words /\ y \in Words BY DEF PathEnds
  <2>2. /\ \A w : Holds(<<x>>, w) <=> w = x
        /\ \A w : Holds(<<y>>, w) <=> w = y
    BY <2>1, OneWord
  <2>3. \A w : Holds(param'.From, w) <=> w = x BY <1>21, <2>2
  <2>4. \A w : Holds(param'.To, w) <=> w = y BY <1>21, <2>2
  <2> QED BY <2>3, <2>4 DEF Only
<1> QED BY <1>3, <1>6, <1>19, <1>21, <1>22 DEF PathFound, NothingElse, Only

(* With both ends found and nothing else asked for, Search calls the path  *)
(* search.                                                                 *)
LEMMA PathSearched ==
    ASSUME SearchesInv, NEW x, NEW y, PathFound(x, y), stage = "decoded", Next
    PROVE  /\ stage' \in {"answered", "panicked"} /\ parts' = parts /\ PathFound(x, y)'
           /\ stage' = "answered" => /\ answer'[1].kind = "paths"
                                     /\ answer'[1].nodes = leftptrs' /\ answer'[1].ends = rightptrs'
<1>1. Search
  <2>1. Next => Search \/ stage # "decoded"
    BY DEF Next, DecodeSearchField, FillInParameters, Flag, Chapter, Notes, Numeric, Listed, From, ToNodes, About,
           Finds, Text, At, NextPart, Decoded
  <2> QED BY <2>1
<1>2. /\ param' = param /\ parts' = parts
      /\ stage' \in {"answered", "panicked", "exited"}
  BY <1>1 DEF Search, End
<1>3. param.Name = <<>> /\ param.From # <<>> /\ param.To # <<>> /\ param.PageNr = 0 /\ param.Sequence = FALSE
  BY DEF PathFound, NothingElse, Holds
<1>4. ~name /\ from /\ to /\ ~pagenr /\ ~param.Sequence BY <1>3 DEF name, from, to, pagenr
<1>5. ~Exits BY <1>4 DEF Exits, Conflict
<1>6. Handler = Answer("paths", leftptrs, rightptrs)
  BY <1>4 DEF Handler, ShowMatchingChapter, FindOrbits, PathSolve
<1>7. Handler.kind = "paths" /\ Handler.nodes = leftptrs /\ Handler.ends = rightptrs BY <1>6 DEF Answer
<1>8. stage' # "exited" BY <1>1, <1>5, <1>7 DEF Search, End
<1>9. stage' = "answered" => answer' = <<Handler>> BY <1>1, <1>5, <1>7 DEF Search, End
<1>10. leftptrs' = leftptrs /\ rightptrs' = rightptrs
  BY <1>2 DEF leftptrs, rightptrs, SolveNodePtrs, SearchNodesByName, maxlimit
<1>11. stage' = "answered" => answer'[1] = Handler BY <1>9
<1>12. PathFound(x, y)' BY <1>2 DEF PathFound, NothingElse, Only
<1> QED BY <1>2, <1>7, <1>8, <1>10, <1>11, <1>12

-----------------------------------------------------------------------------
(* The invariant of the searches for a path. *)

LEMMA PathsInvInit == Init => PathsInv
<1> SUFFICES ASSUME Init PROVE PathsInv OBVIOUS
<1>1. stage = "start" BY DEF Init
<1> QED BY <1>1 DEF PathsInv, EndsInv, KetInv, PathKnown

LEMMA NextReads ==
    ASSUME SearchesInv, Next
    PROVE  /\ stage \in {"start", "filling", "decoded"}
           /\ stage = "filling" => (c <= Len(parts) \/ c > Len(parts))
           /\ stage # "start" => parts' = parts
<1>1. /\ stage \in {"start", "filling", "decoded"}
      /\ stage # "start" => parts' = parts
  BY DEF Next, DecodeSearchField, FillInParameters, Flag, Chapter, Notes, Numeric, Listed, From, ToNodes, About,
         Finds, Text, At, Fill, NextPart, Decoded, Search, End
<1> QED BY <1>1, PartsAre

LEMMA PathsInvNext == SearchesInv /\ PathsInv /\ [Next]_vars => PathsInv'
<1> SUFFICES ASSUME SearchesInv, PathsInv, [Next]_vars PROVE PathsInv' OBVIOUS
<1>1. CASE UNCHANGED vars
  BY <1>1 DEF vars, PathsInv, EndsParts, EndsInv, KetParts, KetInv, PathKnown, EndsFilling, KetFilling,
              PathFound, NothingElse, Only, ReadPart, Part, leftptrs, rightptrs, SolveNodePtrs, SearchNodesByName,
              maxlimit
<1>2. ASSUME Next, NEW x \in PathEnds, NEW y \in PathEnds, EndsParts(parts', x, y) PROVE EndsInv(x, y)'
  <2>1. CASE stage = "start"
    <3>1. stage' = "filling" /\ EndsFilling(x, y)' BY <1>2, <2>1, PathsDecode
    <3> QED BY <3>1 DEF EndsInv, PathKnown
  <2>2. ASSUME parts' = parts PROVE EndsInv(x, y) BY <1>2, <2>2 DEF PathsInv
  <2>3. CASE stage = "filling" /\ c <= Len(parts)
    <3>1. parts' = parts BY <1>2, <2>3, NextReads
    <3>2. EndsParts(parts, x, y) /\ EndsFilling(x, y) BY <1>2, <2>2, <2>3, <3>1 DEF EndsInv
    <3>3. stage' = "filling" /\ EndsFilling(x, y)' BY <1>2, <2>3, <3>2, EndsStep
    <3> QED BY <3>3 DEF EndsInv, PathKnown
  <2>4. CASE stage = "filling" /\ c > Len(parts)
    <3>1. parts' = parts BY <1>2, <2>4, NextReads
    <3>2. EndsParts(parts, x, y) /\ EndsFilling(x, y) BY <1>2, <2>2, <2>4, <3>1 DEF EndsInv
    <3>3. stage' = "decoded" /\ PathFound(x, y)' BY <1>2, <2>4, <3>2, EndsDecoded
    <3> QED BY <3>3 DEF EndsInv, PathKnown
  <2>5. CASE stage = "decoded"
    <3>1. parts' = parts BY <1>2, <2>5, NextReads
    <3>2. PathFound(x, y) BY <2>2, <2>5, <3>1 DEF EndsInv, PathKnown
    <3>3. /\ stage' \in {"answered", "panicked"} /\ PathFound(x, y)'
          /\ stage' = "answered" => /\ answer'[1].kind = "paths"
                                    /\ answer'[1].nodes = leftptrs' /\ answer'[1].ends = rightptrs'
      BY <1>2, <2>5, <3>2, PathSearched
    <3> QED BY <3>3 DEF EndsInv, PathKnown
  <2> QED BY <1>2, <2>1, <2>3, <2>4, <2>5, NextReads
<1>3. ASSUME Next, NEW x \in PathEnds, NEW y \in PathEnds, NEW k \in DOMAIN DiracNotation, Ket(k, x, y),
             KetParts(parts', k)
      PROVE  KetInv(k, x, y)'
  <2>1. CASE stage = "start"
    <3>1. stage' = "filling" /\ KetFilling(k)' BY <1>3, <2>1, PathsDecode
    <3> QED BY <3>1 DEF KetInv, PathKnown
  <2>2. ASSUME parts' = parts PROVE KetInv(k, x, y) BY <1>3, <2>2 DEF PathsInv
  <2>3. CASE stage = "filling" /\ c <= Len(parts)
    <3>1. parts' = parts BY <1>3, <2>3, NextReads
    <3>2. KetParts(parts, k) /\ KetFilling(k) BY <1>3, <2>2, <2>3, <3>1 DEF KetInv
    <3>3. stage' = "filling" /\ KetFilling(k)' BY <1>3, <2>3, <3>2, KetStep
    <3> QED BY <3>3 DEF KetInv, PathKnown
  <2>4. CASE stage = "filling" /\ c > Len(parts)
    <3>1. parts' = parts BY <1>3, <2>4, NextReads
    <3>2. KetParts(parts, k) /\ KetFilling(k) BY <1>3, <2>2, <2>4, <3>1 DEF KetInv
    <3>3. stage' = "decoded" /\ PathFound(x, y)' BY <1>3, <2>4, <3>2, KetDecoded
    <3> QED BY <3>3 DEF KetInv, PathKnown
  <2>5. CASE stage = "decoded"
    <3>1. parts' = parts BY <1>3, <2>5, NextReads
    <3>2. PathFound(x, y) BY <2>2, <2>5, <3>1 DEF KetInv, PathKnown
    <3>3. /\ stage' \in {"answered", "panicked"} /\ PathFound(x, y)'
          /\ stage' = "answered" => /\ answer'[1].kind = "paths"
                                    /\ answer'[1].nodes = leftptrs' /\ answer'[1].ends = rightptrs'
      BY <1>3, <2>5, <3>2, PathSearched
    <3> QED BY <3>3 DEF KetInv, PathKnown
  <2> QED BY <1>3, <2>1, <2>3, <2>4, <2>5, NextReads
<1>4. ASSUME Next PROVE PathsInv'
  <2>1. \A x, y \in PathEnds : EndsParts(parts', x, y) => EndsInv(x, y)' BY <1>2, <1>4
  <2>2. \A x, y \in PathEnds : \A k \in DOMAIN DiracNotation :
            Ket(k, x, y) /\ KetParts(parts', k) => KetInv(k, x, y)'
    BY <1>3, <1>4
  <2> QED BY <2>1, <2>2 DEF PathsInv
<1> QED BY <1>1, <1>4

(* A command that gives both ends of a path, in any of the notations of    *)
(* FillInParameters, makes Search call the path search between the nodes   *)
(* of exactly these two words.                                             *)
THEOREM ExplicitPathsAreSolved == Spec => []ExplicitPathsSolved
<1>1. SearchesInv /\ PathsInv => ExplicitPathsSolved
  <2> SUFFICES ASSUME SearchesInv, PathsInv, stage = "answered",
                      NEW x \in PathEnds, NEW y \in PathEnds, EndsGiven(x, y)
               PROVE  /\ answer[1].kind = "paths"
                      /\ answer[1].nodes = SolveNodePtrs(<<x>>) /\ answer[1].ends = SolveNodePtrs(<<y>>)
    BY DEF ExplicitPathsSolved, PathEnds
  <2>1. parts \in Seq(Seq(Words)) /\ param \in SearchParameters BY DEF SearchesInv, SearchesTypeOK
  <2>2. \/ EndsParts(parts, x, y)
        \/ \E k \in DOMAIN DiracNotation : Ket(k, x, y) /\ KetParts(parts, k)
    BY <2>1, GivenIs
  <2>3. PathKnown(x, y) BY <2>2 DEF PathsInv, EndsInv, KetInv
  <2>4. /\ PathFound(x, y) /\ answer[1].kind = "paths"
        /\ answer[1].nodes = leftptrs /\ answer[1].ends = rightptrs
    BY <2>3 DEF PathKnown
  <2>5. ToSet(param.From) = ToSet(<<x>>) /\ ToSet(param.To) = ToSet(<<y>>)
    <3>1. ASSUME NEW q \in Seq(NameWords), NEW w \in Words, Holds(q, w), Only(q, w) PROVE ToSet(q) = ToSet(<<w>>)
      <4>1. ToSet(q) = {q[i] : i \in 1 .. Len(q)} BY DEF ToSet
      <4>2. ToSet(<<w>>) = {w} BY DEF ToSet
      <4>3. \A i \in 1 .. Len(q) : q[i] = w BY <3>1 DEF Only, Holds
      <4>4. \E i \in 1 .. Len(q) : q[i] = w BY <3>1 DEF Holds
      <4> QED BY <4>1, <4>2, <4>3, <4>4
    <3>2. x \in Words /\ y \in Words BY DEF PathEnds
    <3>3. param.From \in Seq(NameWords) /\ param.To \in Seq(NameWords) BY <2>1 DEF SearchParameters
    <3> QED BY <2>4, <3>1, <3>2, <3>3 DEF PathFound
  <2>6. leftptrs = SolveNodePtrs(<<x>>) /\ rightptrs = SolveNodePtrs(<<y>>)
    BY <2>5 DEF leftptrs, rightptrs, SolveNodePtrs
  <2> QED BY <2>4, <2>6
<1>2. SearchesInv /\ PathsInv /\ [Next]_vars => (SearchesInv /\ PathsInv)' BY SearchesInvNext, PathsInvNext
<1>3. Init => SearchesInv /\ PathsInv BY SearchesInvInit, PathsInvInit
<1> QED BY <1>1, <1>2, <1>3, PTL DEF Spec

-----------------------------------------------------------------------------
(* The short-term memory. *)

(* Tokens of a search, and what is remembered of them. *)
AllTokens == {Token[w] : w \in Vocabulary \ Skipped} \cup {ChapterToken[ch] : ch \in Chapters \ {NoChapter}}
Seen == [Freq : Nat, Last : Int, Delta : Int]
Frag == UNION {[D -> Seen] : D \in SUBSET AllTokens}
Memory == [int : Frag, amb : Frag]

LEMMA SaidTokens ==
    ASSUME NEW s \in Searches
    PROVE  Terms(s) \in Seq(AllTokens)
<1> DEFINE Tokens(ws) == FlattenSeq([i \in DOMAIN ws |-> IF ws[i] \in Skipped THEN <<>> ELSE <<Token[ws[i]]>>])
<1>1. ASSUME NEW ws \in Seq(Vocabulary) PROVE Tokens(ws) \in Seq(AllTokens)
  <2> DEFINE ss == [i \in DOMAIN ws |-> IF ws[i] \in Skipped THEN <<>> ELSE <<Token[ws[i]]>>]
  <2>1. PICK n \in Nat : n = Len(ws) /\ DOMAIN ws = 1 .. n /\ \A i \in 1 .. n : ws[i] \in Vocabulary OBVIOUS
  <2>2. ASSUME NEW i \in 1 .. n PROVE ss[i] \in Seq(AllTokens)
    <3>1. ss[i] = IF ws[i] \in Skipped THEN <<>> ELSE <<Token[ws[i]]>> BY <2>1
    <3>2. CASE ws[i] \in Skipped
      <4>1. <<>> \in Seq(AllTokens) OBVIOUS
      <4> QED BY <3>1, <3>2, <4>1
    <3>3. CASE ws[i] \notin Skipped
      <4>1. PICK x : x = Token[ws[i]] OBVIOUS
      <4>2. x \in AllTokens BY <2>1, <3>3, <4>1 DEF AllTokens
      <4>3. <<x>> \in Seq(AllTokens) BY <4>2
      <4> QED BY <3>1, <3>3, <4>1, <4>3
    <3> QED BY <3>2, <3>3
  <2>3. ss = [i \in 1 .. n |-> ss[i]] BY <2>1
  <2>4. Tokens(ws) = FlattenSeq(ss) OBVIOUS
  <2> HIDE DEF ss, Tokens
  <2>5. ss \in Seq(Seq(AllTokens)) BY <2>2, <2>3
  <2> QED BY <2>4, <2>5, FlattenElements
<1>2. /\ s.Name \in Seq(Vocabulary) /\ s.From \in Seq(Vocabulary) /\ s.To \in Seq(Vocabulary)
      /\ s.Context \in Seq(Vocabulary) /\ s.Chapter \in Chapters
  BY ShortTermAssumption
<1>3. s.Name \o s.From \o s.To \in Seq(Vocabulary) /\ s.Name \o s.Context \in Seq(Vocabulary) BY <1>2
<1>4. PICK ends, heard : /\ ends = Tokens(s.Name \o s.From \o s.To) /\ heard = Tokens(s.Name \o s.Context)
                         /\ ends \in Seq(AllTokens) /\ heard \in Seq(AllTokens)
  <2> HIDE DEF Tokens
  <2> QED BY <1>1, <1>3
<1>5. PICK tail : /\ tail = IF s.Chapter = NoChapter THEN <<>> ELSE <<ChapterToken[s.Chapter]>>
                  /\ tail \in Seq(AllTokens)
  <2>1. CASE s.Chapter = NoChapter
    <3>1. <<>> \in Seq(AllTokens) OBVIOUS
    <3> QED BY <2>1, <3>1
  <2>2. CASE s.Chapter # NoChapter
    <3>1. PICK x : x = ChapterToken[s.Chapter] OBVIOUS
    <3>2. x \in AllTokens BY <1>2, <2>2, <3>1 DEF AllTokens
    <3>3. <<x>> \in Seq(AllTokens) BY <3>2
    <3> QED BY <2>2, <3>1, <3>3
  <2> QED BY <2>1, <2>2
<1>6. Terms(s) = IF s.Sequence \/ s.From # <<>> \/ s.To # <<>> THEN ends ELSE heard \o tail
  <2>1. Terms(s) = IF s.Sequence \/ s.From # <<>> \/ s.To # <<>> THEN Tokens(s.Name \o s.From \o s.To)
                   ELSE Tokens(s.Name \o s.Context)
                        \o (IF s.Chapter = NoChapter THEN <<>> ELSE <<ChapterToken[s.Chapter]>>)
    BY Zenon DEF Terms
  <2> HIDE DEF Tokens
  <2> QED BY <1>4, <1>5, <2>1, Zenon
<1> HIDE DEF Tokens
<1>7. heard \o tail \in Seq(AllTokens)
  <2>1. heard \in Seq(AllTokens) /\ tail \in Seq(AllTokens) BY <1>4, <1>5
  <2> QED BY <2>1
<1> QED BY <1>4, <1>6, <1>7

LEMMA CommitIs ==
    ASSUME NEW m \in Memory, NEW token \in AllTokens, NEW t \in Int
    PROVE  CommitContextToken(m, token, t) \in Memory
<1>1. PICK D \in SUBSET AllTokens, E \in SUBSET AllTokens :
          m.int \in [D -> Seen] /\ m.amb \in [E -> Seen]
  BY DEF Memory, Frag
<1>2. DOMAIN m.int = D /\ DOMAIN m.amb = E BY <1>1
<1>3. ASSUME NEW A \in SUBSET AllTokens, NEW f \in [A -> Seen], NEW h \in Seen PROVE With(f, token, h) \in Frag
  <2>1. With(f, token, h) \in [A \cup {token} -> Seen] BY DEF With
  <2>2. A \cup {token} \in SUBSET AllTokens OBVIOUS
  <2> QED BY <2>1, <2>2 DEF Frag
<1>4. ASSUME NEW freq \in Nat, NEW last \in Int PROVE History(freq + 1, last, t) \in Seen BY DEF History, Seen
<1>5. \A h \in Seen : h.Freq \in Nat /\ h.Last \in Int BY DEF Seen
<1>6. CASE token \in DOMAIN m.amb
  <2>1. m.amb[token].Freq \in Nat /\ m.amb[token].Last \in Int BY <1>1, <1>2, <1>5, <1>6
  <2>2. CommitContextToken(m, token, t) =
            [m EXCEPT !.amb = With(m.amb, token, History(m.amb[token].Freq + 1, m.amb[token].Last, t))]
    BY <1>6 DEF CommitContextToken
  <2>3. With(m.amb, token, History(m.amb[token].Freq + 1, m.amb[token].Last, t)) \in Frag BY <1>1, <1>3, <1>4, <2>1
  <2> QED BY <2>2, <2>3 DEF Memory
<1>7. CASE token \notin DOMAIN m.amb /\ token \in DOMAIN m.int
  <2>1. m.int[token].Freq \in Nat /\ m.int[token].Last \in Int BY <1>1, <1>2, <1>5, <1>7
  <2>2. CommitContextToken(m, token, t) =
            [int |-> Without(m.int, token),
             amb |-> With(m.amb, token, History(m.int[token].Freq + 1, m.int[token].Last, t))]
    BY <1>7 DEF CommitContextToken
  <2>3. With(m.amb, token, History(m.int[token].Freq + 1, m.int[token].Last, t)) \in Frag BY <1>1, <1>3, <1>4, <2>1
  <2>4. Without(m.int, token) \in Frag
    <3>1. Without(m.int, token) \in [D \ {token} -> Seen] BY <1>1, <1>2 DEF Without, Restrict
    <3>2. D \ {token} \in SUBSET AllTokens OBVIOUS
    <3> QED BY <3>1, <3>2 DEF Frag
  <2> QED BY <2>2, <2>3, <2>4 DEF Memory
<1>8. CASE token \notin DOMAIN m.amb /\ token \notin DOMAIN m.int
  <2>1. CommitContextToken(m, token, t) = [m EXCEPT !.int = With(m.int, token, History(1, t, t))]
    BY <1>8 DEF CommitContextToken
  <2>2. With(m.int, token, History(1, t, t)) \in Frag
    <3>1. History(1, t, t) \in Seen BY DEF History, Seen
    <3> QED BY <1>1, <1>3, <3>1
  <2> QED BY <2>1, <2>2 DEF Memory
<1> QED BY <1>6, <1>7, <1>8

(* What a memory knows of a token. *)
KnownIn(m, t) == t \in DOMAIN m.int \/ t \in DOMAIN m.amb
FragmentIn(m, t) == IF t \in DOMAIN m.amb THEN m.amb[t] ELSE m.int[t]
NotBoth(m, t) == ~(t \in DOMAIN m.int /\ t \in DOMAIN m.amb)

LEMMA WithIs ==
    ASSUME NEW f, NEW x, NEW y
    PROVE  /\ DOMAIN With(f, x, y) = DOMAIN f \cup {x} /\ With(f, x, y)[x] = y
           /\ \A z \in DOMAIN f : z # x => With(f, x, y)[z] = f[z]
BY DEF With

LEMMA WithoutIs ==
    ASSUME NEW f, NEW x
    PROVE  /\ DOMAIN Without(f, x) = DOMAIN f \ {x}
           /\ \A z \in DOMAIN f : z # x => Without(f, x)[z] = f[z]
BY DEF Without, Restrict

(* A token that is known becomes ambient, another one intentional; the     *)
(* others stay what they are.                                              *)
LEMMA CommitDoes ==
    ASSUME NEW m \in Memory, NEW token \in AllTokens, NEW u \in Int, NotBoth(m, token),
           NEW m2, m2 = CommitContextToken(m, token, u)
    PROVE  /\ KnownIn(m2, token) /\ NotBoth(m2, token)
           /\ KnownIn(m, token) => FragmentIn(m2, token) =
                  History(FragmentIn(m, token).Freq + 1, FragmentIn(m, token).Last, u)
           /\ ~KnownIn(m, token) => FragmentIn(m2, token) = History(1, u, u)
           /\ \A t : t # token => /\ KnownIn(m2, t) <=> KnownIn(m, t)
                                  /\ NotBoth(m2, t) <=> NotBoth(m, t)
                                  /\ KnownIn(m, t) => FragmentIn(m2, t) = FragmentIn(m, t)
<1>1. CASE token \in DOMAIN m.amb
  <2>1. PICK f : f = With(m.amb, token, History(m.amb[token].Freq + 1, m.amb[token].Last, u)) OBVIOUS
  <2>2. m2 = [m EXCEPT !.amb = f] BY <1>1, <2>1 DEF CommitContextToken
  <2>3. m2.int = m.int /\ m2.amb = f BY <2>2 DEF Memory
  <2>4. /\ DOMAIN f = DOMAIN m.amb \cup {token}
        /\ f[token] = History(m.amb[token].Freq + 1, m.amb[token].Last, u)
        /\ \A z \in DOMAIN m.amb : z # token => f[z] = m.amb[z]
    BY <2>1 DEF With
  <2>7. KnownIn(m2, token) /\ NotBoth(m2, token) BY <1>1, <2>3, <2>4 DEF KnownIn, NotBoth
  <2>8. /\ KnownIn(m, token) => FragmentIn(m2, token) =
               History(FragmentIn(m, token).Freq + 1, FragmentIn(m, token).Last, u)
        /\ ~KnownIn(m, token) => FragmentIn(m2, token) = History(1, u, u)
    BY <1>1, <2>3, <2>4 DEF KnownIn, FragmentIn
  <2>9. ASSUME NEW t, t # token
        PROVE  /\ KnownIn(m2, t) <=> KnownIn(m, t)
               /\ NotBoth(m2, t) <=> NotBoth(m, t)
               /\ KnownIn(m, t) => FragmentIn(m2, t) = FragmentIn(m, t)
    <3>1. (t \in DOMAIN m2.int <=> t \in DOMAIN m.int) /\ (t \in DOMAIN m2.amb <=> t \in DOMAIN m.amb)
      BY <1>1, <2>3, <2>4, <2>9
    <3>2. /\ t \in DOMAIN m.int => m2.int[t] = m.int[t]
          /\ t \in DOMAIN m.amb => m2.amb[t] = m.amb[t]
      BY <1>1, <2>3, <2>4, <2>9
    <3> QED BY <3>1, <3>2, Zenon DEF KnownIn, FragmentIn, NotBoth
  <2>10. \A t : t # token => /\ KnownIn(m2, t) <=> KnownIn(m, t)
                             /\ NotBoth(m2, t) <=> NotBoth(m, t)
                             /\ KnownIn(m, t) => FragmentIn(m2, t) = FragmentIn(m, t)
    BY <2>9, Zenon
  <2> QED BY <2>7, <2>8, <2>10, Zenon
<1>2. CASE token \notin DOMAIN m.amb /\ token \in DOMAIN m.int
  <2>1. PICK f, g : /\ f = With(m.amb, token, History(m.int[token].Freq + 1, m.int[token].Last, u))
                    /\ g = Without(m.int, token)
    OBVIOUS
  <2>2. m2 = [int |-> g, amb |-> f] BY <1>2, <2>1 DEF CommitContextToken
  <2>3. m2.int = g /\ m2.amb = f BY <2>2
  <2>4. /\ DOMAIN f = DOMAIN m.amb \cup {token}
        /\ f[token] = History(m.int[token].Freq + 1, m.int[token].Last, u)
        /\ \A z \in DOMAIN m.amb : z # token => f[z] = m.amb[z]
    BY <2>1 DEF With
  <2>5. /\ DOMAIN g = DOMAIN m.int \ {token}
        /\ \A z \in DOMAIN m.int : z # token => g[z] = m.int[z]
    BY <2>1, WithoutIs
  <2>7. KnownIn(m2, token) /\ NotBoth(m2, token) BY <1>2, <2>3, <2>4, <2>5 DEF KnownIn, NotBoth
  <2>8. /\ KnownIn(m, token) => FragmentIn(m2, token) =
               History(FragmentIn(m, token).Freq + 1, FragmentIn(m, token).Last, u)
        /\ ~KnownIn(m, token) => FragmentIn(m2, token) = History(1, u, u)
    BY <1>2, <2>3, <2>4, <2>5 DEF KnownIn, FragmentIn
  <2>9. ASSUME NEW t, t # token
        PROVE  /\ KnownIn(m2, t) <=> KnownIn(m, t)
               /\ NotBoth(m2, t) <=> NotBoth(m, t)
               /\ KnownIn(m, t) => FragmentIn(m2, t) = FragmentIn(m, t)
    <3>1. (t \in DOMAIN m2.int <=> t \in DOMAIN m.int) /\ (t \in DOMAIN m2.amb <=> t \in DOMAIN m.amb)
      BY <1>2, <2>3, <2>4, <2>5, <2>9
    <3>2. /\ t \in DOMAIN m.int => m2.int[t] = m.int[t]
          /\ t \in DOMAIN m.amb => m2.amb[t] = m.amb[t]
      BY <1>2, <2>3, <2>4, <2>5, <2>9
    <3> QED BY <3>1, <3>2, Zenon DEF KnownIn, FragmentIn, NotBoth
  <2>10. \A t : t # token => /\ KnownIn(m2, t) <=> KnownIn(m, t)
                             /\ NotBoth(m2, t) <=> NotBoth(m, t)
                             /\ KnownIn(m, t) => FragmentIn(m2, t) = FragmentIn(m, t)
    BY <2>9, Zenon
  <2> QED BY <2>7, <2>8, <2>10, Zenon
<1>3. CASE token \notin DOMAIN m.amb /\ token \notin DOMAIN m.int
  <2>1. PICK f : f = With(m.int, token, History(1, u, u)) OBVIOUS
  <2>2. m2 = [m EXCEPT !.int = f] BY <1>3, <2>1 DEF CommitContextToken
  <2>3. m2.int = f /\ m2.amb = m.amb BY <2>2 DEF Memory
  <2>4. /\ DOMAIN f = DOMAIN m.int \cup {token} /\ f[token] = History(1, u, u)
        /\ \A z \in DOMAIN m.int : z # token => f[z] = m.int[z]
    BY <2>1 DEF With
  <2>7. KnownIn(m2, token) /\ NotBoth(m2, token) BY <1>3, <2>3, <2>4 DEF KnownIn, NotBoth
  <2>8. /\ KnownIn(m, token) => FragmentIn(m2, token) =
               History(FragmentIn(m, token).Freq + 1, FragmentIn(m, token).Last, u)
        /\ ~KnownIn(m, token) => FragmentIn(m2, token) = History(1, u, u)
    BY <1>3, <2>3, <2>4 DEF KnownIn, FragmentIn
  <2>9. ASSUME NEW t, t # token
        PROVE  /\ KnownIn(m2, t) <=> KnownIn(m, t)
               /\ NotBoth(m2, t) <=> NotBoth(m, t)
               /\ KnownIn(m, t) => FragmentIn(m2, t) = FragmentIn(m, t)
    <3>1. (t \in DOMAIN m2.int <=> t \in DOMAIN m.int) /\ (t \in DOMAIN m2.amb <=> t \in DOMAIN m.amb)
      BY <1>3, <2>3, <2>4, <2>9
    <3>2. /\ t \in DOMAIN m.int => m2.int[t] = m.int[t]
          /\ t \in DOMAIN m.amb => m2.amb[t] = m.amb[t]
      BY <1>3, <2>3, <2>4, <2>9
    <3> QED BY <3>1, <3>2, Zenon DEF KnownIn, FragmentIn, NotBoth
  <2>10. \A t : t # token => /\ KnownIn(m2, t) <=> KnownIn(m, t)
                             /\ NotBoth(m2, t) <=> NotBoth(m, t)
                             /\ KnownIn(m, t) => FragmentIn(m2, t) = FragmentIn(m, t)
    BY <2>9, Zenon
  <2> QED BY <2>7, <2>8, <2>10, Zenon
<1> QED BY <1>1, <1>2, <1>3

(* What m knows of t when t was said n times, the first of them after m0. *)
Counted(m0, m, t, n, u) ==
    /\ NotBoth(m, t)
    /\ KnownIn(m, t) <=> KnownIn(m0, t) \/ n > 0
    /\ n = 0 /\ KnownIn(m0, t) => FragmentIn(m, t) = FragmentIn(m0, t)
    /\ n > 0 => /\ FragmentIn(m, t).Freq = n + (IF KnownIn(m0, t) THEN FragmentIn(m0, t).Freq ELSE 0)
                /\ FragmentIn(m, t).Last = u
                /\ FragmentIn(m, t).Delta =
                       IF KnownIn(m0, t) /\ n = 1 THEN u - FragmentIn(m0, t).Last ELSE 0

LEMMA FragmentSeen ==
    ASSUME NEW m \in Memory, NEW t, KnownIn(m, t)
    PROVE  FragmentIn(m, t) \in Seen /\ t \in AllTokens
<1>1. PICK D \in SUBSET AllTokens, E \in SUBSET AllTokens :
          m.int \in [D -> Seen] /\ m.amb \in [E -> Seen]
  BY DEF Memory, Frag
<1>2. DOMAIN m.int = D /\ DOMAIN m.amb = E BY <1>1
<1> QED BY <1>1, <1>2 DEF KnownIn, FragmentIn

LEMMA CommitCounts ==
    ASSUME NEW m0 \in Memory, NEW m \in Memory, NEW token \in AllTokens, NEW u \in Int,
           NEW t, NEW n \in Nat, Counted(m0, m, t, n, u), NotBoth(m, token)
    PROVE  Counted(m0, CommitContextToken(m, token, u), t, IF token = t THEN n + 1 ELSE n, u)
<1>1. PICK m2 : m2 = CommitContextToken(m, token, u) OBVIOUS
<1>2. /\ KnownIn(m2, token) /\ NotBoth(m2, token)
      /\ KnownIn(m, token) => FragmentIn(m2, token) =
             History(FragmentIn(m, token).Freq + 1, FragmentIn(m, token).Last, u)
      /\ ~KnownIn(m, token) => FragmentIn(m2, token) = History(1, u, u)
      /\ \A x : x # token => /\ KnownIn(m2, x) <=> KnownIn(m, x)
                             /\ NotBoth(m2, x) <=> NotBoth(m, x)
                             /\ KnownIn(m, x) => FragmentIn(m2, x) = FragmentIn(m, x)
  BY <1>1, CommitDoes
<1>3. CASE token # t
  <2>1. Counted(m0, m2, t, n, u) BY <1>2, <1>3 DEF Counted
  <2> QED BY <1>1, <1>3, <2>1
<1>4. CASE token = t
  <2>1. Counted(m0, m2, t, n + 1, u)
    <3>1. CASE ~KnownIn(m, t)
      <4>1. n = 0 /\ ~KnownIn(m0, t) BY <3>1 DEF Counted
      <4>2. FragmentIn(m2, t) = [Freq |-> 1, Last |-> u, Delta |-> u - u] BY <1>2, <1>4, <3>1 DEF History
      <4> QED BY <1>2, <1>4, <4>1, <4>2 DEF Counted
    <3>2. CASE KnownIn(m, t)
      <4>1. FragmentIn(m2, t) = [Freq |-> FragmentIn(m, t).Freq + 1, Last |-> u,
                                 Delta |-> u - FragmentIn(m, t).Last]
        BY <1>2, <1>4, <3>2 DEF History
      <4>2. FragmentIn(m, t).Freq \in Nat /\ FragmentIn(m, t).Last \in Int BY <3>2, FragmentSeen DEF Seen
      <4>3. CASE n = 0
        <5>1. KnownIn(m0, t) /\ FragmentIn(m, t) = FragmentIn(m0, t) BY <3>2, <4>3 DEF Counted
        <5> QED BY <1>2, <1>4, <4>1, <4>2, <4>3, <5>1 DEF Counted
      <4>4. CASE n # 0
        <5>1. /\ FragmentIn(m, t).Freq = n + (IF KnownIn(m0, t) THEN FragmentIn(m0, t).Freq ELSE 0)
              /\ FragmentIn(m, t).Last = u
          BY <4>4 DEF Counted
        <5>2. KnownIn(m0, t) => FragmentIn(m0, t).Freq \in Nat BY FragmentSeen DEF Seen
        <5>3. n + 1 # 0 /\ n + 1 # 1 /\ n + 1 > 0 BY <4>4
        <5> QED BY <1>2, <1>4, <4>1, <4>2, <5>1, <5>2, <5>3 DEF Counted
      <4> QED BY <4>3, <4>4
    <3> QED BY <3>1, <3>2
  <2> QED BY <1>1, <1>4, <2>1
<1> QED BY <1>3, <1>4

(* The fold of a call as a run over its tokens. *)
LEMMA CommitRun ==
    ASSUME NEW m0 \in Memory, NEW tokens \in Seq(AllTokens), NEW u \in Int
    PROVE  \E r \in [0 .. Len(tokens) -> Memory] :
               /\ r[0] = m0
               /\ \A k \in 1 .. Len(tokens) : r[k] = CommitContextToken(r[k - 1], tokens[k], u)
               /\ r[Len(tokens)] = CommitAll(m0, tokens, u)
<1> DEFINE n == Len(tokens)
           X == Memory
           F == [x \in X \X (1 .. n) |-> CommitContextToken(x[1], tokens[x[2]], u)]
           Def(g) == g = [s \in SUBSET DOMAIN tokens |->
                            IF s = {} THEN m0
                            ELSE LET x == Max(s) IN CommitContextToken(g[s \ {x}], tokens[x], u)]
           iter == CHOOSE g : Def(g)
           r == [k \in 0 .. n |-> iter[1 .. k]]
<1>1. CommitAll(m0, tokens, u) = iter[DOMAIN tokens]
  BY Zenon DEF CommitAll, FoldLeft, MapThenFoldSet
<1>2. DOMAIN tokens = 1 .. n /\ n \in Nat /\ \A k \in 1 .. n : tokens[k] \in AllTokens OBVIOUS
<1>3. m0 \in X /\ F \in [X \X (1 .. n) -> X]
  <2>1. \A m \in X, k \in 1 .. n : CommitContextToken(m, tokens[k], u) \in X BY <1>2, CommitIs
  <2> HIDE DEF n
  <2>2. m0 \in X OBVIOUS
  <2> HIDE DEF X
  <2> QED BY <2>1, <2>2
<1> HIDE DEF n
<1>4. \A m \in X, k \in 1 .. n : F[m, k] = CommitContextToken(m, tokens[k], u) OBVIOUS
<1> HIDE DEF F, X
<1>5. PICK g \in [SUBSET (1 .. n) -> X] : IsFold(g, m0, n, F) BY <1>2, <1>3, FoldExists
<1>6. Def(g)
  <2>1. ASSUME NEW s \in SUBSET (1 .. n), s # {}
        PROVE  g[s] = CommitContextToken(g[s \ {Max(s)}], tokens[Max(s)], u)
    <3>1. g[s] = F[g[s \ {Max(s)}], Max(s)] BY <1>5, <2>1 DEF IsFold
    <3>2. s \ {Max(s)} \in SUBSET (1 .. n) /\ Max(s) \in 1 .. n BY <1>2, <2>1, GreatestExists
    <3>3. g[s \ {Max(s)}] \in X BY <1>5, <3>2
    <3> QED BY <1>4, <3>1, <3>2, <3>3
  <2>2. {} \in SUBSET (1 .. n) /\ g[{}] = m0 BY <1>5 DEF IsFold
  <2> QED BY <1>2, <1>5, <2>1, <2>2
<1>7. Def(iter)
  <2> HIDE DEF Def
  <2> QED BY <1>6
<1>8. \A s \in SUBSET (1 .. n) : iter[s] = IF s = {} THEN m0
                                               ELSE CommitContextToken(iter[s \ {Max(s)}], tokens[Max(s)], u)
  <2> HIDE DEF iter
  <2> QED BY <1>2, <1>7
<1> HIDE DEF iter, Def
<1>9. r[0] = m0 /\ r[n] = iter[1 .. n]
  <2>1. 1 .. 0 = {} /\ {} \in SUBSET (1 .. n) OBVIOUS
  <2>2. iter[{}] = m0 BY <1>8, <2>1
  <2>3. 0 \in 0 .. n /\ n \in 0 .. n BY <1>2
  <2> QED BY <2>1, <2>2, <2>3
<1>10. ASSUME NEW k \in 1 .. n PROVE r[k] = CommitContextToken(r[k - 1], tokens[k], u)
  <2>1. 1 .. k \in SUBSET (1 .. n) /\ 1 .. k # {} /\ Max(1 .. k) = k
          /\ (1 .. k) \ {k} = 1 .. (k - 1)
    BY <1>2, Intervals
  <2>2. iter[1 .. k] = CommitContextToken(iter[1 .. (k - 1)], tokens[k], u) BY <1>8, <2>1
  <2>3. k \in 0 .. n /\ k - 1 \in 0 .. n BY <1>2
  <2> QED BY <2>2, <2>3
<1>11. r \in [0 .. n -> X]
  <2>1. \A k \in 1 .. n : r[k - 1] \in X => r[k] \in X
    <3>1. ASSUME NEW k \in 1 .. n, r[k - 1] \in X PROVE r[k] \in X
      <4> HIDE DEF r
      <4>1. PICK m \in Memory : m = r[k - 1] BY <3>1 DEF X
      <4>2. r[k] = CommitContextToken(m, tokens[k], u) BY <1>10, <4>1
      <4>3. tokens[k] \in AllTokens BY <1>2
      <4> QED BY <4>2, <4>3, CommitIs DEF X
    <3> QED BY <3>1
  <2>2. r[0] \in X BY <1>3, <1>9
  <2>3. DOMAIN r = 0 .. n /\ r = [k \in 0 .. n |-> r[k]] OBVIOUS
  <2> HIDE DEF r
  <2> DEFINE S == {k \in 0 .. n : r[k] \in X}
  <2>4. 0 \in S /\ S \in SUBSET (0 .. n) BY <1>2, <2>2
  <2>5. \A k \in 1 .. n : k - 1 \in S => k \in S BY <1>2, <2>1
  <2>6. S = 0 .. n
    <3> HIDE DEF S
    <3> QED BY <1>2, <2>4, <2>5, InductionOnSteps
  <2>7. \A k \in 0 .. n : r[k] \in X BY <2>6
  <2> QED BY <2>3, <2>7
<1> HIDE DEF r
<1>12. r[n] = CommitAll(m0, tokens, u) BY <1>1, <1>2, <1>9
<1>13. /\ r[0] = m0 /\ \A k \in 1 .. n : r[k] = CommitContextToken(r[k - 1], tokens[k], u)
  BY <1>9, <1>10
<1> QED BY <1>11, <1>12, <1>13 DEF n, X

(* How often t is among the first k tokens. *)
Times(tokens, k, t) == Cardinality({i \in 1 .. k : tokens[i] = t})

LEMMA TimesNext ==
    ASSUME NEW tokens \in Seq(AllTokens), NEW k \in 1 .. Len(tokens), NEW t
    PROVE  /\ Times(tokens, k - 1, t) \in Nat /\ Times(tokens, k, t) \in Nat
           /\ Times(tokens, k, t) = IF tokens[k] = t THEN Times(tokens, k - 1, t) + 1
                                    ELSE Times(tokens, k - 1, t)
<1> DEFINE S == {i \in 1 .. (k - 1) : tokens[i] = t}
           T == {i \in 1 .. k : tokens[i] = t}
<1>1. k \in Nat /\ k - 1 \in Nat OBVIOUS
<1>2. IsFiniteSet(1 .. (k - 1)) /\ IsFiniteSet(1 .. k) BY <1>1, FS_Interval
<1>3. IsFiniteSet(S) /\ IsFiniteSet(T)
  <2>1. S \subseteq 1 .. (k - 1) /\ T \subseteq 1 .. k OBVIOUS
  <2> HIDE DEF S, T
  <2> QED BY <1>2, <2>1, FS_Subset
<1>4. IF tokens[k] = t THEN T = S \cup {k} ELSE T = S BY <1>1
<1>5. k \notin S BY <1>1
<1>6. Times(tokens, k - 1, t) = Cardinality(S) /\ Times(tokens, k, t) = Cardinality(T) BY DEF Times
<1> HIDE DEF S, T
<1>7. Cardinality(S) \in Nat /\ Cardinality(T) \in Nat BY <1>3, FS_CardinalityType
<1>8. Cardinality(S \cup {k}) = Cardinality(S) + 1 BY <1>3, <1>5, FS_AddElement
<1> QED BY <1>4, <1>6, <1>7, <1>8

LEMMA CommitAllCounts ==
    ASSUME NEW m0 \in Memory, NEW tokens \in Seq(AllTokens), NEW u \in Int,
           \A t : NotBoth(m0, t)
    PROVE  /\ CommitAll(m0, tokens, u) \in Memory
           /\ \A t : Counted(m0, CommitAll(m0, tokens, u), t, Times(tokens, Len(tokens), t), u)
<1>1. PICK n \in Nat : n = Len(tokens) /\ \A k \in 1 .. n : tokens[k] \in AllTokens OBVIOUS
<1>2. PICK r \in [0 .. n -> Memory] :
          /\ r[0] = m0
          /\ \A k \in 1 .. n : r[k] = CommitContextToken(r[k - 1], tokens[k], u)
          /\ r[n] = CommitAll(m0, tokens, u)
  BY <1>1, CommitRun
<1> DEFINE S == {k \in 0 .. n : \A t : Counted(m0, r[k], t, Times(tokens, k, t), u)}
<1>3. 0 \in S
  <2>1. ASSUME NEW t PROVE Counted(m0, m0, t, Times(tokens, 0, t), u)
    <3>1. {i \in 1 .. 0 : tokens[i] = t} = {} OBVIOUS
    <3>2. Times(tokens, 0, t) = 0 BY <3>1, FS_EmptySet DEF Times
    <3> QED BY <3>2 DEF Counted
  <2>2. 0 \in 0 .. n OBVIOUS
  <2> QED BY <1>2, <2>1, <2>2
<1>4. ASSUME NEW k \in 1 .. n, k - 1 \in S PROVE k \in S
  <2>1. k \in 0 .. n /\ k - 1 \in 0 .. n OBVIOUS
  <2>2. PICK m \in Memory : m = r[k - 1] BY <1>2, <2>1
  <2>3. \A t : Counted(m0, m, t, Times(tokens, k - 1, t), u) BY <1>4, <2>2
  <2>4. PICK token \in AllTokens : token = tokens[k] BY <1>1
  <2>5. r[k] = CommitContextToken(m, token, u) BY <1>2, <2>2, <2>4
  <2>6. NotBoth(m, token) BY <2>3 DEF Counted
  <2>7. ASSUME NEW t PROVE Counted(m0, r[k], t, Times(tokens, k, t), u)
    <3>1. PICK j \in Nat : j = Times(tokens, k - 1, t) BY <1>1, TimesNext
    <3>2. Times(tokens, k, t) = IF token = t THEN j + 1 ELSE j BY <1>1, <2>4, <3>1, TimesNext
    <3>3. Counted(m0, m, t, j, u) BY <2>3, <3>1
    <3>4. Counted(m0, CommitContextToken(m, token, u), t, IF token = t THEN j + 1 ELSE j, u)
      BY <2>6, <3>3, CommitCounts
    <3> QED BY <2>5, <3>2, <3>4
  <2> QED BY <2>1, <2>7
<1>5. S \in SUBSET (0 .. n) OBVIOUS
<1>6. n \in S
  <2> HIDE DEF S
  <2> QED BY <1>3, <1>4, <1>5, InductionOnSteps
<1>7. \A t : Counted(m0, r[n], t, Times(tokens, n, t), u) BY <1>6
<1>8. n \in 0 .. n OBVIOUS
<1> QED BY <1>1, <1>2, <1>7, <1>8

STMTypeOK == /\ STM_INT_FRAG \in Frag /\ STM_AMB_FRAG \in Frag /\ now \in Nat /\ calls \in Nat
             /\ said \in Seq(AllTokens)
STMApart == DOMAIN STM_INT_FRAG \cap DOMAIN STM_AMB_FRAG = {}
Lasting(frag) == \A t \in DOMAIN frag : frag[t].Delta <= FORGOTTEN
STMInv == STMTypeOK /\ STMApart /\ Lasting(STM_INT_FRAG) /\ Lasting(STM_AMB_FRAG)

LEMMA RememberedIs ==
    ASSUME NEW frag \in Frag
    PROVE  /\ Remembered(frag) \in Frag /\ Lasting(Remembered(frag))
           /\ \A t : t \in DOMAIN Remembered(frag) <=> t \in DOMAIN frag /\ frag[t].Delta <= FORGOTTEN
           /\ \A t \in DOMAIN Remembered(frag) : Remembered(frag)[t] = frag[t]
<1> DEFINE E == {t \in DOMAIN frag : frag[t].Delta <= FORGOTTEN}
<1>1. PICK D \in SUBSET AllTokens : frag \in [D -> Seen] BY DEF Frag
<1>2. Remembered(frag) = [t \in E |-> frag[t]] BY DEF Remembered, Restrict
<1>3. E \in SUBSET AllTokens /\ \A t \in E : frag[t] \in Seen BY <1>1
<1>4. [t \in E |-> frag[t]] \in Frag
  <2> HIDE DEF E
  <2>1. [t \in E |-> frag[t]] \in [E -> Seen] BY <1>3
  <2> QED BY <1>3, <2>1 DEF Frag
<1> QED BY <1>2, <1>4 DEF Lasting

(* What a call leaves, of what it found. *)
LEMMA CallDoes ==
    ASSUME STMInv, NEW s \in Searches, UpdateSTMContext(s)
    PROVE  LET m0 == [int |-> STM_INT_FRAG, amb |-> STM_AMB_FRAG]
               m == CommitAll(m0, said', now')
           IN  /\ m0 \in Memory /\ m \in Memory /\ now' \in Nat /\ said' \in Seq(AllTokens) /\ calls' \in Nat
               /\ STM_INT_FRAG' = Remembered(m.int) /\ STM_AMB_FRAG' = Remembered(m.amb)
               /\ \A t : NotBoth(m0, t)
               /\ \A t : Counted(m0, m, t, Times(said', Len(said'), t), now')
<1> DEFINE m0 == [int |-> STM_INT_FRAG, amb |-> STM_AMB_FRAG]
           m == CommitAll(m0, said', now')
<1>1. m0 \in Memory /\ \A t : NotBoth(m0, t) BY DEF STMInv, STMTypeOK, STMApart, Memory, NotBoth
<1>2. now' \in Nat /\ calls' \in Nat BY ShortTermAssumption DEF UpdateSTMContext, STMInv, STMTypeOK
<1>3. said' \in Seq(AllTokens) BY SaidTokens DEF UpdateSTMContext
<1>4. STM_INT_FRAG' = Remembered(m.int) /\ STM_AMB_FRAG' = Remembered(m.amb) BY DEF UpdateSTMContext
<1>5. m \in Memory /\ \A t : Counted(m0, m, t, Times(said', Len(said'), t), now')
  <2> HIDE DEF m0
  <2> QED BY <1>1, <1>2, <1>3, CommitAllCounts
<1> HIDE DEF m
<1> QED BY <1>1, <1>2, <1>3, <1>4, <1>5 DEF m

LEMMA STMInvInit == STMInit => STMInv
<1>1. Nothing \in Frag
  <2>1. Nothing \in [{} -> Seen] /\ {} \in SUBSET AllTokens BY DEF Nothing
  <2> QED BY <2>1 DEF Frag
<1>2. DOMAIN Nothing = {} BY DEF Nothing
<1>3. <<>> \in Seq(AllTokens) OBVIOUS
<1> QED BY <1>1, <1>2, <1>3 DEF STMInit, STMInv, STMTypeOK, STMApart, Lasting

LEMMA STMInvNext == STMInv /\ [STMNext]_stmVars => STMInv'
<1>1. ASSUME STMInv, UNCHANGED stmVars PROVE STMInv'
  BY <1>1 DEF stmVars, STMInv, STMTypeOK, STMApart, Lasting
<1>2. ASSUME STMInv, NEW s \in Searches, UpdateSTMContext(s) PROVE STMInv'
  <2>1. PICK m \in Memory : /\ STM_INT_FRAG' = Remembered(m.int) /\ STM_AMB_FRAG' = Remembered(m.amb)
                            /\ \A t : NotBoth(m, t)
    BY <1>2, CallDoes DEF Counted
  <2>2. m.int \in Frag /\ m.amb \in Frag BY DEF Memory
  <2>3. /\ STM_INT_FRAG' \in Frag /\ STM_AMB_FRAG' \in Frag
        /\ Lasting(STM_INT_FRAG') /\ Lasting(STM_AMB_FRAG')
    BY <2>1, <2>2, RememberedIs
  <2>4. STMApart' BY <2>1, <2>2, RememberedIs DEF STMApart, NotBoth
  <2>5. now' \in Nat /\ said' \in Seq(AllTokens) /\ calls' \in Nat BY <1>2, CallDoes
  <2> QED BY <2>3, <2>4, <2>5 DEF STMInv, STMTypeOK, Lasting
<1> QED BY <1>1, <1>2 DEF STMNext

(* In every sequence of searches, a token is an intentional fragment or an *)
(* ambient one and never both, and between the last two times a fragment   *)
(* was said no more than FORGOTTEN has passed (CommitContextToken moves    *)
(* it, AddContext drops it).                                               *)
THEOREM STMInvAlways == STMSpec => []STMInv
BY STMInvInit, STMInvNext, PTL DEF STMSpec

LEMMA CallForgets ==
    ASSUME STMInv, NEW s \in Searches, UpdateSTMContext(s), NEW t \in Known \cup ToSet(said')
    PROVE  LET n == Occurrences(t)'
               returns == t \in Known /\ n = 1 /\ now' - Fragment(t).Last > FORGOTTEN
           IN  /\ t \in Known' <=> ~returns
               /\ ~returns => Freq(t)' = Freq(t) + n
<1>1. PICK m0, m : /\ m0 = [int |-> STM_INT_FRAG, amb |-> STM_AMB_FRAG] /\ m0 \in Memory /\ m \in Memory
                   /\ STM_INT_FRAG' = Remembered(m.int) /\ STM_AMB_FRAG' = Remembered(m.amb)
                   /\ \A x : NotBoth(m0, x)
                   /\ \A x : Counted(m0, m, x, Times(said', Len(said'), x), now')
  BY CallDoes
<1>2. now' \in Nat /\ said' \in Seq(AllTokens) BY CallDoes
<1>3. PICK n : n = Times(said', Len(said'), t) OBVIOUS
<1>4. Occurrences(t)' = n
  <2>1. DOMAIN said' = 1 .. Len(said') BY <1>2
  <2> QED BY <1>3, <2>1 DEF Occurrences, Times
<1>5. n \in Nat /\ (n > 0 <=> t \in ToSet(said'))
  <2> DEFINE T == {i \in 1 .. Len(said') : said'[i] = t}
  <2>1. Len(said') \in Nat /\ DOMAIN said' = 1 .. Len(said') BY <1>2
  <2>2. IsFiniteSet(T)
    <3>1. IsFiniteSet(1 .. Len(said')) BY <2>1, FS_Interval
    <3>2. T \subseteq 1 .. Len(said') OBVIOUS
    <3> HIDE DEF T
    <3> QED BY <3>1, <3>2, FS_Subset
  <2>3. n = Cardinality(T) BY <1>3 DEF Times
  <2>4. T = {} <=> t \notin ToSet(said') BY <2>1 DEF ToSet
  <2> HIDE DEF T
  <2>5. Cardinality(T) \in Nat /\ (Cardinality(T) = 0 <=> T = {}) BY <2>2, FS_CardinalityType, FS_EmptySet
  <2> QED BY <2>3, <2>4, <2>5
<1>6. /\ t \in Known <=> KnownIn(m0, t)
      /\ KnownIn(m0, t) => Fragment(t) = FragmentIn(m0, t)
      /\ t \in Known => /\ Fragment(t) \in Seen /\ Fragment(t).Delta <= FORGOTTEN
  <2>1. t \in Known <=> KnownIn(m0, t) BY <1>1 DEF Known, KnownIn
  <2>2. Fragment(t) = FragmentIn(m0, t) BY <1>1 DEF Fragment, FragmentIn
  <2>3. t \in Known => Fragment(t) \in Seen BY <1>1, <2>1, <2>2, FragmentSeen
  <2>4. t \in Known => Fragment(t).Delta <= FORGOTTEN BY DEF Known, Fragment, STMInv, Lasting
  <2> QED BY <2>1, <2>2, <2>3, <2>4
<1>7. m.int \in Frag /\ m.amb \in Frag BY <1>1 DEF Memory
<1>8. /\ t \in Known' <=> KnownIn(m, t) /\ FragmentIn(m, t).Delta <= FORGOTTEN
      /\ t \in Known' => Fragment(t)' = FragmentIn(m, t)
  <2>1. /\ t \in DOMAIN STM_INT_FRAG' <=> t \in DOMAIN m.int /\ m.int[t].Delta <= FORGOTTEN
        /\ t \in DOMAIN STM_INT_FRAG' => STM_INT_FRAG'[t] = m.int[t]
    BY <1>1, <1>7, RememberedIs
  <2>2. /\ t \in DOMAIN STM_AMB_FRAG' <=> t \in DOMAIN m.amb /\ m.amb[t].Delta <= FORGOTTEN
        /\ t \in DOMAIN STM_AMB_FRAG' => STM_AMB_FRAG'[t] = m.amb[t]
    BY <1>1, <1>7, RememberedIs
  <2>3. NotBoth(m, t) BY <1>1 DEF Counted
  <2> QED BY <2>1, <2>2, <2>3 DEF Known, Fragment, KnownIn, FragmentIn, NotBoth
<1>9. Counted(m0, m, t, n, now') BY <1>1, <1>3
<1>10. KnownIn(m, t) BY <1>5, <1>6, <1>9 DEF Counted
<1>11. CASE t \in Known /\ n = 1
  <2>1. /\ FragmentIn(m, t).Freq = 1 + Fragment(t).Freq
        /\ FragmentIn(m, t).Delta = now' - Fragment(t).Last
    BY <1>6, <1>9, <1>11 DEF Counted
  <2>2. t \in Known' <=> ~(now' - Fragment(t).Last > FORGOTTEN)
    BY <1>2, <1>6, <1>8, <1>10, <1>11, <2>1, ShortTermAssumption DEF Seen
  <2>3. t \in Known' => Freq(t)' = Freq(t) + 1 BY <1>6, <1>8, <1>11, <2>1 DEF Freq, Seen
  <2> QED BY <1>4, <1>11, <2>2, <2>3
<1>12. CASE ~(t \in Known /\ n = 1)
  <2>1. t \in Known'
    BY <1>5, <1>6, <1>8, <1>9, <1>10, <1>12, ShortTermAssumption DEF Counted, Seen
  <2>2. Freq(t)' = Fragment(t)'.Freq BY <2>1 DEF Freq
  <2>3. Freq(t)' = Freq(t) + n
    BY <1>5, <1>6, <1>8, <1>9, <2>1, <2>2 DEF Counted, Seen, Freq
  <2> QED BY <1>4, <1>12, <2>1, <2>3
<1> QED BY <1>11, <1>12

(* UpdateSTMContext forgets a fragment exactly when it is said again,      *)
(* once, more than FORGOTTEN after the last time; every other fragment     *)
(* stays and counts how often it is said.                                  *)
THEOREM ForgottenOnReturnHolds == STMSpec => ForgottenOnReturn
<1> DEFINE Forgets == \A t \in Known \cup ToSet(said') :
                 LET n == Occurrences(t)'
                     returns == t \in Known /\ n = 1 /\ now' - Fragment(t).Last > FORGOTTEN
                 IN  /\ t \in Known' <=> ~returns
                     /\ ~returns => Freq(t)' = Freq(t) + n
<1>1. STMInv /\ [STMNext]_stmVars => [Forgets]_stmVars
  <2>1. STMInv /\ STMNext => Forgets BY CallForgets DEF STMNext
  <2> QED BY <2>1
<1>2. ForgottenOnReturn <=> [][Forgets]_stmVars BY DEF ForgottenOnReturn
<1> HIDE DEF Forgets
<1> QED BY <1>1, <1>2, STMInvAlways, PTL DEF STMSpec

=============================================================================
