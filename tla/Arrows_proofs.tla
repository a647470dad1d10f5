--------------------------- MODULE Arrows_proofs ----------------------------
(***************************************************************************)
(* The arrow directory for any names, any configuration lines, any number  *)
(* of files and any mandatory pairs.  The directory and its two name maps  *)
(* tell the same, because a new arrow shares no name with an older one;    *)
(* so a pair of names that a line puts down is settled for good, and the   *)
(* inverses are those of the lines.  What the reader remembers of a line   *)
(* (LineInv, RuleInv) is what the line has said up to its token.           *)
(***************************************************************************)
EXTENDS Arrows, FiniteSetTheorems, TLAPS

AllNames == Names \cup SectionNames \cup {NoName}
ArrowEntry == [STAindex : Int, long : AllNames, short : AllNames]

(* The types of what the reader puts into the directory. *)
ReaderOK ==
    /\ arrows.dir \in Seq(ArrowEntry)
    /\ FWD_ARROW \in AllNames /\ BWD_ARROW \in AllNames
    /\ loaded \in Nat /\ pos \in Nat \ {0}
    /\ line \in Lines \cup {<<>>}

(* DirectoryExact of a directory d. *)
Exact(d) ==
    /\ DOMAIN d.short = {d.dir[i].short : i \in DOMAIN d.dir}
    /\ DOMAIN d.long = {d.dir[i].long : i \in DOMAIN d.dir}
    /\ \A i \in DOMAIN d.dir : d.short[d.dir[i].short] = i - 1 /\ d.long[d.dir[i].long] = i - 1

Extends(d, e) == \A i \in DOMAIN d.dir : i \in DOMAIN e.dir /\ e.dir[i] = d.dir[i]

DirectoryInv == ReaderOK /\ DirectoryExact

-----------------------------------------------------------------------------
(* What the operations on the directory keep. *)

LEMMA ElementOfSeq ==
    ASSUME NEW S, NEW s \in Seq(S), NEW i \in 1 .. Len(s)
    PROVE  s[i] \in S
OBVIOUS

LEMMA AppendToSeq ==
    ASSUME NEW S, NEW s \in Seq(S), NEW x \in S
    PROVE  /\ Append(s, x) \in Seq(S)
           /\ DOMAIN Append(s, x) = DOMAIN s \cup {Len(s) + 1}
           /\ Len(s) + 1 \notin DOMAIN s /\ DOMAIN s \subseteq Int
           /\ Append(s, x)[Len(s) + 1] = x
           /\ \A i \in DOMAIN s : Append(s, x)[i] = s[i]
OBVIOUS

LEMMA IndexIsInteger ==
    ASSUME NEW stname, NEW pm
    PROVE  GetSTIndexByName(stname, pm) \in Int
<1>1. Sign(pm) \in Int
  BY DEF Sign
<1> QED BY <1>1 DEF GetSTIndexByName, ST_ZERO, EXPRESS

(* Inserting an arrow appends to the directory or leaves it alone. *)
LEMMA InsertKeepsExact ==
    ASSUME NEW d, d.dir \in Seq(ArrowEntry), Exact(d),
           NEW stname, NEW alias \in AllNames, NEW long \in AllNames, NEW pm
    PROVE  LET e == InsertArrowDirectory(d, stname, alias, long, pm)
           IN  e.dir \in Seq(ArrowEntry) /\ Exact(e) /\ Extends(d, e)
<1> DEFINE e == InsertArrowDirectory(d, stname, alias, long, pm)
           entry == [STAindex |-> GetSTIndexByName(stname, pm), long |-> long, short |-> alias]
<1>1. CASE IsPair(d, alias, long) \/ Clashes(d, alias, long)
  <2>1. e = d
    BY <1>1 DEF InsertArrowDirectory
  <2> QED BY <2>1 DEF Extends
<1>2. CASE ~IsPair(d, alias, long) /\ ~Clashes(d, alias, long)
  <2>1. /\ e.dir = Append(d.dir, entry)
        /\ e.short = With(d.short, alias, Len(d.dir))
        /\ e.long = With(d.long, long, Len(d.dir))
    BY <1>2 DEF InsertArrowDirectory
  <2>2. \A i \in DOMAIN d.dir : d.dir[i].long # long /\ d.dir[i].short # alias
    BY <1>2 DEF Clashes
  <2>3. entry \in ArrowEntry
    BY IndexIsInteger DEF ArrowEntry
  <2>4. entry.short = alias /\ entry.long = long
    OBVIOUS
  <2> HIDE DEF e, entry
  <2>5. /\ e.dir \in Seq(ArrowEntry)
        /\ DOMAIN e.dir = DOMAIN d.dir \cup {Len(d.dir) + 1}
        /\ Len(d.dir) + 1 \notin DOMAIN d.dir
        /\ e.dir[Len(d.dir) + 1] = entry
        /\ \A i \in DOMAIN d.dir : e.dir[i] = d.dir[i]
    BY <2>1, <2>3, AppendToSeq
  <2>6. /\ DOMAIN e.short = DOMAIN d.short \cup {alias}
        /\ e.short[alias] = Len(d.dir)
        /\ \A n \in DOMAIN d.short : n # alias => e.short[n] = d.short[n]
    BY <2>1 DEF With
  <2>7. /\ DOMAIN e.long = DOMAIN d.long \cup {long}
        /\ e.long[long] = Len(d.dir)
        /\ \A n \in DOMAIN d.long : n # long => e.long[n] = d.long[n]
    BY <2>1 DEF With
  <2>8. DOMAIN e.short = {e.dir[i].short : i \in DOMAIN e.dir}
    BY <2>4, <2>5, <2>6 DEF Exact
  <2>9. DOMAIN e.long = {e.dir[i].long : i \in DOMAIN e.dir}
    BY <2>4, <2>5, <2>7 DEF Exact
  <2>10. ASSUME NEW i \in DOMAIN e.dir
         PROVE  e.short[e.dir[i].short] = i - 1 /\ e.long[e.dir[i].long] = i - 1
    <3>1. CASE i \in DOMAIN d.dir
      <4>1. e.dir[i] = d.dir[i] /\ d.dir[i].short # alias /\ d.dir[i].long # long
        BY <3>1, <2>2, <2>5
      <4>2. d.dir[i].short \in DOMAIN d.short /\ d.dir[i].long \in DOMAIN d.long
        BY <3>1 DEF Exact
      <4>3. e.short[d.dir[i].short] = d.short[d.dir[i].short]
        BY <4>1, <4>2, <2>6
      <4>4. e.long[d.dir[i].long] = d.long[d.dir[i].long]
        BY <4>1, <4>2, <2>7
      <4>5. d.short[d.dir[i].short] = i - 1 /\ d.long[d.dir[i].long] = i - 1
        BY <3>1 DEF Exact
      <4> QED BY <4>1, <4>3, <4>4, <4>5
    <3>2. CASE i = Len(d.dir) + 1
      BY <3>2, <2>4, <2>5, <2>6, <2>7
    <3> QED BY <3>1, <3>2, <2>5
  <2>11. Exact(e)
    BY <2>8, <2>9, <2>10 DEF Exact
  <2>12. Extends(d, e)
    BY <2>5 DEF Extends
  <2> QED BY <2>5, <2>11, <2>12 DEF e
<1> QED BY <1>1, <1>2

LEMMA InverseKeepsExact ==
    ASSUME NEW d, NEW f, NEW b
    PROVE  LET e == InsertInverseArrowDirectory(d, f, b)
           IN  e.dir = d.dir /\ e.short = d.short /\ e.long = d.long
BY DEF InsertInverseArrowDirectory

(* One after the other, and an inverse at the end. *)
LEMMA ExactOfSame ==
    ASSUME NEW d, NEW e, e.dir = d.dir, e.short = d.short, e.long = d.long, Exact(d)
    PROVE  Exact(e)
BY DEF Exact

LEMMA InsertPairKeepsExact ==
    ASSUME NEW d, d.dir \in Seq(ArrowEntry), Exact(d),
           NEW p \in [sect : ArrowSections, fwd : Names \X Names, bwd : Names \X Names]
    PROVE  LET e == InsertPair(d, p)
           IN  e.dir \in Seq(ArrowEntry) /\ Exact(e) /\ Extends(d, e)
<1> DEFINE d1 == InsertArrowDirectory(d, p.sect, p.fwd[1], p.fwd[2], "+")
           d2 == InsertArrowDirectory(d1, p.sect, p.bwd[1], p.bwd[2], "-")
           f == InsertedPtr(d, p.fwd[1], p.fwd[2])
           b == InsertedPtr(d1, p.bwd[1], p.bwd[2])
           e == InsertInverseArrowDirectory(d2, f, b)
<1>1. p.fwd[1] \in AllNames /\ p.fwd[2] \in AllNames /\ p.bwd[1] \in AllNames /\ p.bwd[2] \in AllNames
  BY DEF AllNames
<1>2. d1.dir \in Seq(ArrowEntry) /\ Exact(d1) /\ Extends(d, d1)
  BY <1>1, InsertKeepsExact
<1>e. InsertPair(d, p) = e
  BY DEF InsertPair
<1> HIDE DEF d1
<1>3. d2.dir \in Seq(ArrowEntry) /\ Exact(d2) /\ Extends(d1, d2)
  BY <1>1, <1>2, InsertKeepsExact
<1> HIDE DEF d2, f, b
<1>4. e.dir = d2.dir /\ e.short = d2.short /\ e.long = d2.long
  BY InverseKeepsExact
<1> HIDE DEF e
<1>5. Exact(e)
  BY <1>3, <1>4, ExactOfSame
<1> QED BY <1>2, <1>3, <1>4, <1>5, <1>e DEF Extends

-----------------------------------------------------------------------------
(* The steps of the reader. *)

LEMMA InitExact == Init => DirectoryInv
BY DEF Init, DirectoryInv, ReaderOK, DirectoryExact, EmptyDirectory, AllNames

(* The token that is read has a name. *)
LEMMA TokenHasName ==
    ASSUME ReaderOK, pos <= Len(line)
    PROVE  name \in AllNames /\ pos + 1 \in Nat \ {0}
<1>1. line \in Lines
  BY DEF ReaderOK
<1>2. line \in Seq([kind : Kinds, name : Names \cup SectionNames])
  BY <1>1, ArrowsAssumption
<1>3. line[pos] \in [kind : Kinds, name : Names \cup SectionNames]
  <2>1. pos \in 1 .. Len(line)
    BY <1>2 DEF ReaderOK
  <2> QED BY <1>2, <2>1, ElementOfSeq
<1> QED BY <1>3 DEF name, AllNames, ReaderOK

(* Every step keeps the invariant, and adds to the directory at its end. *)
LEMMA NextKeepsExact ==
    DirectoryInv /\ [Next]_vars => DirectoryInv' /\ Extends(arrows, arrows')
<1> SUFFICES ASSUME DirectoryInv, [Next]_vars
             PROVE  DirectoryInv' /\ Extends(arrows, arrows')
  OBVIOUS
<1> USE DEF DirectoryInv
<1>a. Exact(arrows) /\ arrows.dir \in Seq(ArrowEntry) /\ Extends(arrows, arrows)
  BY DEF Exact, DirectoryExact, ReaderOK, Extends
<1>b. Exact(arrows') => DirectoryExact'
  BY DEF Exact, DirectoryExact
(* Steps that leave the directory alone. *)
<1>c. ASSUME arrows' = arrows, ReaderOK'
      PROVE  DirectoryInv' /\ Extends(arrows, arrows')
  BY <1>a, <1>b, <1>c
<1>1. CASE AddMandatory
  <2>1. Mandatory[loaded + 1] \in [sect : ArrowSections, fwd : Names \X Names, bwd : Names \X Names]
    <3>1. Mandatory \in Seq([sect : ArrowSections, fwd : Names \X Names, bwd : Names \X Names])
      BY ArrowsAssumption
    <3>2. loaded + 1 \in 1 .. Len(Mandatory)
      BY <1>1, <3>1 DEF AddMandatory, ReaderOK
    <3> HIDE DEF DirectoryInv
    <3> QED BY <3>1, <3>2, ElementOfSeq
  <2>2. arrows'.dir \in Seq(ArrowEntry) /\ Exact(arrows') /\ Extends(arrows, arrows')
    BY <1>1, <1>a, <2>1, InsertPairKeepsExact DEF AddMandatory
  <2>3. ReaderOK'
    BY <1>1, <2>2 DEF AddMandatory, ReaderOK, arrowVars
  <2> QED BY <2>2, <2>3, <1>b
<1>2. CASE StartSection
  BY <1>2, <1>c, TokenHasName DEF StartSection, Token, tableVars, arrowVars, fileVars, ReaderOK
<1>3. CASE Forward \/ Backward
  BY <1>3, <1>c, TokenHasName DEF Forward, Backward, Token, tableVars, fileVars, ReaderOK
<1>4. CASE ForwardName
  <2>1. name \in AllNames /\ pos' \in Nat \ {0}
    BY <1>4, TokenHasName DEF ForwardName, Token
  <2>2. arrows' = InsertArrowDirectory(arrows, section, name, FWD_ARROW, "+")
    BY <1>4 DEF ForwardName
  <2>3. arrows'.dir \in Seq(ArrowEntry) /\ Exact(arrows') /\ Extends(arrows, arrows')
    BY <1>a, <2>1, <2>2, InsertKeepsExact DEF ReaderOK
  <2>4. ReaderOK'
    BY <1>4, <2>1, <2>3 DEF ForwardName, Token, fileVars, ReaderOK
  <2> QED BY <2>3, <2>4, <1>b
<1>5. CASE BackwardName
  <2> DEFINE d == InsertArrowDirectory(arrows, section, name, BWD_ARROW, "-")
  <2>1. name \in AllNames /\ pos' \in Nat \ {0}
    BY <1>5, TokenHasName DEF BackwardName, Token
  <2>2. arrows' = InsertInverseArrowDirectory(d, FWD_INDEX, InsertedPtr(arrows, name, BWD_ARROW))
    BY <1>5 DEF BackwardName
  <2>3. d.dir \in Seq(ArrowEntry) /\ Exact(d) /\ Extends(arrows, d)
    BY <1>a, <2>1, InsertKeepsExact DEF ReaderOK
  <2> HIDE DEF d
  <2>4. arrows'.dir = d.dir /\ arrows'.short = d.short /\ arrows'.long = d.long
    BY <2>2, InverseKeepsExact
  <2>5. Exact(arrows') /\ Extends(arrows, arrows')
    BY <2>3, <2>4, ExactOfSame DEF Extends
  <2>6. ReaderOK'
    BY <1>5, <2>1, <2>3, <2>4 DEF BackwardName, Token, arrowVars, fileVars, ReaderOK
  <2> QED BY <2>5, <2>6, <1>b
<1>6. CASE Similar
  BY <1>6, <1>c, TokenHasName DEF Similar, Token, tableVars, fileVars, ReaderOK
<1>7. CASE SimilarName
  <2> DEFINE d == InsertArrowDirectory(arrows, section, name, BWD_ARROW, "both")
             ptr == InsertedPtr(arrows, name, BWD_ARROW)
  <2>1. name \in AllNames /\ pos' \in Nat \ {0}
    BY <1>7, TokenHasName DEF SimilarName, Token
  <2>2. arrows' = InsertInverseArrowDirectory(d, ptr, ptr)
    BY <1>7 DEF SimilarName
  <2>3. d.dir \in Seq(ArrowEntry) /\ Exact(d) /\ Extends(arrows, d)
    BY <1>a, <2>1, InsertKeepsExact DEF ReaderOK
  <2> HIDE DEF d, ptr
  <2>4. arrows'.dir = d.dir /\ arrows'.short = d.short /\ arrows'.long = d.long
    BY <2>2, InverseKeepsExact
  <2>5. Exact(arrows') /\ Extends(arrows, arrows')
    BY <2>3, <2>4, ExactOfSame DEF Extends
  <2>6. ReaderOK'
    BY <1>7, <2>1, <2>3, <2>4 DEF SimilarName, Token, arrowVars, fileVars, ReaderOK
  <2> QED BY <2>5, <2>6, <1>b
<1>8. CASE Ignore \/ Mark \/ Compose \/ Operator
  BY <1>8, <1>c, TokenHasName DEF Ignore, Mark, Compose, Operator, Token, tableVars, arrowVars,
     fileVars, ReaderOK
<1>9. CASE MarkArrow
  BY <1>9, <1>c, TokenHasName DEF MarkArrow, Token, fileVars, ReaderOK
<1>10. CASE AddArrowClosure \/ Exit
  BY <1>10, <1>c, TokenHasName DEF AddArrowClosure, Exit, Token, tableVars, arrowVars, fileVars, ReaderOK
<1>11. CASE NewFile \/ EndConfig
  BY <1>11, <1>c DEF NewFile, EndConfig, tableVars, arrowVars, fileVars, ReaderOK, AllNames
<1>12. ASSUME NEW l \in Lines, NextLine(l)
       PROVE  DirectoryInv' /\ Extends(arrows, arrows')
  BY <1>12, <1>c DEF NextLine, tableVars, arrowVars, ReaderOK
<1>13. CASE UNCHANGED vars
  BY <1>13, <1>c DEF vars, tableVars, arrowVars, fileVars, ReaderOK
<1> QED BY <1>1, <1>2, <1>3, <1>4, <1>5, <1>6, <1>7, <1>8, <1>9, <1>10, <1>11, <1>12, <1>13 DEF Next

(* The directory and its two name maps tell the same, whatever has been    *)
(* read.                                                                   *)
THEOREM DirectoryIsExact == Spec => []DirectoryExact
<1>1. DirectoryInv => DirectoryExact
  BY DEF DirectoryInv
<1> QED BY InitExact, NextKeepsExact, <1>1, PTL DEF Spec

(* An arrow keeps its pointer, its type and its names: links that hold the *)
(* pointer mean what they meant when they were made.                       *)
THEOREM PointersMeanTheSame == Spec => ArrowsKeepPointers
<1>1. DirectoryInv /\ [Next]_vars
        => [\A i \in DOMAIN arrows.dir : i \in DOMAIN arrows'.dir /\ arrows'.dir[i] = arrows.dir[i]]_vars
  BY NextKeepsExact DEF Extends
<1>2. DirectoryInv /\ [Next]_vars => DirectoryInv'
  BY NextKeepsExact
<1> QED BY InitExact, <1>1, <1>2, PTL DEF Spec, ArrowsKeepPointers

-----------------------------------------------------------------------------
(* What the lookups find. *)

LEMMA AtMostTwo ==
    ASSUME NEW S, NEW x, NEW y, S \subseteq {x, y}
    PROVE  Cardinality(S) \in 0 .. 2 /\ (x = y => Cardinality(S) \in 0 .. 1)
<1>1. IsFiniteSet({x}) /\ Cardinality({x}) = 1
  BY FS_Singleton
<1>2. /\ IsFiniteSet({x} \cup {y})
      /\ Cardinality({x} \cup {y}) = IF y \in {x} THEN Cardinality({x}) ELSE Cardinality({x}) + 1
  BY <1>1, FS_AddElement
<1>3. {x} \cup {y} = {x, y}
  OBVIOUS
<1>4. IsFiniteSet({x, y}) /\ Cardinality({x, y}) \in 1 .. 2 /\ (x = y => Cardinality({x, y}) = 1)
  BY <1>1, <1>2, <1>3
<1>5. IsFiniteSet(S) /\ Cardinality(S) <= Cardinality({x, y})
  BY <1>4, FS_Subset
<1>6. Cardinality(S) \in Nat
  BY <1>5, FS_CardinalityType
<1> QED BY <1>4, <1>5, <1>6

(* The arrows of a name are those of the two maps. *)
LEMMA ExactlyFromMaps ==
    ASSUME DirectoryInv, NEW n, NEW a
    PROVE  a \in Exactly(arrows, n) <=> \/ n \in DOMAIN arrows.short /\ a = arrows.short[n]
                                        \/ n \in DOMAIN arrows.long /\ a = arrows.long[n]
<1>1. ASSUME a \in Exactly(arrows, n)
      PROVE  \/ n \in DOMAIN arrows.short /\ a = arrows.short[n]
             \/ n \in DOMAIN arrows.long /\ a = arrows.long[n]
  <2>1. PICK i \in DOMAIN arrows.dir : n \in {arrows.dir[i].long, arrows.dir[i].short} /\ a = i - 1
    BY <1>1 DEF Exactly
  <2>2. CASE n = arrows.dir[i].long
    BY <2>1, <2>2 DEF DirectoryInv, DirectoryExact
  <2>3. CASE n = arrows.dir[i].short
    BY <2>1, <2>3 DEF DirectoryInv, DirectoryExact
  <2> QED BY <2>1, <2>2, <2>3
<1>2. ASSUME n \in DOMAIN arrows.short, a = arrows.short[n]
      PROVE  a \in Exactly(arrows, n)
  <2>1. PICK i \in DOMAIN arrows.dir : arrows.dir[i].short = n
    BY <1>2 DEF DirectoryInv, DirectoryExact
  <2>2. a = i - 1
    BY <1>2, <2>1 DEF DirectoryInv, DirectoryExact
  <2> QED BY <2>1, <2>2 DEF Exactly
<1>3. ASSUME n \in DOMAIN arrows.long, a = arrows.long[n]
      PROVE  a \in Exactly(arrows, n)
  <2>1. PICK i \in DOMAIN arrows.dir : arrows.dir[i].long = n
    BY <1>3 DEF DirectoryInv, DirectoryExact
  <2>2. a = i - 1
    BY <1>3, <2>1 DEF DirectoryInv, DirectoryExact
  <2> QED BY <2>1, <2>2 DEF Exactly
<1> QED BY <1>1, <1>2, <1>3

LEMMA MapsHoldNumbers ==
    ASSUME DirectoryInv, NEW n
    PROVE  /\ n \in DOMAIN arrows.short => arrows.short[n] \in Int
           /\ n \in DOMAIN arrows.long => arrows.long[n] \in Int
<1>1. \A i \in DOMAIN arrows.dir : i - 1 \in Int
  BY DEF DirectoryInv, ReaderOK
<1>2. ASSUME n \in DOMAIN arrows.short
      PROVE  arrows.short[n] \in Int
  <2>1. PICK i \in DOMAIN arrows.dir : arrows.dir[i].short = n
    BY <1>2 DEF DirectoryInv, DirectoryExact
  <2> QED BY <1>1, <2>1 DEF DirectoryInv, DirectoryExact
<1>3. ASSUME n \in DOMAIN arrows.long
      PROVE  arrows.long[n] \in Int
  <2>1. PICK i \in DOMAIN arrows.dir : arrows.dir[i].long = n
    BY <1>3 DEF DirectoryInv, DirectoryExact
  <2> QED BY <1>1, <2>1 DEF DirectoryInv, DirectoryExact
<1> QED BY <1>2, <1>3

LEMMA NamesAgree ==
    ASSUME DirectoryInv, NEW n \in Names
    PROVE  LET exact == Exactly(arrows, n)
           IN  /\ IsArrowName(arrows, n) <=> exact # {}
               /\ exact # {} => {GetDBArrowByName(arrows, n), GetDBArrowsWithArrowName(arrows, n)} \subseteq exact
               /\ exact \subseteq Similarly(arrows, n)
               /\ Cardinality(exact) = 2 => n \in DOMAIN arrows.short \cap DOMAIN arrows.long
               /\ Cardinality(exact) <= 2
<1> DEFINE exact == Exactly(arrows, n)
           x == arrows.short[n]
           y == arrows.long[n]
<1>1. \A a : a \in exact <=> \/ n \in DOMAIN arrows.short /\ a = x
                             \/ n \in DOMAIN arrows.long /\ a = y
  BY ExactlyFromMaps
<1>2. (n \in DOMAIN arrows.short => x \in Int) /\ (n \in DOMAIN arrows.long => y \in Int)
  BY MapsHoldNumbers
<1>3. exact \subseteq Similarly(arrows, n)
  BY ArrowsAssumption DEF Exactly, Similarly
<1>4. exact # {} => GetDBArrowsWithArrowName(arrows, n) = CHOOSE a \in exact : \A b \in exact : a <= b
  BY DEF GetDBArrowsWithArrowName
<1>5. GetDBArrowByName(arrows, n) = IF IsArrowName(arrows, n)
                                    THEN IF n \in DOMAIN arrows.short THEN x ELSE y ELSE 0
  BY DEF GetDBArrowByName, GetLinkArrowByName
<1> HIDE DEF exact, x, y
<1>6. IsArrowName(arrows, n) <=> exact # {}
  BY <1>1 DEF IsArrowName
<1>7. exact # {} => GetDBArrowByName(arrows, n) \in exact
  BY <1>1, <1>5, <1>6 DEF IsArrowName
<1>8. ASSUME exact # {}
      PROVE  \E a \in exact : \A b \in exact : a <= b
  <2>1. CASE n \in DOMAIN arrows.short /\ n \in DOMAIN arrows.long
    <3>1. x \in exact /\ y \in exact /\ x \in Int /\ y \in Int /\ \A b \in exact : b = x \/ b = y
      BY <1>1, <1>2, <2>1
    <3>2. CASE x <= y
      <4>1. \A b \in exact : x <= b
        BY <3>1, <3>2
      <4> QED BY <3>1, <4>1
    <3>3. CASE ~(x <= y)
      <4>1. \A b \in exact : y <= b
        BY <3>1, <3>3
      <4> QED BY <3>1, <4>1
    <3> QED BY <3>2, <3>3
  <2>2. CASE ~(n \in DOMAIN arrows.short /\ n \in DOMAIN arrows.long)
    <3>1. PICK a \in exact : TRUE
      BY <1>8
    <3>2. a \in Int /\ \A b \in exact : b = a
      BY <1>1, <1>2, <2>2, <3>1
    <3> QED BY <3>1, <3>2
  <2> QED BY <2>1, <2>2
<1>9. exact # {} => GetDBArrowsWithArrowName(arrows, n) \in exact
  BY <1>4, <1>8
<1>10. exact \subseteq {x, y} /\ (n \notin DOMAIN arrows.short => exact \subseteq {y, y})
                             /\ (n \notin DOMAIN arrows.long => exact \subseteq {x, x})
  BY <1>1
<1>11. Cardinality(exact) \in 0 .. 2
  BY <1>10, AtMostTwo
<1>12. Cardinality(exact) = 2 => n \in DOMAIN arrows.short \cap DOMAIN arrows.long
  <2>1. ASSUME n \notin DOMAIN arrows.short PROVE Cardinality(exact) \in 0 .. 1
    BY <1>10, <2>1, AtMostTwo
  <2>2. ASSUME n \notin DOMAIN arrows.long PROVE Cardinality(exact) \in 0 .. 1
    BY <1>10, <2>2, AtMostTwo
  <2> QED BY <2>1, <2>2
<1> QED BY <1>3, <1>6, <1>7, <1>9, <1>11, <1>12 DEF exact

(* Every arrow but the first, by its short name and by its number. *)
LEMMA ArrowsAreFound ==
    ASSUME DirectoryInv, NEW i \in DOMAIN arrows.dir \ {1}
    PROVE  LET a == i - 1
               q == OfName(arrows, arrows.dir[i].short, TRUE)
           IN  /\ a \in q.arr
               /\ \E t \in q.stt : a \in GetDBArrowBySTType(arrows, t)
               /\ a \in OfNumber(arrows, a).arr <=> a > EXPRESS
<1> DEFINE a == i - 1
           found == Exactly(arrows, arrows.dir[i].short) \ {0}
           q == OfName(arrows, arrows.dir[i].short, TRUE)
<1>1. i \in Nat /\ i > 1 /\ i <= Len(arrows.dir) /\ Len(arrows.dir) \in Nat
  BY DEF DirectoryInv, ReaderOK
<1>2. a \in found
  BY <1>1 DEF Exactly
<1>3. q.arr = found /\ q.stt = {TypeOf(arrows, b) : b \in found}
  BY DEF OfName, GetDBArrowsMatchingArrowName
<1>4. a \in GetDBArrowBySTType(arrows, TypeOf(arrows, a))
  BY <1>1 DEF GetDBArrowBySTType
<1>t. a \in q.arr /\ \E t \in q.stt : a \in GetDBArrowBySTType(arrows, t)
  <2> HIDE DEF a, found, q
  <2>1. a \in q.arr /\ TypeOf(arrows, a) \in q.stt
    BY <1>2, <1>3
  <2> QED BY <1>4, <2>1
<1>5. CASE a > EXPRESS
  <2>1. a \notin -EXPRESS .. EXPRESS /\ ~(a < -EXPRESS) /\ a < Len(arrows.dir)
    BY <1>1, <1>5 DEF EXPRESS
  <2>2. OfNumber(arrows, a) = [arr |-> {a}, stt |-> {TypeOf(arrows, a)}]
    BY <1>5, <2>1 DEF OfNumber
  <2> HIDE DEF a, found, q
  <2>3. a \in OfNumber(arrows, a).arr <=> a > EXPRESS
    BY <1>5, <2>2
  <2> QED BY <1>t, <2>3 DEF a, q
<1>6. CASE ~(a > EXPRESS)
  <2>1. a \in -EXPRESS .. EXPRESS /\ ~(a < -EXPRESS)
    BY <1>1, <1>6 DEF EXPRESS
  <2>2. OfNumber(arrows, a) = [arr |-> {}, stt |-> {a}]
    BY <1>6, <2>1 DEF OfNumber
  <2> HIDE DEF a, found, q
  <2>3. a \in OfNumber(arrows, a).arr <=> a > EXPRESS
    BY <1>6, <2>2
  <2> QED BY <1>t, <2>3 DEF a, q
<1> QED BY <1>5, <1>6

(* Maps and scans name the same arrows, and a search by words finds every  *)
(* arrow but the first (LookupsAgree), because the directory and the maps  *)
(* tell the same.                                                          *)
THEOREM LookupsAlwaysAgree == Spec => []LookupsAgree
<1>1. DirectoryInv => LookupsAgree
  BY NamesAgree, ArrowsAreFound DEF LookupsAgree
<1>2. DirectoryInv /\ [Next]_vars => DirectoryInv'
  BY NextKeepsExact
<1> QED BY InitExact, <1>1, <1>2, PTL DEF Spec

-----------------------------------------------------------------------------
(* The inverses.  A pair of names that a line put down is settled from     *)
(* then on: it is an arrow, or it clashes with one for ever.  The reader   *)
(* holds in FWD_INDEX what became of the forward arrow of its line.        *)

Resolved(d, alias, long, ptr) ==
    /\ Clashes(d, alias, long)
    /\ ptr = IF IsPair(d, alias, long) THEN d.short[alias] ELSE NoArrow

SettledAll(d, W) ==
    \A w \in W : Clashes(d, w[1][1], w[1][2]) /\ Clashes(d, w[2][1], w[2][2])

(* Pairings of a directory d and the lines W. *)
AcceptedBy(d, w) == IsPair(d, w[1][1], w[1][2]) /\ IsPair(d, w[2][1], w[2][2])
EndsIn(d, w) == {d.short[w[1][1]], d.short[w[2][1]]}
PairingsOf(d, W) == {EndsIn(d, w) : w \in {x \in W : AcceptedBy(d, x)}}

(* InversesAsWritten of an inverse map f and a set P of pairings. *)
FromLines(f, P) == \A a \in DOMAIN f : {a, f[a]} \in P
LinesHold(f, P) ==
    \A e \in P : (\A g \in P : g # e => g \cap e = {}) =>
                     \A a \in e : a \in DOMAIN f /\ {a, f[a]} = e
InversesIn(d, W) == /\ FromLines(d.inverse, PairingsOf(d, W))
                    /\ LinesHold(d.inverse, PairingsOf(d, W))

(* What the line has said before the token at pos: a "+" at p, and either  *)
(* nothing but its names since, or its name at m - 1, a "-" at m, and its  *)
(* last "-" at n.                                                          *)
NoneOf(k, from, to) == \A j \in from .. to : line[j].kind # k
SaidForward(p) ==
    /\ p \in 1 .. pos - 1 /\ line[p].kind = "+" /\ FWD_ARROW = line[p].name
    /\ NoneOf("+", p + 1, pos - 1) /\ NoneOf("-", p, pos - 1)
    /\ line[pos - 1].kind = "(" =>
           Resolved(arrows, line[pos - 1].name, line[p].name, FWD_INDEX)
SaidBackward(p, m, n) ==
    /\ 0 < p /\ p < m - 1 /\ m <= n /\ n < pos
    /\ line[p].kind = "+" /\ NoneOf("+", p + 1, pos - 1)
    /\ line[m].kind = "-" /\ NoneOf("-", p, m - 1)
    /\ line[m - 1].kind = "(" /\ Resolved(arrows, line[m - 1].name, line[p].name, FWD_INDEX)
    /\ line[n].kind = "-" /\ NoneOf("-", n + 1, pos - 1) /\ BWD_ARROW = line[n].name
LineInv ==
    section \in ArrowSections =>
        /\ role \in {"blank", "section", "plus", "minus"}
        /\ role = "section" /\ status = "reading" => pos > 1 /\ line[pos - 1].kind # "("
        /\ role = "plus" => \E p \in Nat : SaidForward(p)
        /\ role = "minus" => \E p, m, n \in Nat : SaidBackward(p, m, n)

InverseInv == InversesIn(arrows, written) /\ SettledAll(arrows, written) /\ LineInv
-----------------------------------------------------------------------------
(* What is settled stays so. *)

LEMMA PairIsEntry ==
    ASSUME NEW d, d.dir \in Seq(ArrowEntry), Exact(d), NEW alias, NEW long
    PROVE  /\ IsPair(d, alias, long) <=>
                 \E i \in DOMAIN d.dir : d.dir[i].short = alias /\ d.dir[i].long = long
           /\ IsPair(d, alias, long) => Clashes(d, alias, long) /\ d.short[alias] \in Nat
<1>1. DOMAIN d.dir \subseteq Nat \ {0}
  OBVIOUS
<1>2. ASSUME IsPair(d, alias, long)
      PROVE  /\ \E i \in DOMAIN d.dir : d.dir[i].short = alias /\ d.dir[i].long = long
             /\ Clashes(d, alias, long) /\ d.short[alias] \in Nat
  <2>1. alias \in DOMAIN d.short /\ long \in DOMAIN d.long /\ d.short[alias] = d.long[long]
    BY <1>2 DEF IsPair
  <2>2. PICK i \in DOMAIN d.dir : d.dir[i].short = alias
    BY <2>1 DEF Exact
  <2>3. PICK j \in DOMAIN d.dir : d.dir[j].long = long
    BY <2>1 DEF Exact
  <2>4. d.short[alias] = i - 1 /\ d.long[long] = j - 1
    BY <2>2, <2>3 DEF Exact
  <2>5. i \in Nat \ {0} /\ j \in Nat \ {0} /\ i - 1 = j - 1
    BY <1>1, <2>1, <2>4
  <2>6. i = j /\ i - 1 \in Nat
    BY <2>5
  <2> QED BY <2>2, <2>3, <2>4, <2>6 DEF Clashes
<1>3. ASSUME NEW i \in DOMAIN d.dir, d.dir[i].short = alias, d.dir[i].long = long
      PROVE  IsPair(d, alias, long)
  BY <1>3 DEF Exact, IsPair
<1> QED BY <1>2, <1>3

LEMMA SettledStays ==
    ASSUME NEW d, NEW e, d.dir \in Seq(ArrowEntry), e.dir \in Seq(ArrowEntry),
           Exact(d), Exact(e), Extends(d, e), NEW alias, NEW long, Clashes(d, alias, long)
    PROVE  /\ Clashes(e, alias, long)
           /\ IsPair(e, alias, long) <=> IsPair(d, alias, long)
           /\ IsPair(d, alias, long) => e.short[alias] = d.short[alias]
<1>1. DOMAIN e.dir \subseteq Int
  OBVIOUS
<1>2. \A i \in DOMAIN d.dir : i \in DOMAIN e.dir /\ e.dir[i] = d.dir[i]
  BY DEF Extends
<1>3. PICK i \in DOMAIN d.dir : d.dir[i].long = long \/ d.dir[i].short = alias
  BY DEF Clashes
<1>4. ASSUME IsPair(e, alias, long)
      PROVE  IsPair(d, alias, long)
  <2>1. PICK j \in DOMAIN e.dir : e.dir[j].short = alias /\ e.dir[j].long = long
    BY <1>4, PairIsEntry
  <2>2. e.short[e.dir[i].short] = i - 1 /\ e.long[e.dir[i].long] = i - 1
    BY <1>2 DEF Exact
  <2>3. e.short[alias] = j - 1 /\ e.long[long] = j - 1
    BY <2>1 DEF Exact
  <2>4. i \in Int /\ j \in Int /\ i - 1 = j - 1
    <3>1. CASE e.dir[i].short = alias
      BY <1>1, <1>2, <2>2, <2>3, <3>1
    <3>2. CASE e.dir[i].long = long
      BY <1>1, <1>2, <2>2, <2>3, <3>2
    <3> QED BY <1>2, <1>3, <3>1, <3>2
  <2>5. i = j
    BY <2>4
  <2> QED BY <1>2, <2>1, <2>5, PairIsEntry
<1>5. ASSUME IsPair(d, alias, long)
      PROVE  IsPair(e, alias, long) /\ e.short[alias] = d.short[alias]
  <2>1. PICK j \in DOMAIN d.dir : d.dir[j].short = alias /\ d.dir[j].long = long
    BY <1>5, PairIsEntry
  <2>2. IsPair(e, alias, long)
    BY <1>2, <2>1, PairIsEntry
  <2>3. d.short[alias] = j - 1
    BY <2>1 DEF Exact
  <2>4. e.dir[j].short = alias /\ j \in DOMAIN e.dir
    BY <1>2, <2>1
  <2>5. e.short[alias] = j - 1
    BY <2>4 DEF Exact
  <2> QED BY <2>2, <2>3, <2>5
<1>6. Clashes(e, alias, long)
  BY <1>2, <1>3 DEF Clashes
<1> QED BY <1>4, <1>5, <1>6

LEMMA ResolvedStays ==
    ASSUME NEW d, NEW e, d.dir \in Seq(ArrowEntry), e.dir \in Seq(ArrowEntry),
           Exact(d), Exact(e), Extends(d, e),
           NEW alias, NEW long, NEW ptr, Resolved(d, alias, long, ptr)
    PROVE  Resolved(e, alias, long, ptr)
BY SettledStays DEF Resolved

(* An arrow is settled once it has been given to InsertArrowDirectory. *)
LEMMA InsertResolves ==
    ASSUME NEW d, d.dir \in Seq(ArrowEntry), Exact(d),
           NEW stname, NEW alias \in AllNames, NEW long \in AllNames, NEW pm
    PROVE  LET e == InsertArrowDirectory(d, stname, alias, long, pm)
           IN  Resolved(e, alias, long, InsertedPtr(d, alias, long)) /\ e.inverse = d.inverse
<1> DEFINE e == InsertArrowDirectory(d, stname, alias, long, pm)
<1>1. CASE IsPair(d, alias, long) \/ Clashes(d, alias, long)
  <2>1. e = d
    BY <1>1 DEF InsertArrowDirectory
  <2>2. Clashes(d, alias, long)
    BY <1>1, PairIsEntry
  <2> QED BY <2>1, <2>2 DEF Resolved, InsertedPtr
<1>2. CASE ~IsPair(d, alias, long) /\ ~Clashes(d, alias, long)
  <2>1. /\ e.dir = Append(d.dir, [STAindex |-> GetSTIndexByName(stname, pm),
                                  long |-> long, short |-> alias])
        /\ e.short = With(d.short, alias, Len(d.dir))
        /\ e.long = With(d.long, long, Len(d.dir))
        /\ e.inverse = d.inverse
    BY <1>2 DEF InsertArrowDirectory
  <2>2. InsertedPtr(d, alias, long) = Len(d.dir)
    BY <1>2 DEF InsertedPtr
  <2>3. e.dir \in Seq(ArrowEntry) /\ Exact(e)
    BY InsertKeepsExact
  <2> HIDE DEF e
  <2>4. IsPair(e, alias, long) /\ e.short[alias] = Len(d.dir)
    BY <2>1 DEF IsPair, With
  <2> QED BY <2>1, <2>2, <2>3, <2>4, PairIsEntry DEF Resolved, e
<1> QED BY <1>1, <1>2

-----------------------------------------------------------------------------
(* What the operations on the directory do to the inverses. *)

LEMMA PairingsStay ==
    ASSUME NEW d, NEW e, d.dir \in Seq(ArrowEntry), e.dir \in Seq(ArrowEntry),
           Exact(d), Exact(e), Extends(d, e), NEW W, SettledAll(d, W)
    PROVE  SettledAll(e, W) /\ PairingsOf(e, W) = PairingsOf(d, W)
<1>1. ASSUME NEW w \in W
      PROVE  /\ Clashes(e, w[1][1], w[1][2]) /\ Clashes(e, w[2][1], w[2][2])
             /\ AcceptedBy(e, w) <=> AcceptedBy(d, w)
             /\ AcceptedBy(d, w) => EndsIn(e, w) = EndsIn(d, w)
  <2>1. Clashes(d, w[1][1], w[1][2]) /\ Clashes(d, w[2][1], w[2][2])
    BY DEF SettledAll
  <2>2. /\ Clashes(e, w[1][1], w[1][2])
        /\ IsPair(e, w[1][1], w[1][2]) <=> IsPair(d, w[1][1], w[1][2])
        /\ IsPair(d, w[1][1], w[1][2]) => e.short[w[1][1]] = d.short[w[1][1]]
    BY <2>1, SettledStays
  <2>3. /\ Clashes(e, w[2][1], w[2][2])
        /\ IsPair(e, w[2][1], w[2][2]) <=> IsPair(d, w[2][1], w[2][2])
        /\ IsPair(d, w[2][1], w[2][2]) => e.short[w[2][1]] = d.short[w[2][1]]
    BY <2>1, SettledStays
  <2> QED BY <2>2, <2>3 DEF AcceptedBy, EndsIn
<1>2. SettledAll(e, W)
  BY <1>1 DEF SettledAll
<1>3. \A x : x \in PairingsOf(e, W) <=> x \in PairingsOf(d, W)
  BY <1>1 DEF PairingsOf
<1> QED BY <1>2, <1>3

LEMMA InsertKeepsInverses ==
    ASSUME NEW d, d.dir \in Seq(ArrowEntry), Exact(d),
           NEW stname, NEW alias \in AllNames, NEW long \in AllNames, NEW pm,
           NEW W, SettledAll(d, W), InversesIn(d, W)
    PROVE  LET e == InsertArrowDirectory(d, stname, alias, long, pm)
           IN  SettledAll(e, W) /\ InversesIn(e, W)
<1> DEFINE e == InsertArrowDirectory(d, stname, alias, long, pm)
<1>1. e.dir \in Seq(ArrowEntry) /\ Exact(e) /\ Extends(d, e)
  BY InsertKeepsExact
<1>2. e.inverse = d.inverse
  BY InsertResolves
<1> HIDE DEF e
<1>3. SettledAll(e, W) /\ PairingsOf(e, W) = PairingsOf(d, W)
  BY <1>1, PairingsStay
<1> QED BY <1>2, <1>3 DEF InversesIn, e

(* One more pair of an inverse map. *)
LEMMA OneMorePair ==
    ASSUME NEW f, NEW P, FromLines(f, P), LinesHold(f, P), NEW x, NEW y
    PROVE  LET g == With(With(f, x, y), y, x)
               Q == P \cup {{x, y}}
           IN  FromLines(g, Q) /\ LinesHold(g, Q)
<1> DEFINE g == With(With(f, x, y), y, x)
           Q == P \cup {{x, y}}
<1>1. /\ DOMAIN g = DOMAIN f \cup {x, y}
      /\ g[y] = x /\ g[x] = y
      /\ \A a \in DOMAIN f : a # x /\ a # y => g[a] = f[a]
  BY DEF With
<1> HIDE DEF g
<1>2. FromLines(g, Q)
  <2> SUFFICES ASSUME NEW a \in DOMAIN g PROVE {a, g[a]} \in Q
    BY DEF FromLines
  <2>1. CASE a \in {x, y}
    BY <1>1, <2>1
  <2>2. CASE a \notin {x, y}
    BY <1>1, <2>2 DEF FromLines
  <2> QED BY <2>1, <2>2
<1>3. LinesHold(g, Q)
  <2> SUFFICES ASSUME NEW e \in Q, \A h \in Q : h # e => h \cap e = {}, NEW a \in e
               PROVE  a \in DOMAIN g /\ {a, g[a]} = e
    BY DEF LinesHold
  <2>1. CASE e = {x, y}
    BY <1>1, <2>1
  <2>2. CASE e # {x, y}
    <3>1. e \in P /\ {x, y} \cap e = {}
      BY <2>2
    <3>2. a # x /\ a # y
      BY <3>1
    <3>3. a \in DOMAIN f /\ {a, f[a]} = e
      BY <3>1 DEF LinesHold
    <3> QED BY <1>1, <3>2, <3>3
  <2> QED BY <2>1, <2>2
<1> QED BY <1>2, <1>3 DEF g

(* A line whose two arrows are settled, and their inverses. *)
LEMMA InverseWritten ==
    ASSUME NEW d, d.dir \in Seq(ArrowEntry), Exact(d),
           NEW W, SettledAll(d, W), InversesIn(d, W),
           NEW w, NEW f, NEW b,
           Resolved(d, w[1][1], w[1][2], f), Resolved(d, w[2][1], w[2][2], b)
    PROVE  LET e == InsertInverseArrowDirectory(d, f, b)
           IN  SettledAll(e, W \cup {w}) /\ InversesIn(e, W \cup {w})
<1> DEFINE e == InsertInverseArrowDirectory(d, f, b)
           V == W \cup {w}
<1>1. SettledAll(d, V)
  BY DEF SettledAll, Resolved
<1>2. e.dir = d.dir /\ e.short = d.short /\ e.long = d.long
  BY InverseKeepsExact
<1>3. CASE AcceptedBy(d, w)
  <2>1. /\ f = d.short[w[1][1]] /\ b = d.short[w[2][1]] /\ f \in Nat /\ b \in Nat
    BY <1>3, PairIsEntry DEF AcceptedBy, Resolved
  <2>2. e.inverse = With(With(d.inverse, f, b), b, f)
    BY <2>1 DEF InsertInverseArrowDirectory, NoArrow
  <2>3. PairingsOf(d, V) = PairingsOf(d, W) \cup {{f, b}}
    BY <1>3, <2>1 DEF PairingsOf, EndsIn
  <2> HIDE DEF e
  <2>4. SettledAll(e, V) /\ PairingsOf(e, V) = PairingsOf(d, V)
    BY <1>1, <1>2 DEF SettledAll, PairingsOf, AcceptedBy, EndsIn, IsPair, Clashes
  <2> DEFINE I == d.inverse
             P == PairingsOf(d, W)
  <2>5. FromLines(I, P) /\ LinesHold(I, P)
    BY DEF InversesIn
  <2>6. e.inverse = With(With(I, f, b), b, f) /\ PairingsOf(e, V) = P \cup {{f, b}}
    BY <2>2, <2>3, <2>4
  <2> HIDE DEF I, P
  <2>7. FromLines(e.inverse, PairingsOf(e, V)) /\ LinesHold(e.inverse, PairingsOf(e, V))
    <3> DEFINE g == With(With(I, f, b), b, f)
               Q == P \cup {{f, b}}
    <3>1. FromLines(g, Q) /\ LinesHold(g, Q)
      BY <2>5, OneMorePair
    <3>2. e.inverse = g /\ PairingsOf(e, V) = Q
      BY <2>6
    <3> HIDE DEF g, Q, V
    <3> QED BY <3>1, <3>2
  <2> QED BY <2>4, <2>7 DEF InversesIn, e
<1>4. CASE ~AcceptedBy(d, w)
  <2>1. f = NoArrow \/ b = NoArrow
    BY <1>4 DEF AcceptedBy, Resolved
  <2>2. e = d
    BY <2>1 DEF InsertInverseArrowDirectory
  <2>3. PairingsOf(d, V) = PairingsOf(d, W)
    BY <1>4 DEF PairingsOf
  <2> QED BY <1>1, <2>2, <2>3 DEF InversesIn
<1> QED BY <1>3, <1>4

LEMMA InsertPairInverses ==
    ASSUME NEW d, d.dir \in Seq(ArrowEntry), Exact(d),
           NEW W, SettledAll(d, W), InversesIn(d, W),
           NEW p \in [sect : ArrowSections, fwd : Names \X Names, bwd : Names \X Names]
    PROVE  LET e == InsertPair(d, p)
               V == W \cup {<<p.fwd, p.bwd>>}
           IN  SettledAll(e, V) /\ InversesIn(e, V)
<1> DEFINE d1 == InsertArrowDirectory(d, p.sect, p.fwd[1], p.fwd[2], "+")
           d2 == InsertArrowDirectory(d1, p.sect, p.bwd[1], p.bwd[2], "-")
           f == InsertedPtr(d, p.fwd[1], p.fwd[2])
           b == InsertedPtr(d1, p.bwd[1], p.bwd[2])
           w == <<p.fwd, p.bwd>>
<1>1. p.fwd[1] \in AllNames /\ p.fwd[2] \in AllNames /\ p.bwd[1] \in AllNames /\ p.bwd[2] \in AllNames
  BY DEF AllNames
<1>2. /\ d1.dir \in Seq(ArrowEntry) /\ Exact(d1)
      /\ Resolved(d1, p.fwd[1], p.fwd[2], f)
      /\ SettledAll(d1, W) /\ InversesIn(d1, W)
  BY <1>1, InsertKeepsExact, InsertResolves, InsertKeepsInverses
<1>e. InsertPair(d, p) = InsertInverseArrowDirectory(d2, f, b)
  BY DEF InsertPair
<1> HIDE DEF d1, f
<1>3. /\ d2.dir \in Seq(ArrowEntry) /\ Exact(d2) /\ Extends(d1, d2)
      /\ Resolved(d2, p.bwd[1], p.bwd[2], b)
      /\ SettledAll(d2, W) /\ InversesIn(d2, W)
  BY <1>1, <1>2, InsertKeepsExact, InsertResolves, InsertKeepsInverses
<1> HIDE DEF d2, b
<1>4. Resolved(d2, p.fwd[1], p.fwd[2], f)
  BY <1>2, <1>3, ResolvedStays
<1>5. w[1] = p.fwd /\ w[2] = p.bwd
  OBVIOUS
<1> HIDE DEF w
<1>6. Resolved(d2, w[1][1], w[1][2], f) /\ Resolved(d2, w[2][1], w[2][2], b)
  BY <1>3, <1>4, <1>5
<1> DEFINE e == InsertInverseArrowDirectory(d2, f, b)
<1>7. SettledAll(e, W \cup {w}) /\ InversesIn(e, W \cup {w})
  BY <1>3, <1>6, InverseWritten
<1> QED BY <1>7, <1>e DEF w
-----------------------------------------------------------------------------
(* What the reader has seen of its line. *)

LEMMA LineAlternates ==
    ASSUME ReaderOK, 1 < pos, pos <= Len(line)
    PROVE  line[pos - 1].kind = "(" \/ line[pos].kind = "("
<1>1. line \in Lines /\ pos \in Nat
  BY DEF ReaderOK
<1>2. Len(line) \in Nat
  BY <1>1, ArrowsAssumption
<1>3. pos - 1 \in 1 .. Len(line) - 1
  BY <1>1, <1>2
<1>4. line[pos - 1].kind = "(" \/ line[(pos - 1) + 1].kind = "("
  BY <1>1, <1>3, ArrowsAssumption
<1>5. (pos - 1) + 1 = pos
  BY <1>1
<1> QED BY <1>4, <1>5

LEMMA LastOfIs ==
    ASSUME NEW is, is \subseteq Int, NEW x \in is, \A j \in is : j <= x
    PROVE  LastOf(is) = x
<1>1. \E i \in is : \A j \in is : j <= i
  OBVIOUS
<1>2. LastOf(is) \in is /\ \A j \in is : j <= LastOf(is)
  BY <1>1 DEF LastOf
<1>3. LastOf(is) <= x /\ x <= LastOf(is) /\ LastOf(is) \in Int /\ x \in Int
  BY <1>2
<1> QED BY <1>3

(* The arrows of a line are those the reader holds. *)
LEMMA LinePairIs ==
    ASSUME pos \in Nat, kind = "(", NEW p \in Nat, NEW m \in Nat, NEW n \in Nat,
           SaidBackward(p, m, n)
    PROVE  LinePair = <<<<line[m - 1].name, line[p].name>>, <<name, line[n].name>>>>
<1> DEFINE At(k, from, to) == {i \in from .. to : line[i].kind = k}
           plus == LastOf(At("+", 1, pos))
           minus == LastOf(At("-", plus, pos))
           alias == LastOf({i \in At("(", plus, minus) : At("-", plus, i) = {}})
<1>1. /\ 0 < p /\ p < m - 1 /\ m <= n /\ n < pos
      /\ line[p].kind = "+" /\ line[m].kind = "-" /\ line[m - 1].kind = "("
      /\ line[n].kind = "-" /\ line[pos].kind = "("
      /\ \A j \in p + 1 .. pos - 1 : line[j].kind # "+"
      /\ \A j \in p .. m - 1 : line[j].kind # "-"
      /\ \A j \in n + 1 .. pos - 1 : line[j].kind # "-"
  BY DEF SaidBackward, NoneOf, kind
<1>2. plus = p
  <2>1. p \in At("+", 1, pos) /\ At("+", 1, pos) \subseteq Int
    BY <1>1
  <2>2. ASSUME NEW j \in At("+", 1, pos) PROVE j <= p
    <3>1. j \in 1 .. pos /\ line[j].kind = "+"
      OBVIOUS
    <3>2. j # pos /\ j \notin p + 1 .. pos - 1
      BY <1>1, <3>1
    <3> QED BY <1>1, <3>1, <3>2
  <2> QED BY <2>1, <2>2, LastOfIs
<1>3. minus = n
  <2>1. n \in At("-", p, pos) /\ At("-", p, pos) \subseteq Int
    BY <1>1
  <2>2. ASSUME NEW j \in At("-", p, pos) PROVE j <= n
    <3>1. j \in p .. pos /\ line[j].kind = "-"
      OBVIOUS
    <3>2. j # pos /\ j \notin n + 1 .. pos - 1
      BY <1>1, <3>1
    <3> QED BY <1>1, <3>1, <3>2
  <2>3. LastOf(At("-", p, pos)) = n
    BY <2>1, <2>2, LastOfIs
  <2> QED BY <1>2, <2>3
<1>4. alias = m - 1
  <2> DEFINE names == {i \in At("(", p, n) : At("-", p, i) = {}}
  <2>1. m - 1 \in names /\ names \subseteq Int
    BY <1>1
  <2>2. ASSUME NEW j \in names PROVE j <= m - 1
    <3>1. j \in Int /\ (m <= j => m \in At("-", p, j))
      BY <1>1
    <3>2. m \notin At("-", p, j)
      OBVIOUS
    <3> QED BY <3>1, <3>2
  <2>3. LastOf(names) = m - 1
    BY <2>1, <2>2, LastOfIs
  <2> QED BY <1>2, <1>3, <2>3
<1>5. LinePair = <<<<line[alias].name, line[plus].name>>, <<name, line[minus].name>>>>
  BY DEF LinePair
<1> HIDE DEF alias, plus, minus
<1> QED BY <1>2, <1>3, <1>4, <1>5

(* Nothing of the line is read. *)
LEMMA LineStays ==
    ASSUME DirectoryInv, DirectoryInv', Extends(arrows, arrows'), LineInv,
           UNCHANGED <<section, role, pos, line, FWD_ARROW, BWD_ARROW, FWD_INDEX>>,
           status' = "reading" => status = "reading"
    PROVE  LineInv'
<1>1. \A alias, long, ptr : Resolved(arrows, alias, long, ptr) => Resolved(arrows', alias, long, ptr)
  BY ResolvedStays DEF DirectoryInv, ReaderOK, DirectoryExact, Exact
<1>2. \A p : SaidForward(p) => SaidForward(p)'
  BY <1>1 DEF SaidForward, NoneOf
<1>3. \A p, m, n : SaidBackward(p, m, n) => SaidBackward(p, m, n)'
  BY <1>1 DEF SaidBackward, NoneOf
<1> QED BY <1>2, <1>3 DEF LineInv

(* A name or a text is read: what was said before stays said. *)
LEMMA BackwardStays ==
    ASSUME DirectoryInv, DirectoryInv', Extends(arrows, arrows'),
           pos' = pos + 1, kind \notin {"+", "-"},
           UNCHANGED <<line, FWD_ARROW, BWD_ARROW, FWD_INDEX>>,
           NEW p \in Nat, NEW m \in Nat, NEW n \in Nat, SaidBackward(p, m, n)
    PROVE  SaidBackward(p, m, n)'
<1>1. Resolved(arrows', line[m - 1].name, line[p].name, FWD_INDEX)
  BY ResolvedStays DEF DirectoryInv, ReaderOK, DirectoryExact, Exact, SaidBackward
<1>2. pos \in Nat
  BY DEF DirectoryInv, ReaderOK
<1>3. /\ \A j \in p + 1 .. pos : line[j].kind # "+"
      /\ \A j \in n + 1 .. pos : line[j].kind # "-"
  <2>1. \A j \in Int : j \in p + 1 .. pos => j \in p + 1 .. pos - 1 \/ j = pos
    BY <1>2
  <2>2. \A j \in Int : j \in n + 1 .. pos => j \in n + 1 .. pos - 1 \/ j = pos
    BY <1>2
  <2> QED BY <2>1, <2>2 DEF SaidBackward, NoneOf, kind
<1>4. pos' - 1 = pos /\ n < pos'
  BY <1>2 DEF SaidBackward
<1> QED BY <1>1, <1>3, <1>4 DEF SaidBackward, NoneOf

LEMMA ForwardStays ==
    ASSUME ReaderOK, pos' = pos + 1, kind \notin {"+", "-"}, UNCHANGED <<line, FWD_ARROW>>,
           NEW p \in Nat, SaidForward(p),
           kind = "(" => Resolved(arrows', name, FWD_ARROW, FWD_INDEX')
    PROVE  SaidForward(p)'
<1>1. pos \in Nat
  BY DEF ReaderOK
<1>2. /\ \A j \in p + 1 .. pos : line[j].kind # "+"
      /\ \A j \in p .. pos : line[j].kind # "-"
  <2>1. \A j \in Int : j \in p + 1 .. pos => j \in p + 1 .. pos - 1 \/ j = pos
    BY <1>1
  <2>2. \A j \in Int : j \in p .. pos => j \in p .. pos - 1 \/ j = pos
    BY <1>1
  <2> QED BY <2>1, <2>2 DEF SaidForward, NoneOf, kind
<1>3. pos' - 1 = pos /\ p \in 1 .. pos
  BY <1>1 DEF SaidForward
<1> QED BY <1>2, <1>3 DEF SaidForward, NoneOf, kind, name
LEMMA NextKeepsLine ==
    ASSUME DirectoryInv, DirectoryInv', Extends(arrows, arrows'), LineInv, [Next]_vars
    PROVE  LineInv'
<1>1. pos \in Nat \ {0} /\ pos + 1 - 1 = pos /\ ReaderOK
  BY DEF DirectoryInv, ReaderOK
<1>2. CASE AddMandatory \/ EndConfig \/ UNCHANGED vars
  BY <1>2, LineStays DEF AddMandatory, EndConfig, vars, arrowVars, fileVars
<1>3. CASE StartSection
  BY <1>1, <1>3 DEF StartSection, StartsSection, Token, fileVars, LineInv, kind
<1>4. CASE Forward
  <2>1. /\ pos' = pos + 1 /\ line' = line /\ line[pos].kind = "+" /\ role' = "plus"
        /\ FWD_ARROW' = line[pos].name
    BY <1>4 DEF Forward, Token, fileVars, kind, name
  <2>2. pos' - 1 = pos /\ pos \in 1 .. pos' - 1 /\ pos + 1 .. pos' - 1 = {}
        /\ \A j \in pos .. pos' - 1 : j = pos
    BY <1>1, <2>1
  <2>3. \E p \in Nat : SaidForward(p)'
    BY <1>1, <2>1, <2>2 DEF SaidForward, NoneOf
  <2> QED BY <2>1, <2>3 DEF LineInv
<1>5. CASE Backward
  <2>1. /\ pos' = pos + 1 /\ line' = line /\ line[pos].kind = "-" /\ role' = "minus"
        /\ BWD_ARROW' = line[pos].name /\ role # "blank" /\ section \in ArrowSections
        /\ status = "reading" /\ pos <= Len(line) /\ arrows' = arrows /\ FWD_INDEX' = FWD_INDEX
        /\ section' = section
    BY <1>5 DEF Backward, Token, StartsSection, fileVars, tableVars, Reading, kind, name
  <2>2. 1 < pos => line[pos - 1].kind = "("
    BY <1>1, <2>1, LineAlternates
  <2>3. role = "plus" \/ role = "minus"
    BY <2>1, <2>2 DEF LineInv
  <2>4. pos' - 1 = pos /\ pos < pos' /\ pos + 1 .. pos' - 1 = {}
    BY <1>1, <2>1
  <2>5. CASE role = "plus"
    <3>1. PICK p \in Nat : SaidForward(p)
      BY <2>1, <2>5 DEF LineInv
    <3>2. p \in 1 .. pos - 1 /\ line[p].kind = "+" /\ line[pos - 1].kind = "("
      BY <1>1, <2>2, <3>1 DEF SaidForward
    <3>3. 0 < p /\ p < pos - 1 /\ pos <= pos
      BY <1>1, <3>2
    <3>4. \A j \in p + 1 .. pos : line[j].kind # "+"
      <4>1. \A j \in Int : j \in p + 1 .. pos => j \in p + 1 .. pos - 1 \/ j = pos
        BY <1>1
      <4> QED BY <2>1, <3>1, <4>1 DEF SaidForward, NoneOf
    <3>5. PICK q \in Nat : q = pos
      BY <1>1
    <3>6. SaidBackward(p, q, q)'
      BY <2>1, <2>4, <3>1, <3>2, <3>3, <3>4, <3>5 DEF SaidForward, SaidBackward, NoneOf
    <3> QED BY <2>1, <3>6 DEF LineInv
  <2>6. CASE role = "minus"
    <3>1. PICK p \in Nat, m \in Nat, n \in Nat : SaidBackward(p, m, n)
      BY <2>1, <2>6 DEF LineInv
    <3>2. m <= pos
      BY <1>1, <3>1 DEF SaidBackward
    <3>3. \A j \in p + 1 .. pos : line[j].kind # "+"
      <4>1. \A j \in Int : j \in p + 1 .. pos => j \in p + 1 .. pos - 1 \/ j = pos
        BY <1>1
      <4> QED BY <2>1, <3>1, <4>1 DEF SaidBackward, NoneOf
    <3>4. PICK q \in Nat : q = pos
      BY <1>1
    <3>5. SaidBackward(p, m, q)'
      BY <2>1, <2>4, <3>1, <3>2, <3>3, <3>4 DEF SaidBackward, NoneOf
    <3> QED BY <2>1, <3>5 DEF LineInv
  <2> QED BY <2>3, <2>5, <2>6
<1>6. CASE ForwardName
  <2>1. /\ pos' = pos + 1 /\ line' = line /\ kind = "(" /\ role = "plus" /\ role' = role
        /\ section \in ArrowSections /\ section' = section
        /\ FWD_ARROW' = FWD_ARROW /\ FWD_INDEX' = InsertedPtr(arrows, name, FWD_ARROW)
        /\ arrows' = InsertArrowDirectory(arrows, section, name, FWD_ARROW, "+")
        /\ pos <= Len(line)
    BY <1>6 DEF ForwardName, Token, fileVars
  <2>2. PICK p \in Nat : SaidForward(p)
    BY <2>1 DEF LineInv
  <2>3. name \in AllNames /\ FWD_ARROW \in AllNames
    BY <1>1, <2>1, TokenHasName DEF ReaderOK
  <2>4. arrows.dir \in Seq(ArrowEntry) /\ Exact(arrows)
    BY DEF DirectoryInv, ReaderOK, DirectoryExact, Exact
  <2>5. Resolved(arrows', name, FWD_ARROW, FWD_INDEX')
    BY <2>1, <2>3, <2>4, InsertResolves
  <2>6. SaidForward(p)'
    BY <1>1, <2>1, <2>2, <2>5, ForwardStays
  <2> QED BY <2>1, <2>6 DEF LineInv
<1>7. CASE BackwardName
  <2>1. /\ pos' = pos + 1 /\ kind = "(" /\ role = "minus" /\ role' = role
        /\ section \in ArrowSections
        /\ UNCHANGED <<line, FWD_ARROW, BWD_ARROW, FWD_INDEX>>
    BY <1>7 DEF BackwardName, Token, fileVars, arrowVars
  <2>2. PICK p \in Nat, m \in Nat, n \in Nat : SaidBackward(p, m, n)
    BY <2>1 DEF LineInv
  <2>3. SaidBackward(p, m, n)'
    BY <2>1, <2>2, BackwardStays
  <2> QED BY <2>1, <2>3 DEF LineInv
<1>8. CASE Ignore
  <2>1. /\ pos' = pos + 1 /\ role' = role /\ section' = section /\ status' = status
        /\ UNCHANGED <<line, FWD_ARROW, BWD_ARROW, FWD_INDEX, arrows>>
        /\ section \in ArrowSections => kind \in {"text", "="}
    BY <1>8 DEF Ignore, Token, fileVars, arrowVars, tableVars, ArrowSections
  <2>2. CASE section \in ArrowSections
    <3>1. role = "plus" => \E p \in Nat : SaidForward(p)'
      BY <1>1, <2>1, <2>2, ForwardStays DEF LineInv
    <3>2. role = "minus" => \E p, m, n \in Nat : SaidBackward(p, m, n)'
      BY <2>1, <2>2, BackwardStays DEF LineInv
    <3>3. pos' > 1 /\ line[pos' - 1].kind # "("
      BY <1>1, <2>1, <2>2 DEF kind
    <3> QED BY <2>1, <2>2, <3>1, <3>2, <3>3 DEF LineInv
  <2> QED BY <2>1, <2>2 DEF LineInv
<1>9. CASE Exit
  <2>1. /\ status' = "exited" /\ role' = role /\ section' = section
        /\ section \in ArrowSections => role \notin {"plus", "minus"}
    BY <1>9, ArrowsAssumption DEF Exit, Misplaced, ArrowSections, TypedSections, SectionNames
  <2> QED BY <2>1 DEF LineInv
<1>10. CASE NewFile \/ \E l \in Lines : NextLine(l)
  BY <1>10 DEF NewFile, NextLine, LineInv
<1>11. CASE Similar \/ SimilarName \/ Mark \/ MarkArrow \/ Compose \/ Operator \/ AddArrowClosure
  <2>1. section' = section /\ section \in {"similarity", "annotations", "closures"}
    BY <1>11 DEF Similar, SimilarName, Mark, MarkArrow, Compose, Operator, AddArrowClosure, Token
  <2> QED BY <2>1 DEF LineInv, ArrowSections
<1> QED BY <1>2, <1>3, <1>4, <1>5, <1>6, <1>7, <1>8, <1>9, <1>10, <1>11 DEF Next

(* Every step keeps the inverses as the lines say. *)
LEMMA NextKeepsInverses ==
    ASSUME DirectoryInv, DirectoryInv', Extends(arrows, arrows'), InverseInv, [Next]_vars
    PROVE  InversesIn(arrows, written)' /\ SettledAll(arrows, written)'
<1>1. /\ arrows.dir \in Seq(ArrowEntry) /\ Exact(arrows)
      /\ InversesIn(arrows, written) /\ SettledAll(arrows, written) /\ ReaderOK
  BY DEF DirectoryInv, ReaderOK, DirectoryExact, Exact, InverseInv
<1>2. ASSUME UNCHANGED <<arrows, written>>
      PROVE  InversesIn(arrows, written)' /\ SettledAll(arrows, written)'
  <2>1. InversesIn(arrows', written') /\ SettledAll(arrows', written')
    BY <1>1, <1>2
  <2> QED BY <2>1
<1>3. CASE AddMandatory
  <2>1. Mandatory[loaded + 1] \in [sect : ArrowSections, fwd : Names \X Names, bwd : Names \X Names]
    <3>1. Mandatory \in Seq([sect : ArrowSections, fwd : Names \X Names, bwd : Names \X Names])
      BY ArrowsAssumption
    <3>2. loaded + 1 \in 1 .. Len(Mandatory)
      BY <1>1, <1>3, <3>1 DEF AddMandatory, ReaderOK
    <3> QED BY <3>1, <3>2, ElementOfSeq
  <2> DEFINE p == Mandatory[loaded + 1]
  <2>2. arrows' = InsertPair(arrows, p) /\ written' = written \cup {<<p.fwd, p.bwd>>}
    BY <1>3 DEF AddMandatory
  <2> HIDE DEF p
  <2>3. SettledAll(arrows', written') /\ InversesIn(arrows', written')
    BY <1>1, <2>1, <2>2, InsertPairInverses DEF p
  <2> QED BY <2>3
<1>4. CASE ForwardName
  <2>1. name \in AllNames /\ FWD_ARROW \in AllNames
    BY <1>1, <1>4, TokenHasName DEF ForwardName, Token, ReaderOK
  <2>2. arrows' = InsertArrowDirectory(arrows, section, name, FWD_ARROW, "+") /\ written' = written
    BY <1>4 DEF ForwardName
  <2>3. SettledAll(arrows', written') /\ InversesIn(arrows', written')
    BY <1>1, <2>1, <2>2, InsertKeepsInverses
  <2> QED BY <2>3
<1>5. CASE BackwardName
  <2> DEFINE d == InsertArrowDirectory(arrows, section, name, BWD_ARROW, "-")
             b == InsertedPtr(arrows, name, BWD_ARROW)
  <2>1. name \in AllNames /\ BWD_ARROW \in AllNames /\ kind = "(" /\ pos \in Nat
        /\ section \in ArrowSections /\ role = "minus"
    BY <1>1, <1>5, TokenHasName DEF BackwardName, Token, ReaderOK
  <2>2. /\ arrows' = InsertInverseArrowDirectory(d, FWD_INDEX, b)
        /\ written' = written \cup {LinePair}
    BY <1>5 DEF BackwardName
  <2>3. /\ d.dir \in Seq(ArrowEntry) /\ Exact(d) /\ Extends(arrows, d)
        /\ Resolved(d, name, BWD_ARROW, b)
        /\ SettledAll(d, written) /\ InversesIn(d, written)
    BY <1>1, <2>1, InsertKeepsExact, InsertResolves, InsertKeepsInverses
  <2> HIDE DEF d, b
  <2>4. PICK p \in Nat, m \in Nat, n \in Nat : SaidBackward(p, m, n)
    BY <2>1 DEF InverseInv, LineInv
  <2> DEFINE w == <<<<line[m - 1].name, line[p].name>>, <<name, line[n].name>>>>
  <2>5. LinePair = w
    BY <2>1, <2>4, LinePairIs
  <2>6. Resolved(d, line[m - 1].name, line[p].name, FWD_INDEX) /\ BWD_ARROW = line[n].name
    BY <1>1, <2>3, <2>4, ResolvedStays DEF SaidBackward
  <2>7. Resolved(d, w[1][1], w[1][2], FWD_INDEX) /\ Resolved(d, w[2][1], w[2][2], b)
    BY <2>3, <2>6
  <2> HIDE DEF w
  <2> DEFINE e == InsertInverseArrowDirectory(d, FWD_INDEX, b)
  <2>8. SettledAll(e, written \cup {w}) /\ InversesIn(e, written \cup {w})
    BY <2>3, <2>7, InverseWritten
  <2>9. arrows' = e /\ written' = written \cup {w}
    BY <2>2, <2>5
  <2> HIDE DEF e
  <2>10. SettledAll(arrows', written') /\ InversesIn(arrows', written')
    BY <2>8, <2>9
  <2> QED BY <2>10
<1>6. CASE SimilarName
  <2> DEFINE d == InsertArrowDirectory(arrows, section, name, BWD_ARROW, "both")
             b == InsertedPtr(arrows, name, BWD_ARROW)
             w == <<<<name, BWD_ARROW>>, <<name, BWD_ARROW>>>>
  <2>1. name \in AllNames /\ BWD_ARROW \in AllNames
    BY <1>1, <1>6, TokenHasName DEF SimilarName, Token, ReaderOK
  <2>2. /\ arrows' = InsertInverseArrowDirectory(d, b, b)
        /\ written' = written \cup {w}
    BY <1>6 DEF SimilarName
  <2>3. /\ d.dir \in Seq(ArrowEntry) /\ Exact(d)
        /\ Resolved(d, name, BWD_ARROW, b)
        /\ SettledAll(d, written) /\ InversesIn(d, written)
    BY <1>1, <2>1, InsertKeepsExact, InsertResolves, InsertKeepsInverses
  <2> HIDE DEF d, b
  <2>4. Resolved(d, w[1][1], w[1][2], b) /\ Resolved(d, w[2][1], w[2][2], b)
    BY <2>3
  <2> HIDE DEF w
  <2> DEFINE e == InsertInverseArrowDirectory(d, b, b)
  <2>5. SettledAll(e, written \cup {w}) /\ InversesIn(e, written \cup {w})
    BY <2>3, <2>4, InverseWritten
  <2>6. arrows' = e /\ written' = written \cup {w}
    BY <2>2
  <2> HIDE DEF e
  <2>7. SettledAll(arrows', written') /\ InversesIn(arrows', written')
    BY <2>5, <2>6
  <2> QED BY <2>7
<1>7. CASE StartSection \/ Forward \/ Backward \/ Similar \/ Ignore \/ Mark \/ Compose \/ Operator
  BY <1>2, <1>7 DEF StartSection, Forward, Backward, Similar, Ignore, Mark, Compose, Operator, tableVars
<1>8. CASE MarkArrow \/ AddArrowClosure \/ Exit \/ NewFile \/ EndConfig
  BY <1>2, <1>8 DEF MarkArrow, AddArrowClosure, Exit, NewFile, EndConfig, tableVars
<1>9. CASE (\E l \in Lines : NextLine(l)) \/ UNCHANGED vars
  BY <1>2, <1>9 DEF NextLine, vars, tableVars
<1> QED BY <1>3, <1>4, <1>5, <1>6, <1>7, <1>8, <1>9 DEF Next

(* INVERSE_ARROWS is what the lines of the files say, whatever they hold:  *)
(* an inverse comes from a line with both arrows, also when FWD_INDEX is   *)
(* older than the line, and a line that no other contradicts has its way.  *)
THEOREM InversesComeFromLines == Spec => []InversesAsWritten
<1>1. InversesIn(arrows, written) => InversesAsWritten
  BY DEF InversesIn, FromLines, LinesHold, PairingsOf, AcceptedBy, EndsIn,
     InversesAsWritten, Pairings, Accepted, Ends
<1>2. Init => InverseInv
  <2> SUFFICES ASSUME Init PROVE InverseInv
    OBVIOUS
  <2>1. written = {} /\ DOMAIN arrows.inverse = {} /\ section = NoName
    BY DEF Init, EmptyDirectory
  <2>2. PairingsOf(arrows, written) = {}
    BY <2>1 DEF PairingsOf
  <2>3. InversesIn(arrows, written) /\ SettledAll(arrows, written)
    BY <2>1, <2>2 DEF InversesIn, FromLines, LinesHold, SettledAll
  <2>4. LineInv
    BY <2>1 DEF LineInv, ArrowSections, NoName
  <2> QED BY <2>3, <2>4 DEF InverseInv
<1>3. DirectoryInv /\ [Next]_vars => DirectoryInv'
  BY NextKeepsExact
<1>4. DirectoryInv /\ InverseInv /\ [Next]_vars => InverseInv'
  <2> SUFFICES ASSUME DirectoryInv, InverseInv, [Next]_vars PROVE InverseInv'
    OBVIOUS
  <2>1. DirectoryInv' /\ Extends(arrows, arrows') /\ LineInv
    BY NextKeepsExact DEF InverseInv
  <2> QED BY <2>1, NextKeepsLine, NextKeepsInverses DEF InverseInv
<1>5. InverseInv => InversesIn(arrows, written)
  BY DEF InverseInv
<1> QED BY InitExact, <1>1, <1>2, <1>3, <1>4, <1>5, PTL DEF Spec
-----------------------------------------------------------------------------
(* The inference rules.  While the section is that of closures, the items  *)
(* are the composed names of the line so far; elsewhere there are none.    *)

(* The items is, each at the place of its name. *)
ItemsOf(is, names) ==
    /\ Len(is) = Cardinality(names)
    /\ \A i \in names : is[Cardinality(Before(names, i)) + 1] = line[i].name

RuleInv ==
    /\ items \in Seq(AllNames)
    /\ ARROW_CLOSURES \in Seq([Sequence : Seq(Int), Result : Int])
    /\ status = "reading" =>
         IF section = "closures"
         THEN /\ role \in {"blank", "section", "composition", "result"}
              /\ role = "blank" => pos = 1
              /\ role = "result" <=> Introduced(pos)
              /\ ItemsOf(items, Composed(pos - 1))
         ELSE items = <<>>

LEMMA ComposedFinite ==
    ASSUME NEW to \in Int
    PROVE  IsFiniteSet(Composed(to))
<1>1. IsFiniteSet(1 .. to)
  BY FS_Interval
<1>2. Composed(to) \subseteq 1 .. to
  BY DEF Composed
<1> QED BY <1>1, <1>2, FS_Subset

(* A name that no "=" introduces is composed; any other token but a title  *)
(* leaves the composed names as they are.                                  *)
LEMMA ComposedGrows ==
    ASSUME pos \in Nat \ {0}
    PROVE  /\ kind = "(" /\ ~Introduced(pos) =>
                   Composed(pos) = Composed(pos - 1) \cup {pos}
           /\ kind # "-" /\ (kind # "(" \/ Introduced(pos)) =>
                   Composed(pos) = Composed(pos - 1)
           /\ kind = "-" => Composed(pos) = {}
           /\ pos \notin Composed(pos - 1)
<1>1. \A i \in Int : i \in 1 .. pos <=> i \in 1 .. pos - 1 \/ i = pos
  OBVIOUS
<1>2. \A i \in 1 .. pos - 1 : \A k \in Int : k \in i .. pos <=> k \in i .. pos - 1 \/ k = pos
  OBVIOUS
<1>3. \A k \in pos .. pos : k = pos
  OBVIOUS
<1>4. ASSUME kind = "(", ~Introduced(pos)
      PROVE  Composed(pos) = Composed(pos - 1) \cup {pos}
  BY <1>1, <1>2, <1>3, <1>4 DEF Composed, kind
<1>5. ASSUME kind # "-", kind # "(" \/ Introduced(pos)
      PROVE  Composed(pos) = Composed(pos - 1)
  BY <1>1, <1>2, <1>3, <1>5 DEF Composed, kind
<1>6. ASSUME kind = "-"
      PROVE  Composed(pos) = {}
  <2>1. \A i \in 1 .. pos : pos \in i .. pos
    OBVIOUS
  <2> QED BY <1>6, <2>1 DEF Composed, kind
<1>7. pos \notin Composed(pos - 1)
  BY DEF Composed
<1> QED BY <1>4, <1>5, <1>6, <1>7

(* What introduces the token after pos. *)
LEMMA IntroducedNext ==
    ASSUME pos \in Nat \ {0}
    PROVE  /\ kind = "=" => Introduced(pos + 1)
           /\ kind \in {"+", "-"} => ~Introduced(pos + 1)
           /\ kind \in {"(", "text"} => (Introduced(pos + 1) <=> Introduced(pos))
<1>0. pos + 1 - 1 = pos
  OBVIOUS
<1>1. \A j \in Int : j \in 1 .. pos <=> j \in 1 .. pos - 1 \/ j = pos
  OBVIOUS
<1>2. \A j \in 1 .. pos - 1 : \A k \in Int : k \in j .. pos <=> k \in j .. pos - 1 \/ k = pos
  OBVIOUS
<1>3. \A k \in pos .. pos : k = pos
  OBVIOUS
<1>4. ASSUME kind = "=" PROVE Introduced(pos + 1)
  <2>1. pos \in 1 .. pos + 1 - 1
    OBVIOUS
  <2> QED BY <1>0, <1>3, <1>4, <2>1 DEF Introduced, kind
<1>5. ASSUME kind \in {"+", "-"} PROVE ~Introduced(pos + 1)
  <2>1. \A j \in 1 .. pos : pos \in j .. pos
    OBVIOUS
  <2> QED BY <1>0, <1>5, <2>1 DEF Introduced, kind
<1>6. ASSUME kind \in {"(", "text"} PROVE Introduced(pos + 1) <=> Introduced(pos)
  BY <1>0, <1>1, <1>2, <1>3, <1>6 DEF Introduced, kind
<1> QED BY <1>4, <1>5, <1>6

(* The place of a member of a set of numbers. *)
LEMMA PlaceInside ==
    ASSUME NEW S, IsFiniteSet(S), S \subseteq Int, NEW i \in S
    PROVE  Cardinality(Before(S, i)) + 1 \in 1 .. Cardinality(S)
<1> DEFINE B == Before(S, i)
<1>1. B \subseteq S /\ i \notin B /\ B \cup {i} \subseteq S
  BY DEF Before
<1> HIDE DEF B
<1>2. IsFiniteSet(B) /\ Cardinality(B) \in Nat
  BY <1>1, FS_Subset, FS_CardinalityType
<1>3. Cardinality(B \cup {i}) = Cardinality(B) + 1
  BY <1>1, <1>2, FS_AddElement
<1>4. Cardinality(B \cup {i}) <= Cardinality(S) /\ Cardinality(S) \in Nat
  BY <1>1, FS_Subset, FS_CardinalityType
<1> QED BY <1>2, <1>3, <1>4 DEF B

(* A composed name is appended at its place. *)
LEMMA ItemAdded ==
    ASSUME NEW is \in Seq(AllNames), pos \in Nat \ {0}, ItemsOf(is, Composed(pos - 1)),
           name \in AllNames, kind = "(", ~Introduced(pos)
    PROVE  ItemsOf(Append(is, name), Composed(pos))
<1> DEFINE N == Composed(pos - 1)
<1>1. Composed(pos) = N \cup {pos} /\ pos \notin N
  BY ComposedGrows
<1>2. IsFiniteSet(N) /\ N \subseteq 1 .. pos - 1
  BY ComposedFinite DEF Composed
<1>3. Len(is) = Cardinality(N) /\ \A i \in N : is[Cardinality(Before(N, i)) + 1] = line[i].name
  BY DEF ItemsOf
<1> HIDE DEF N
<1> DEFINE M == N \cup {pos}
<1>4. Cardinality(M) = Cardinality(N) + 1 /\ Cardinality(N) \in Nat
  BY <1>1, <1>2, FS_AddElement, FS_CardinalityType
<1>5. Len(Append(is, name)) = Len(is) + 1 /\ Append(is, name)[Len(is) + 1] = name
      /\ \A n \in 1 .. Len(is) : Append(is, name)[n] = is[n]
  OBVIOUS
<1>6. Append(is, name)[Cardinality(Before(M, pos)) + 1] = line[pos].name
  <2>1. Before(M, pos) = N
    <3>1. \A j \in N : j \in Int /\ j < pos
      BY <1>2
    <3>2. ~(pos < pos)
      OBVIOUS
    <3> QED BY <1>1, <3>1, <3>2 DEF Before
  <2> QED BY <1>3, <1>5, <2>1 DEF name
<1>7. ASSUME NEW i \in N
      PROVE  Append(is, name)[Cardinality(Before(M, i)) + 1] = line[i].name
  <2> DEFINE B == Before(N, i)
  <2>1. Before(M, i) = B
    BY <1>1, <1>2 DEF Before
  <2>2. Cardinality(B) + 1 \in 1 .. Len(is)
    <3>1. IsFiniteSet(N) /\ N \subseteq Int
      BY <1>2
    <3>2. Cardinality(Before(N, i)) + 1 \in 1 .. Cardinality(N)
      BY <3>1, PlaceInside
    <3> QED BY <1>3, <3>2
  <2>3. is[Cardinality(B) + 1] = line[i].name
    BY <1>3
  <2> HIDE DEF B
  <2> QED BY <1>5, <2>1, <2>2, <2>3
<1> HIDE DEF M
<1>8. ItemsOf(Append(is, name), M)
  <2>1. Len(Append(is, name)) = Cardinality(M)
    BY <1>3, <1>4, <1>5
  <2>2. \A i \in M : i = pos \/ i \in N
    BY DEF M
  <2> QED BY <1>6, <1>7, <2>1, <2>2 DEF ItemsOf
<1> QED BY <1>1, <1>8 DEF M

LEMMA NoItemsOfNone ==
    ASSUME NEW is \in Seq(AllNames), ItemsOf(is, {})
    PROVE  is = <<>>
<1>1. Len(is) = 0
  BY FS_EmptySet DEF ItemsOf
<1> QED BY <1>1

(* The items are used for nothing but rules. *)
LEMMA RuleStays ==
    ASSUME RuleInv, UNCHANGED <<items, ARROW_CLOSURES, section, line>>,
           status' = "reading" => \/ section # "closures" /\ status = "reading"
                                  \/ UNCHANGED <<status, role, pos>>
    PROVE  RuleInv'
<1>1. UNCHANGED <<line, pos, items>> =>
        /\ Introduced(pos)' = Introduced(pos)
        /\ ItemsOf(items, Composed(pos - 1))' = ItemsOf(items, Composed(pos - 1))
  BY DEF Introduced, ItemsOf, Composed, Before
<1> QED BY <1>1 DEF RuleInv

(* The token at pos is read. *)
LEMMA RuleNext ==
    ASSUME pos \in Nat \ {0}, pos' = pos + 1, line' = line, items' \in Seq(AllNames),
           ARROW_CLOSURES' \in Seq([Sequence : Seq(Int), Result : Int]),
           role' \in {"section", "composition", "result"},
           role' = "result" <=> Introduced(pos + 1),
           ItemsOf(items', Composed(pos)),
           section' = "closures" \/ items' = <<>>
    PROVE  RuleInv'
<1>1. pos' - 1 = pos
  OBVIOUS
<1>2. Introduced(pos)' <=> Introduced(pos + 1)
  BY DEF Introduced
<1>3. Composed(pos - 1)' = Composed(pos)
  BY <1>1 DEF Composed, Introduced
<1> DEFINE N == Composed(pos)
<1>4. ItemsOf(items, Composed(pos - 1))'
  <2>1. Len(items') = Cardinality(N) /\ \A i \in N : items'[Cardinality(Before(N, i)) + 1] = line[i].name
    BY DEF ItemsOf
  <2>2. Composed(pos - 1)' = N
    BY <1>3
  <2> HIDE DEF N
  <2> QED BY <2>1, <2>2 DEF ItemsOf, Before
<1> QED BY <1>2, <1>4 DEF RuleInv

LEMMA NextKeepsRule ==
    ASSUME DirectoryInv, RuleInv, [Next]_vars
    PROVE  RuleInv'
<1>1. pos \in Nat \ {0} /\ pos + 1 - 1 = pos /\ ReaderOK
  BY DEF DirectoryInv, ReaderOK
<1>c. /\ items \in Seq(AllNames)
      /\ ARROW_CLOSURES \in Seq([Sequence : Seq(Int), Result : Int])
  BY DEF RuleInv
<1>2. CASE AddMandatory \/ EndConfig \/ Exit \/ UNCHANGED vars
  BY <1>2, RuleStays DEF AddMandatory, EndConfig, Exit, vars, tableVars, arrowVars, fileVars, Token
<1>3. CASE Forward \/ Backward \/ ForwardName \/ BackwardName
  BY <1>3, RuleStays DEF Forward, Backward, ForwardName, BackwardName, Token, tableVars, arrowVars,
     fileVars, Reading, ArrowSections
<1>4. CASE Similar \/ SimilarName \/ Ignore \/ Mark \/ MarkArrow
  BY <1>4, RuleStays DEF Similar, SimilarName, Ignore, Mark, MarkArrow, Token, tableVars, arrowVars,
     fileVars, Reading, ArrowSections
<1>5. CASE NewFile \/ \E l \in Lines : NextLine(l)
  <2>1. items' = <<>> /\ ARROW_CLOSURES' = ARROW_CLOSURES /\ pos' = 1 /\ role' = "blank"
    BY <1>5 DEF NewFile, NextLine, tableVars
  <2>2. ~Introduced(pos)' /\ Composed(pos - 1)' = {}
    BY <2>1 DEF Introduced, Composed
  <2>3. ItemsOf(items, Composed(pos - 1))'
    BY <2>1, <2>2, FS_EmptySet DEF ItemsOf
  <2> QED BY <1>c, <2>1, <2>2, <2>3 DEF RuleInv
<1>6. CASE StartSection
  <2>1. /\ items' = items /\ ARROW_CLOSURES' = ARROW_CLOSURES /\ pos' = pos + 1 /\ line' = line
        /\ role' = "section" /\ kind = "-" /\ role = "blank" /\ status = "reading"
    BY <1>6 DEF StartSection, StartsSection, Token, fileVars, tableVars, Reading
  <2>2. items = <<>>
    <3>1. CASE section = "closures"
      <4>1. pos = 1 /\ ItemsOf(items, Composed(pos - 1)) /\ items \in Seq(AllNames)
        BY <2>1, <3>1 DEF RuleInv
      <4>2. Composed(pos - 1) = {}
        BY <4>1 DEF Composed
      <4> QED BY <4>1, <4>2, NoItemsOfNone
    <3>2. CASE section # "closures"
      BY <2>1, <3>2 DEF RuleInv
    <3> QED BY <3>1, <3>2
  <2>3. Composed(pos) = {} /\ ~Introduced(pos + 1)
    BY <1>1, <2>1, ComposedGrows, IntroducedNext
  <2>4. ItemsOf(items, Composed(pos))
    BY <2>2, <2>3, FS_EmptySet DEF ItemsOf
  <2> QED BY <1>1, <1>c, <2>1, <2>2, <2>3, <2>4, RuleNext
<1>7. CASE Compose
  <2>1. /\ items' = Append(items, name) /\ ARROW_CLOSURES' = ARROW_CLOSURES /\ pos' = pos + 1
        /\ line' = line /\ role' = "composition" /\ kind = "(" /\ role # "result"
        /\ section = "closures" /\ section' = section /\ status = "reading" /\ pos <= Len(line)
    BY <1>7 DEF Compose, Token, fileVars, tableVars, Reading
  <2>2. ~Introduced(pos) /\ items \in Seq(AllNames) /\ ItemsOf(items, Composed(pos - 1))
    BY <2>1 DEF RuleInv
  <2>3. name \in AllNames
    BY <1>1, <2>1, TokenHasName
  <2>4. ItemsOf(items', Composed(pos)) /\ items' \in Seq(AllNames)
    BY <1>1, <2>1, <2>2, <2>3, ItemAdded
  <2>5. ~Introduced(pos + 1)
    BY <1>1, <2>1, <2>2, IntroducedNext
  <2> QED BY <1>1, <1>c, <2>1, <2>4, <2>5, RuleNext
<1>8. CASE Operator
  <2>1. /\ items' = items /\ ARROW_CLOSURES' = ARROW_CLOSURES /\ pos' = pos + 1
        /\ line' = line /\ role' = IF kind = "+" THEN "composition" ELSE "result"
        /\ kind \in {"+", "="}
        /\ section = "closures" /\ section' = section /\ status = "reading"
    BY <1>8 DEF Operator, Token, fileVars, tableVars, Reading
  <2>2. Composed(pos) = Composed(pos - 1) /\ (Introduced(pos + 1) <=> kind = "=")
    BY <1>1, <2>1, ComposedGrows, IntroducedNext
  <2>3. items \in Seq(AllNames) /\ ItemsOf(items, Composed(pos))
    BY <2>1, <2>2 DEF RuleInv
  <2>4. role' \in {"section", "composition", "result"} /\ (role' = "result" <=> kind = "=")
    BY <2>1
  <2> QED BY <1>1, <1>c, <2>1, <2>2, <2>3, <2>4, RuleNext
<1>9. CASE AddArrowClosure
  <2>1. /\ items' = items /\ ARROW_CLOSURES' = Append(ARROW_CLOSURES, Closure)
        /\ pos' = pos + 1 /\ line' = line /\ role = "result" /\ role' = role
        /\ kind = "(" /\ AllKnown
        /\ section = "closures" /\ section' = section /\ status = "reading"
    BY <1>9 DEF AddArrowClosure, Token, fileVars, tableVars, Reading
  <2>2. Introduced(pos) /\ items \in Seq(AllNames) /\ ItemsOf(items, Composed(pos - 1))
    BY <2>1 DEF RuleInv
  <2>3. Composed(pos) = Composed(pos - 1) /\ Introduced(pos + 1)
    BY <1>1, <2>1, <2>2, ComposedGrows, IntroducedNext
  <2>4. Closure \in [Sequence : Seq(Int), Result : Int]
    <3>1. GetLinkArrowByName(arrows, name) \in Int
      BY <2>1, MapsHoldNumbers DEF AllKnown, IsArrowName, GetLinkArrowByName
    <3>2. \A i \in DOMAIN items : GetLinkArrowByName(arrows, items[i]) \in Int
      BY <2>1, MapsHoldNumbers DEF AllKnown, IsArrowName, GetLinkArrowByName
    <3>3. DOMAIN items = 1 .. Len(items) /\ Len(items) \in Nat
      BY <2>2
    <3>4. [i \in DOMAIN items |-> GetLinkArrowByName(arrows, items[i])] \in Seq(Int)
      BY <3>2, <3>3
    <3> QED BY <3>1, <3>4 DEF Closure
  <2>5. ARROW_CLOSURES' \in Seq([Sequence : Seq(Int), Result : Int])
    BY <2>1, <2>4 DEF RuleInv
  <2> QED BY <1>1, <2>1, <2>2, <2>3, <2>5, RuleNext
<1> QED BY <1>2, <1>3, <1>4, <1>5, <1>6, <1>7, <1>8, <1>9 DEF Next

(* An inference rule is made of names of one line, in their order, and of  *)
(* nothing that a line before it left in the cache.                        *)
THEOREM RulesOfOneLine == Spec => ClosuresOfOneLine
<1>1. Init => RuleInv
  <2> SUFFICES ASSUME Init PROVE RuleInv
    OBVIOUS
  <2>1. items = <<>> /\ ARROW_CLOSURES = <<>> /\ section = ""
    BY DEF Init, NoName
  <2>2. \A S : <<>> \in Seq(S)
    OBVIOUS
  <2>3. items \in Seq(AllNames) /\ ARROW_CLOSURES \in Seq([Sequence : Seq(Int), Result : Int])
    BY <2>1, <2>2
  <2>4. section # "closures"
    BY <2>1
  <2> QED BY <2>1, <2>3, <2>4 DEF RuleInv
<1>2. DirectoryInv /\ [Next]_vars => DirectoryInv'
  BY NextKeepsExact
<1>3. DirectoryInv /\ RuleInv /\ [Next]_vars => RuleInv'
  BY NextKeepsRule
<1> DEFINE c == ARROW_CLOSURES'[Len(ARROW_CLOSURES')]
           names == Composed(pos)
           OfOneLine == /\ Len(c.Sequence) = Cardinality(names)
                        /\ \A i \in names : c.Sequence[Cardinality(Before(names, i)) + 1] =
                                                GetLinkArrowByName(arrows, line[i].name)
                        /\ c.Result = GetLinkArrowByName(arrows, line[pos].name)
<1>4. ASSUME DirectoryInv, RuleInv, AddArrowClosure
      PROVE  OfOneLine
  <2>1. /\ ARROW_CLOSURES' = Append(ARROW_CLOSURES, Closure) /\ role = "result" /\ kind = "("
        /\ section = "closures" /\ status = "reading" /\ pos \in Nat \ {0}
    BY <1>4 DEF AddArrowClosure, Token, Reading, DirectoryInv, ReaderOK
  <2>2. /\ Introduced(pos) /\ items \in Seq(AllNames) /\ ItemsOf(items, Composed(pos - 1))
        /\ ARROW_CLOSURES \in Seq([Sequence : Seq(Int), Result : Int])
    BY <1>4, <2>1 DEF RuleInv
  <2>3. names = Composed(pos - 1)
    BY <2>1, <2>2, ComposedGrows
  <2>4. c = Closure
    BY <2>1, <2>2
  <2>5. IsFiniteSet(names) /\ names \subseteq Int
    BY <2>1, ComposedFinite DEF Composed
  <2> HIDE DEF c, names
  <2>6. /\ Len(items) = Cardinality(names)
        /\ \A i \in names : items[Cardinality(Before(names, i)) + 1] = line[i].name
    BY <2>2, <2>3 DEF ItemsOf
  <2>7. /\ c.Sequence = [i \in DOMAIN items |-> GetLinkArrowByName(arrows, items[i])]
        /\ c.Result = GetLinkArrowByName(arrows, line[pos].name)
    BY <2>4 DEF Closure, name
  <2>8. DOMAIN items = 1 .. Len(items) /\ Len(items) \in Nat
    BY <2>2
  <2>9. Len(c.Sequence) = Len(items)
    BY <2>7, <2>8
  <2>10. ASSUME NEW i \in names
         PROVE  Cardinality(Before(names, i)) + 1 \in 1 .. Cardinality(names)
    BY <2>5, PlaceInside
  <2>11. \A i \in names : c.Sequence[Cardinality(Before(names, i)) + 1] =
                              GetLinkArrowByName(arrows, line[i].name)
    BY <2>6, <2>7, <2>8, <2>10
  <2> QED BY <2>6, <2>7, <2>9, <2>11
<1>5. ASSUME DirectoryInv, RuleInv, [Next]_vars, ARROW_CLOSURES' # ARROW_CLOSURES
      PROVE  AddArrowClosure
  BY <1>5 DEF Next, vars, tableVars, AddMandatory, StartSection, Forward, Backward, ForwardName,
     BackwardName, Similar, SimilarName, Ignore, Mark, MarkArrow, Compose, Operator, Exit, NewFile,
     EndConfig, NextLine
<1>6. DirectoryInv /\ RuleInv /\ [Next]_vars => [ARROW_CLOSURES' # ARROW_CLOSURES => OfOneLine]_vars
  BY <1>4, <1>5
<1> QED BY InitExact, <1>1, <1>2, <1>3, <1>6, PTL DEF Spec, ClosuresOfOneLine
=============================================================================
