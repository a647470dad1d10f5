------------------------ MODULE ChapterStore_proofs -------------------------
(***************************************************************************)
(* The invariants of ChapterStore for every set of texts and chapters,     *)
(* every bound and every lease size, provided that callers pass one        *)
(* chapter or none (SingleChapters).                                       *)
(***************************************************************************)
EXTENDS ChapterStore, TLAPS

(* No chapter occurs twice in a Chap list. *)
NoRepeats == \A p \in Live : \A c \in Chapters : node[p].Chap[c] <= 1

(* Every live id was issued, and ids are issued in increasing order below  *)
(* the stored counter.                                                     *)
IdsBelowCounter ==
    /\ Live \subseteq issued
    /\ \A p \in issued : p < seqStored

(* What a call in progress may rely on: between its transactions nobody    *)
(* else writes, so that what it looked up still holds.                     *)
CallInProgress ==
    /\ pc = "leased" =>
           /\ id \in Ids /\ id < seqStored
           /\ \A p \in issued : p < id
           /\ req.S # NoText => text[Fold[req.S]] = Missing
           /\ req.I \subseteq Live
           /\ req.Chap \in ChapArgs
    /\ pc = "written" => id \in Ids /\ \A p \in issued : p <= id

(* The inductive invariant. *)
Inv ==
    /\ TypeOK
    /\ TextIndexExact
    /\ ChapterIndexExact
    /\ NoDanglingLinks
    /\ NoRepeats
    /\ IdsBelowCounter
    /\ CallInProgress

(* The part of it that says what the keys and their indexes agree on; it   *)
(* holds for any client whose Chap strings name one chapter.               *)
IndexInv ==
    /\ TypeOK
    /\ TextIndexExact
    /\ ChapterIndexExact
    /\ NoRepeats

-----------------------------------------------------------------------------
(* The Chap string made of chapter c alone is a Chap list with the single  *)
(* token c, and determines c.                                              *)
LEMMA UnitProperties ==
    ASSUME NEW c \in Chapters
    PROVE  /\ Unit(c) \in ChapList
           /\ Unit(c) # NoChap
           /\ Tokens(Unit(c)) = {c}
           /\ \A d \in Chapters : Unit(c) = Unit(d) => c = d
<1>1. Unit(c) \in ChapList
  BY DEF Unit, ChapList
<1>2. \A d \in Chapters : Unit(c)[d] = IF d = c THEN 1 ELSE 0
  BY DEF Unit
<1>3. Unit(c) # NoChap
  BY <1>2 DEF NoChap
<1>4. Tokens(Unit(c)) = {c}
  BY <1>2 DEF Tokens
<1>5. ASSUME NEW d \in Chapters, Unit(c) = Unit(d)
      PROVE  c = d
  <2>1. Unit(d)[d] = 1
    BY DEF Unit
  <2> QED
    BY <1>2, <1>5, <2>1
<1> QED
  BY <1>1, <1>3, <1>4, <1>5

(* Appending a Chap string adds its tokens. *)
LEMMA JoinTokens ==
    ASSUME NEW chap \in ChapList, NEW arg \in ChapList
    PROVE  /\ JoinChap(chap, arg) \in ChapList
           /\ Tokens(JoinChap(chap, arg)) = Tokens(chap) \cup Tokens(arg)
<1>1. \A c \in Chapters : chap[c] \in Nat /\ arg[c] \in Nat
  BY DEF ChapList
<1>2. \A c \in Chapters : JoinChap(chap, arg)[c] = chap[c] + arg[c]
  BY DEF JoinChap
<1>3. JoinChap(chap, arg) \in ChapList
  BY <1>1 DEF JoinChap, ChapList
<1> QED
  BY <1>1, <1>2, <1>3 DEF Tokens

(* Appending a chapter that no token equals adds exactly that token.       *)
LEMMA JoinProperties ==
    ASSUME NEW chap \in ChapList, NEW c \in Chapters
    PROVE  /\ JoinChap(chap, Unit(c)) \in ChapList
           /\ Tokens(JoinChap(chap, Unit(c))) = Tokens(chap) \cup {c}
           /\ HasChap(chap, Unit(c)) <=> c \in Tokens(chap)
           /\ \A d \in Chapters : JoinChap(chap, Unit(c))[d] =
                                  chap[d] + (IF d = c THEN 1 ELSE 0)
<1>1. \A d \in Chapters : /\ chap[d] \in Nat
                          /\ Unit(c)[d] = IF d = c THEN 1 ELSE 0
  BY DEF ChapList, Unit
<1>2. \A d \in Chapters : JoinChap(chap, Unit(c))[d] =
                          chap[d] + (IF d = c THEN 1 ELSE 0)
  BY <1>1 DEF JoinChap
<1>3. JoinChap(chap, Unit(c)) \in ChapList
  BY <1>1 DEF JoinChap, ChapList
<1>4. Tokens(JoinChap(chap, Unit(c))) = Tokens(chap) \cup {c}
  BY <1>1, <1>2 DEF Tokens
<1>5. HasChap(chap, Unit(c)) <=> c \in Tokens(chap)
  BY UnitProperties DEF HasChap, Tokens
<1> QED
  BY <1>2, <1>3, <1>4, <1>5

(* Removing a chapter removes exactly its token. *)
LEMMA RemoveProperties ==
    ASSUME NEW chap \in ChapList, NEW c \in Chapters
    PROVE  /\ RemoveChap(chap, c) \in ChapList
           /\ Tokens(RemoveChap(chap, c)) = Tokens(chap) \ {c}
           /\ \A d \in Chapters : RemoveChap(chap, c)[d] <= chap[d]
BY DEF RemoveChap, ChapList, Tokens

-----------------------------------------------------------------------------
LEMMA InitInv == Init => Inv
<1> SUFFICES ASSUME Init PROVE Inv
  OBVIOUS
<1> USE ConstantsAssumption DEF Init
<1>1. NoReq \in Node
  BY DEF NoReq, NoChap, Node, ChapList
<1>2. Live = {}
  BY DEF Live
<1>3. TypeOK
  BY <1>1 DEF TypeOK, Missing
<1>4. TextIndexExact /\ ChapterIndexExact /\ NoDanglingLinks /\ NoRepeats
  BY <1>2 DEF TextIndexExact, ChapterIndexExact, NoDanglingLinks, NoRepeats
<1>5. IdsBelowCounter /\ CallInProgress
  BY <1>2 DEF IdsBelowCounter, CallInProgress
<1> QED
  BY <1>3, <1>4, <1>5 DEF Inv

(* A token that is not there has the count 0. *)
LEMMA AbsentIsZero ==
    ASSUME NEW chap \in ChapList, NEW c \in Chapters, c \notin Tokens(chap)
    PROVE  chap[c] = 0
BY DEF Tokens, ChapList

-----------------------------------------------------------------------------
(* AddNode of a known text, whatever its Chap: the only change is in the   *)
(* chapters of the node its text leads to.                                 *)
LEMMA AddExistingEffect ==
    ASSUME TypeOK, TextIndexExact, NEW n, n.S \in Texts, n.Chap \in ChapList, AddExisting(n)
    PROVE  /\ TypeOK' /\ TextIndexExact' /\ Live' = Live
           /\ text[Fold[n.S]] \in Live
           /\ chapIdx \subseteq chapIdx'
           /\ \A q \in Live :
                /\ node'[q].S = node[q].S /\ node'[q].I = node[q].I
                /\ Tokens(node'[q].Chap) = Tokens(node[q].Chap) \cup
                       (IF q = text[Fold[n.S]] THEN Tokens(n.Chap) ELSE {})
<1> DEFINE p == text[Fold[n.S]]
           e == node[p]
           joined == JoinChap(e.Chap, n.Chap)
<1> USE ConstantsAssumption
<1>1. UNCHANGED <<text, pm, seqStored, pc, req, id, issued>>
  BY DEF AddExisting
<1>2. /\ Fold[n.S] \in Keys /\ p \in Live /\ p \in Ids
      /\ e \in Node /\ ReadNode(p) = e
  <2>1. Fold[n.S] \in Keys /\ p # Missing
    BY DEF AddExisting, Found, Keys
  <2>2. p \in Ids /\ p \in Live
    BY <2>1 DEF TypeOK, TextIndexExact, Live
  <2> QED
    BY <2>1, <2>2 DEF TypeOK, Live, ReadNode
<1>3. e.Chap \in ChapList /\ Live \subseteq Ids
  BY <1>2 DEF Node, Live
<1>4. CASE n.Chap = NoChap \/ HasChap(e.Chap, n.Chap)
  <2>1. UNCHANGED <<node, chapIdx>>
    BY <1>2, <1>4 DEF AddExisting
  <2>2. Live' = Live
    BY <2>1 DEF Live
  <2>3. Tokens(n.Chap) \subseteq Tokens(e.Chap)
    <3>1. CASE n.Chap = NoChap
      BY <3>1 DEF Tokens, NoChap
    <3>2. CASE HasChap(e.Chap, n.Chap)
      <4>1. PICK c \in Tokens(e.Chap) : n.Chap = Unit(c)
        BY <3>2 DEF HasChap
      <4> QED
        BY <4>1, UnitProperties DEF Tokens
    <3> QED
      BY <1>4, <3>1, <3>2
  <2>4. TypeOK' /\ TextIndexExact'
    BY <1>1, <2>1, <2>2 DEF TypeOK, TextIndexExact
  <2> QED
    BY <1>2, <2>1, <2>2, <2>3, <2>4
<1>5. CASE n.Chap # NoChap /\ ~HasChap(e.Chap, n.Chap)
  <2>1. /\ node' = [node EXCEPT ![p] = [S |-> e.S, Chap |-> joined, I |-> e.I]]
        /\ chapIdx' = chapIdx \cup {<<n.Chap, p>>}
    BY <1>2, <1>5 DEF AddExisting
  <2>2. joined \in ChapList /\ Tokens(joined) = Tokens(e.Chap) \cup Tokens(n.Chap)
    <3> HIDE DEF e
    <3> QED
      BY <1>3, JoinTokens
  <2>3. /\ node'[p] = [S |-> e.S, Chap |-> joined, I |-> e.I]
        /\ \A q \in Ids : q # p => node'[q] = node[q]
    BY <1>2, <2>1 DEF TypeOK
  <2>4. /\ node'[p].S = e.S /\ node'[p].Chap = joined /\ node'[p].I = e.I
        /\ node'[p] \in Node /\ node'[p] # NoNode
    <3>1. e.S \in Texts \cup {NoText} /\ e.I \in SUBSET Ids
      BY <1>2 DEF Node
    <3> HIDE DEF p, e, joined
    <3>2. node'[p] \in Node
      BY <2>2, <2>3, <3>1 DEF Node
    <3> QED
      BY <2>3, <3>2
  <2>5. Live' = Live
    BY <1>2, <2>3, <2>4 DEF Live
  <2>6. TypeOK'
    <3>1. node' \in [Ids -> Node \cup {NoNode}]
      BY <1>2, <2>1, <2>3, <2>4 DEF TypeOK
    <3>2. chapIdx' \subseteq ChapList \X Ids
      BY <1>2, <2>1 DEF TypeOK
    <3> QED
      BY <1>1, <3>1, <3>2 DEF TypeOK
  <2>7. node[p] = e
    OBVIOUS
  <2> HIDE DEF p, e, joined
  <2>8. \A q \in Live : node'[q].S = node[q].S /\ node'[q].I = node[q].I
    BY <1>3, <2>3, <2>4, <2>7
  <2>9. TextIndexExact'
    BY <1>1, <2>5, <2>8 DEF TextIndexExact, Live, TypeOK
  <2>10. \A q \in Live : Tokens(node'[q].Chap) = Tokens(node[q].Chap) \cup
                              (IF q = p THEN Tokens(n.Chap) ELSE {})
    BY <1>3, <2>2, <2>3, <2>4, <2>7
  <2> QED
    BY <1>2, <2>1, <2>5, <2>6, <2>8, <2>9, <2>10 DEF p
<1> QED
  BY <1>4, <1>5

(* A label of one chapter keeps the chapter index exact. *)
LEMMA AddExistingIndex ==
    ASSUME IndexInv, NEW n, n.S \in Texts, AddExisting(n),
           n.Chap = NoChap \/ \E c \in Chapters : n.Chap = Unit(c)
    PROVE  IndexInv'
<1> DEFINE p == text[Fold[n.S]]
           e == node[p]
<1> USE ConstantsAssumption DEF IndexInv
<1>1. n.Chap \in ChapList
  BY UnitProperties DEF NoChap, ChapList
<1>2. /\ TypeOK' /\ TextIndexExact' /\ Live' = Live
      /\ p \in Live /\ Live \subseteq Ids
      /\ e.Chap \in ChapList /\ ReadNode(p) = e
      /\ \A q \in Live : Tokens(node'[q].Chap) = Tokens(node[q].Chap) \cup
                              (IF q = p THEN Tokens(n.Chap) ELSE {})
  <2>1. /\ TypeOK' /\ TextIndexExact' /\ Live' = Live /\ p \in Live
        /\ \A q \in Live : Tokens(node'[q].Chap) = Tokens(node[q].Chap) \cup
                                (IF q = p THEN Tokens(n.Chap) ELSE {})
    BY <1>1, AddExistingEffect
  <2>2. Live \subseteq Ids /\ e \in Node /\ e # NoNode
    BY <2>1 DEF Live, TypeOK
  <2> HIDE DEF p
  <2> QED
    BY <2>1, <2>2 DEF Node, ReadNode
<1>3. CASE UNCHANGED <<node, chapIdx>>
  BY <1>2, <1>3 DEF ChapterIndexExact, NoRepeats
<1>4. CASE /\ n.Chap # NoChap /\ ~HasChap(e.Chap, n.Chap)
           /\ node' = [node EXCEPT ![p] = [S |-> e.S, Chap |-> JoinChap(e.Chap, n.Chap), I |-> e.I]]
           /\ chapIdx' = chapIdx \cup {<<n.Chap, p>>}
  <2>1. PICK c \in Chapters : n.Chap = Unit(c)
    BY <1>4
  <2>2. Tokens(n.Chap) = {c} /\ chapIdx' = chapIdx \cup {<<Unit(c), p>>}
    BY <1>4, <2>1, UnitProperties
  <2>3. ChapterIndexExact'
    <3> HIDE DEF p, e
    <3>1. ASSUME NEW x \in chapIdx'
          PROVE  x[2] \in Live' /\ \E d \in Tokens(node'[x[2]].Chap) : x[1] = Unit(d)
      <4>1. CASE x \in chapIdx
        BY <1>2, <4>1 DEF ChapterIndexExact
      <4>2. CASE x = <<Unit(c), p>>
        BY <1>2, <2>2, <4>2
      <4> QED
        BY <2>2, <4>1, <4>2
    <3>2. ASSUME NEW q \in Live', NEW d \in Tokens(node'[q].Chap)
          PROVE  <<Unit(d), q>> \in chapIdx'
      BY <1>2, <2>2, <3>2 DEF ChapterIndexExact
    <3> QED
      BY <3>1, <3>2 DEF ChapterIndexExact
  <2>4. NoRepeats'
    <3>1. \A d \in Chapters : e.Chap[d] \in Nat /\ e.Chap[d] <= 1
      BY <1>2 DEF NoRepeats, ChapList
    <3>2. e.Chap[c] = 0
      <4>1. c \notin Tokens(e.Chap)
        BY <1>4, <2>1 DEF HasChap
      <4> QED
        BY <1>2, <4>1, AbsentIsZero
    <3>3. \A d \in Chapters : JoinChap(e.Chap, n.Chap)[d] = e.Chap[d] + (IF d = c THEN 1 ELSE 0)
      BY <2>1 DEF JoinChap, Unit
    <3>4. /\ node'[p].Chap = JoinChap(e.Chap, n.Chap)
          /\ \A q \in Ids : q # p => node'[q] = node[q]
      <4>1. p \in Ids
        BY <1>2
      <4> QED
        BY <1>4, <4>1 DEF TypeOK
    <3> HIDE DEF p, e
    <3>5. \A d \in Chapters : node'[p].Chap[d] <= 1
      BY <3>1, <3>2, <3>3, <3>4
    <3> QED
      BY <1>2, <3>4, <3>5 DEF NoRepeats
  <2> QED
    BY <1>2, <2>3, <2>4
<1> QED
  BY <1>2, <1>3, <1>4 DEF AddExisting

LEMMA AddExistingInv ==
    ASSUME Inv, SingleChapters, NEW n \in Requests, AddExisting(n)
    PROVE  Inv'
<1> USE ConstantsAssumption
<1>1. n.S \in Texts /\ (n.Chap = NoChap \/ \E c \in Chapters : n.Chap = Unit(c))
  BY DEF AddExisting, Found, Requests, SingleChapters
<1>2. n.Chap \in ChapList
  BY DEF Requests
<1>3. IndexInv /\ IndexInv'
  <2>1. IndexInv
    BY DEF Inv, IndexInv
  <2> QED
    BY <1>1, <2>1, AddExistingIndex
<1>4. Live' = Live /\ chapIdx \subseteq chapIdx'
      /\ \A q \in Live : node'[q].I = node[q].I
  BY <1>1, <1>2, <1>3, AddExistingEffect DEF IndexInv
<1>5. UNCHANGED <<text, pm, seqStored, pc, req, id, issued>>
  BY DEF AddExisting
<1>6. NoDanglingLinks'
  BY <1>4, <1>5 DEF Inv, NoDanglingLinks
<1>7. IdsBelowCounter' /\ CallInProgress'
  BY <1>4, <1>5 DEF Inv, IdsBelowCounter, CallInProgress
<1> QED
  BY <1>3, <1>6, <1>7 DEF Inv, IndexInv

(* What is said of the keys holds while the keys are left alone. *)
LEMMA KeysUntouched ==
    ASSUME UNCHANGED <<node, text, chapIdx>>,
           TextIndexExact, ChapterIndexExact, NoDanglingLinks, NoRepeats
    PROVE  TextIndexExact' /\ ChapterIndexExact' /\ NoDanglingLinks' /\ NoRepeats'
<1>1. Live' = Live
  BY DEF Live
<1>2. TextIndexExact'
  BY <1>1 DEF TextIndexExact
<1>3. ChapterIndexExact'
  BY <1>1 DEF ChapterIndexExact
<1> QED
  BY <1>1, <1>2, <1>3 DEF NoDanglingLinks, NoRepeats

(* The steps of AddNode that touch neither nodes nor indexes: the lease,   *)
(* its release, a crash.                                                   *)
LEMMA AddLeaseInv ==
    ASSUME Inv, NEW n \in Requests, AddLease(n)
    PROVE  Inv'
<1> USE ConstantsAssumption DEF Inv, AddLease
<1>1. Live' = Live /\ GetChapterNames' = GetChapterNames
  BY DEF Live, GetChapterNames
<1>2. n \in Node /\ n.I \subseteq Live /\ n.Chap \in ChapArgs
  BY DEF Requests, Node, Live
<1>3. TypeOK'
  BY <1>2 DEF TypeOK, Ids
<1>4. TextIndexExact' /\ ChapterIndexExact' /\ NoDanglingLinks' /\ NoRepeats'
  BY KeysUntouched
<1>5. IdsBelowCounter'
  BY <1>1 DEF IdsBelowCounter, TypeOK, Ids
<1>6. CallInProgress'
  BY <1>1, <1>2 DEF CallInProgress, IdsBelowCounter, TypeOK, Ids, Found
<1> QED
  BY <1>3, <1>4, <1>5, <1>6

LEMMA AddReleaseInv ==
    ASSUME Inv, AddRelease
    PROVE  Inv'
<1> USE ConstantsAssumption DEF Inv, AddRelease
<1>1. Live' = Live /\ GetChapterNames' = GetChapterNames
  BY DEF Live, GetChapterNames
<1>2. NoReq \in Node
  BY DEF NoReq, NoChap, Node, ChapList
<1>3. TypeOK'
  BY <1>2 DEF TypeOK, CallInProgress, Ids
<1>4. TextIndexExact' /\ ChapterIndexExact' /\ NoDanglingLinks' /\ NoRepeats'
  BY KeysUntouched
<1>5. IdsBelowCounter' /\ CallInProgress'
  BY <1>1 DEF IdsBelowCounter, CallInProgress, TypeOK, Ids
<1> QED
  BY <1>3, <1>4, <1>5

LEMMA CrashInv ==
    ASSUME Inv, Crash
    PROVE  Inv'
<1> USE ConstantsAssumption DEF Inv, Crash
<1>1. Live' = Live /\ GetChapterNames' = GetChapterNames
  BY DEF Live, GetChapterNames
<1>2. NoReq \in Node
  BY DEF NoReq, NoChap, Node, ChapList
<1>3. TypeOK'
  BY <1>2 DEF TypeOK
<1>4. TextIndexExact' /\ ChapterIndexExact' /\ NoDanglingLinks' /\ NoRepeats'
  BY KeysUntouched
<1>5. IdsBelowCounter' /\ CallInProgress'
  BY <1>1 DEF IdsBelowCounter, CallInProgress
<1> QED
  BY <1>3, <1>4, <1>5

(* The insert itself: one fresh node, its text key, its chapter keys. *)
LEMMA AddWriteEffect ==
    ASSUME TypeOK, TextIndexExact, AddWrite, id \in Ids, id \notin Live,
           req.S # NoText => text[Fold[req.S]] = Missing
    PROVE  /\ TypeOK' /\ TextIndexExact'
           /\ Live' = Live \cup {id}
           /\ node'[id] = req /\ req # NoNode /\ req \in Node
           /\ \A q \in Ids : q # id => node'[q] = node[q]
<1> USE ConstantsAssumption
<1>1. /\ id \in Ids /\ id \notin Live
      /\ req \in Node
      /\ req.S # NoText => req.S \in Texts /\ text[Fold[req.S]] = Missing
  BY DEF TypeOK, Node
<1>2. /\ node'[id] = req /\ req # NoNode
      /\ \A q \in Ids : q # id => node'[q] = node[q]
      /\ Live' = Live \cup {id}
  BY <1>1 DEF AddWrite, TypeOK, Live
<1>3. UNCHANGED <<pm, seqStored, req, id>> /\ pc' = "written"
      /\ issued' = issued \cup {id}
  BY DEF AddWrite
<1>4. chapIdx' = chapIdx \cup ChapKeys(req.Chap, id)
  BY DEF AddWrite
<1>5. TypeOK'
  <2>1. node' \in [Ids -> Node \cup {NoNode}]
    BY <1>1 DEF AddWrite, TypeOK
  <2>2. text' \in [Keys -> Ids \cup {Missing}]
    BY <1>1 DEF AddWrite, TypeOK
  <2>3. chapIdx' \subseteq ChapList \X Ids
    BY <1>1, <1>4, UnitProperties DEF TypeOK, ChapKeys, Tokens
  <2> QED
    BY <1>1, <1>3, <2>1, <2>2, <2>3 DEF TypeOK
<1>6. TextIndexExact'
  <2>1. CASE req.S = NoText
    BY <1>1, <1>2, <2>1 DEF AddWrite, TextIndexExact, TypeOK, Live
  <2>2. CASE req.S # NoText
    <3> DEFINE k == Fold[req.S]
    <3>1. k \in Keys /\ text[k] = Missing
      BY <1>1, <2>2 DEF Keys
    <3>2. /\ text'[k] = id
          /\ \A j \in Keys : j # k => text'[j] = text[j]
      BY <2>2, <3>1 DEF AddWrite, TypeOK
    <3>3. ASSUME NEW j \in Keys, text'[j] # Missing
          PROVE  /\ node'[text'[j]] # NoNode /\ node'[text'[j]].S # NoText
                 /\ Fold[node'[text'[j]].S] = j
      <4>1. CASE j = k
        BY <1>2, <2>2, <3>2, <4>1
      <4>2. CASE j # k
        <5>1. text[j] # Missing /\ text[j] \in Ids /\ text[j] \in Live
          BY <3>2, <3>3, <4>2 DEF TextIndexExact, TypeOK, Live
        <5> QED
          BY <1>1, <1>2, <3>2, <4>2, <5>1 DEF TextIndexExact
      <4> QED
        BY <4>1, <4>2
    <3>4. ASSUME NEW q \in Live', node'[q].S # NoText
          PROVE  text'[Fold[node'[q].S]] = q
      <4>1. CASE q = id
        BY <1>2, <3>2, <4>1
      <4>2. CASE q # id
        <5>1. q \in Live /\ node'[q] = node[q]
          BY <1>2, <4>2 DEF Live
        <5>2. text[Fold[node[q].S]] = q
          BY <3>4, <5>1 DEF TextIndexExact
        <5>3. q # Missing /\ Fold[node[q].S] \in Keys
          BY <3>4, <5>1 DEF Live, TypeOK, Node, Keys, Ids, Missing
        <5> QED
          BY <3>1, <3>2, <5>1, <5>2, <5>3
      <4> QED
        BY <4>1, <4>2
    <3> QED
      BY <3>3, <3>4 DEF TextIndexExact
  <2> QED
    BY <2>1, <2>2
<1> QED
  BY <1>1, <1>2, <1>5, <1>6

LEMMA AddWriteIndex ==
    ASSUME IndexInv, AddWrite, id \in Ids, id \notin Live,
           req.S # NoText => text[Fold[req.S]] = Missing,
           req.Chap = NoChap \/ \E c \in Chapters : req.Chap = Unit(c)
    PROVE  IndexInv'
<1> USE ConstantsAssumption DEF IndexInv
<1>1. id \in Ids /\ id \notin Live
  OBVIOUS
<1>2. /\ TypeOK' /\ TextIndexExact'
      /\ node'[id] = req /\ req # NoNode /\ req \in Node
      /\ \A q \in Ids : q # id => node'[q] = node[q]
      /\ Live' = Live \cup {id}
  BY AddWriteEffect
<1>3. chapIdx' = chapIdx \cup ChapKeys(req.Chap, id)
  BY DEF AddWrite
<1>4. ChapterIndexExact'
  <2>1. ASSUME NEW x \in chapIdx'
        PROVE  x[2] \in Live' /\ \E d \in Tokens(node'[x[2]].Chap) : x[1] = Unit(d)
    <3>1. CASE x \in chapIdx
      BY <1>1, <1>2, <3>1 DEF ChapterIndexExact, Live
    <3>2. CASE x \in ChapKeys(req.Chap, id)
      BY <1>2, <3>2 DEF ChapKeys
    <3> QED
      BY <1>3, <3>1, <3>2
  <2>2. ASSUME NEW q \in Live', NEW d \in Tokens(node'[q].Chap)
        PROVE  <<Unit(d), q>> \in chapIdx'
    <3>1. CASE q = id
      BY <1>2, <1>3, <3>1 DEF ChapKeys
    <3>2. CASE q # id
      <4>1. q \in Live /\ node'[q] = node[q]
        BY <1>2, <3>2 DEF Live
      <4> QED
        BY <1>3, <4>1 DEF ChapterIndexExact
    <3> QED
      BY <3>1, <3>2
  <2> QED
    BY <2>1, <2>2 DEF ChapterIndexExact
<1>5. NoRepeats'
  <2>1. \A d \in Chapters : req.Chap[d] <= 1
    <3>1. CASE req.Chap = NoChap
      BY <3>1 DEF NoChap
    <3>2. ASSUME NEW c \in Chapters, req.Chap = Unit(c)
          PROVE  \A d \in Chapters : req.Chap[d] <= 1
      BY <3>2 DEF Unit
    <3> QED
      BY <3>1, <3>2
  <2> QED
    BY <1>2, <2>1 DEF NoRepeats, Live
<1> QED
  BY <1>2, <1>4, <1>5

LEMMA AddWriteInv ==
    ASSUME Inv, SingleChapters, AddWrite
    PROVE  Inv'
<1> USE ConstantsAssumption
<1>1. /\ id \in Ids /\ id \notin Live /\ id < seqStored
      /\ \A q \in issued : q < id
      /\ req.I \subseteq Live
      /\ req.Chap = NoChap \/ \E c \in Chapters : req.Chap = Unit(c)
      /\ req.S # NoText => text[Fold[req.S]] = Missing
  BY DEF AddWrite, Inv, CallInProgress, IdsBelowCounter, TypeOK, Ids, SingleChapters
<1>2. IndexInv'
  BY <1>1, AddWriteIndex DEF Inv, IndexInv
<1>3. /\ Live' = Live \cup {id} /\ node'[id] = req
      /\ \A q \in Ids : q # id => node'[q] = node[q]
  BY <1>1, AddWriteEffect DEF Inv
<1>4. /\ UNCHANGED <<pm, seqStored, req, id>> /\ pc' = "written"
      /\ issued' = issued \cup {id}
      /\ chapIdx \subseteq chapIdx'
  BY DEF AddWrite
<1>5. NoDanglingLinks'
  BY <1>1, <1>3 DEF Inv, NoDanglingLinks, Live
<1>6. IdsBelowCounter' /\ CallInProgress'
  <2>1. \A q \in issued : q \in Int /\ q < seqStored
    BY DEF Inv, TypeOK, Ids, IdsBelowCounter
  <2>2. \A q \in issued' : q <= id /\ q < seqStored'
    BY <1>1, <1>4, <2>1 DEF Ids
  <2> QED
    BY <1>1, <1>3, <1>4, <2>2 DEF Inv, IdsBelowCounter, CallInProgress
<1> QED
  BY <1>2, <1>5, <1>6 DEF Inv, IndexInv

LEMMA SavePageMapInv ==
    ASSUME Inv, NEW c \in Chapters, SavePageMap(c)
    PROVE  Inv'
<1> USE ConstantsAssumption DEF Inv, SavePageMap
<1>1. Live' = Live /\ GetChapterNames' = GetChapterNames
  BY DEF Live, GetChapterNames
<1>2. TypeOK'
  BY DEF TypeOK
<1>3. TextIndexExact' /\ ChapterIndexExact' /\ NoDanglingLinks' /\ NoRepeats'
      /\ IdsBelowCounter' /\ CallInProgress'
  BY <1>1 DEF TextIndexExact, ChapterIndexExact, NoDanglingLinks, NoRepeats,
     IdsBelowCounter, CallInProgress
<1> QED
  BY <1>2, <1>3

-----------------------------------------------------------------------------
(* What DeleteChapter reads: the index finds exactly the nodes of the      *)
(* chapter; those it deletes have no other chapter.                        *)
LEMMA DeleteSets ==
    ASSUME IndexInv, NEW c \in Chapters
    PROVE  /\ ReadIn(c) = {p \in Live : c \in Tokens(node[p].Chap)}
           /\ DeletePtrs(c) = {p \in Live : Tokens(node[p].Chap) = {c}}
           /\ UpdatePtrs(c) = ReadIn(c) \ DeletePtrs(c)
<1> USE DEF IndexInv
<1>1. ASSUME NEW p \in Live
      PROVE  /\ p \in Ids /\ node[p] \in Node /\ node[p].Chap \in ChapList
             /\ \A d \in Chapters : node[p].Chap[d] \in Nat /\ node[p].Chap[d] <= 1
  BY DEF Live, TypeOK, Node, ChapList, NoRepeats
<1>2. ASSUME NEW p \in Live
      PROVE  <<Unit(c), p>> \in chapIdx <=> c \in Tokens(node[p].Chap)
  <2>1. ASSUME <<Unit(c), p>> \in chapIdx
        PROVE  c \in Tokens(node[p].Chap)
    <3>1. PICK d \in Tokens(node[p].Chap) : Unit(c) = Unit(d)
      BY <2>1 DEF ChapterIndexExact
    <3> QED
      BY <3>1, UnitProperties DEF Tokens
  <2>2. c \in Tokens(node[p].Chap) => <<Unit(c), p>> \in chapIdx
    BY DEF ChapterIndexExact
  <2> QED
    BY <2>1, <2>2
<1>3. ReadIn(c) = {p \in Live : c \in Tokens(node[p].Chap)}
  BY <1>1, <1>2 DEF ReadIn, InChapter
<1>4. ASSUME NEW p \in Live, c \in Tokens(node[p].Chap)
      PROVE  AtMostOneToken(node[p].Chap) <=> Tokens(node[p].Chap) = {c}
  <2>1. \A d \in Tokens(node[p].Chap) : node[p].Chap[d] = 1
    BY <1>1 DEF Tokens
  <2> QED
    BY <1>4, <2>1 DEF AtMostOneToken
<1>5. DeletePtrs(c) = {p \in Live : Tokens(node[p].Chap) = {c}}
  BY <1>3, <1>4 DEF DeletePtrs
<1> QED
  BY <1>3, <1>5 DEF UpdatePtrs

(* What DeleteChapter leaves behind. *)
LEMMA DeleteEffect ==
    ASSUME IndexInv, NEW c \in Chapters, DeleteChapter(c)
    PROVE  /\ Live' = Live \ DeletePtrs(c)
           /\ \A p \in Live' :
                /\ p \in Ids
                /\ node'[p] \in Node
                /\ node'[p].S = node[p].S
                /\ node'[p].I = node[p].I \ DeletePtrs(c)
                /\ Tokens(node'[p].Chap) = Tokens(node[p].Chap) \ {c}
                /\ \A d \in Chapters : node'[p].Chap[d] <= node[p].Chap[d]
<1> USE ConstantsAssumption DEF IndexInv
<1>1. ASSUME NEW p \in Live \ DeletePtrs(c)
      PROVE  /\ p \in Ids
             /\ Survivor(p, c) \in Node
             /\ Survivor(p, c).S = node[p].S
             /\ Survivor(p, c).I = node[p].I \ DeletePtrs(c)
             /\ Tokens(Survivor(p, c).Chap) = Tokens(node[p].Chap) \ {c}
             /\ \A d \in Chapters : Survivor(p, c).Chap[d] <= node[p].Chap[d]
  <2>1. p \in Ids /\ node[p] \in Node /\ node[p].Chap \in ChapList
    BY DEF Live, TypeOK, Node
  <2>2. CASE p \in UpdatePtrs(c)
    <3>1. Survivor(p, c).Chap = RemoveChap(node[p].Chap, c)
      BY <2>2 DEF Survivor
    <3> QED
      BY <2>1, <2>2, <3>1, RemoveProperties DEF Survivor, Node
  <2>3. CASE p \notin UpdatePtrs(c)
    <3>1. Survivor(p, c).Chap = node[p].Chap
      BY <2>3 DEF Survivor
    <3>2. c \notin Tokens(node[p].Chap)
      BY <2>3, DeleteSets
    <3> QED
      BY <2>1, <2>3, <3>1, <3>2 DEF Survivor, Node, ChapList
  <2> QED
    BY <2>2, <2>3
<1>2. ASSUME NEW p \in Ids
      PROVE  node'[p] = IF p \in Live \ DeletePtrs(c) THEN Survivor(p, c) ELSE NoNode
  BY DEF DeleteChapter
<1>3. Live' = Live \ DeletePtrs(c)
  BY <1>1, <1>2 DEF Live
<1> QED
  BY <1>1, <1>2, <1>3

LEMMA DeleteChapterIndex ==
    ASSUME IndexInv, NEW c \in Chapters, DeleteChapter(c)
    PROVE  IndexInv'
<1> USE ConstantsAssumption DEF IndexInv
<1>1. UNCHANGED <<seqStored, pc, req, id, issued>> /\ pc = "idle"
  BY DEF DeleteChapter
<1>2. TypeOK'
  <2>1. node' \in [Ids -> Node \cup {NoNode}]
    <3>1. \A p \in Ids : node'[p] \in Node \cup {NoNode}
      BY DeleteEffect DEF Live
    <3> QED
      BY <3>1 DEF DeleteChapter
  <2>2. text' \in [Keys -> Ids \cup {Missing}]
    BY DEF DeleteChapter, TypeOK
  <2>3. chapIdx' \subseteq ChapList \X Ids /\ pm' \in [Chapters -> Nat]
    BY DEF DeleteChapter, TypeOK, DropRows
  <2> QED
    BY <1>1, <2>1, <2>2, <2>3 DEF TypeOK
<1>3. TextIndexExact'
  <2>1. \A k \in Keys : text'[k] = IF k \in DeletedKeys(c) THEN Missing ELSE text[k]
    BY DEF DeleteChapter
  <2>2. ASSUME NEW k \in Keys, text'[k] # Missing
        PROVE  /\ node'[text'[k]] # NoNode /\ node'[text'[k]].S # NoText
               /\ Fold[node'[text'[k]].S] = k
    <3>1. /\ k \notin DeletedKeys(c) /\ text'[k] = text[k]
          /\ text[k] \in Live /\ node[text[k]].S # NoText
          /\ Fold[node[text[k]].S] = k
      BY <2>1, <2>2 DEF TextIndexExact, TypeOK, Live
    <3>2. text[k] \notin DeletePtrs(c)
      BY <3>1 DEF DeletedKeys
    <3> QED
      BY <3>1, <3>2, DeleteEffect DEF Live
  <2>3. ASSUME NEW p \in Live', node'[p].S # NoText
        PROVE  text'[Fold[node'[p].S]] = p
    <3> DEFINE k == Fold[node[p].S]
    <3>1. /\ p \in Live /\ p \notin DeletePtrs(c)
          /\ node'[p].S = node[p].S /\ node[p].S # NoText
          /\ text[k] = p /\ k \in Keys
      BY <2>3, DeleteEffect DEF TextIndexExact, Live, TypeOK, Node, Keys
    <3>2. ASSUME k \in DeletedKeys(c)
          PROVE  FALSE
      <4>1. PICK q \in DeletePtrs(c) : node[q].S # NoText /\ k = Fold[node[q].S]
        BY <3>2 DEF DeletedKeys
      <4>2. q \in Live
        BY <4>1, DeleteSets
      <4> QED
        BY <3>1, <4>1, <4>2 DEF TextIndexExact
    <3> QED
      BY <2>1, <3>1, <3>2
  <2> QED
    BY <2>2, <2>3 DEF TextIndexExact
<1>4. ChapterIndexExact'
  <2>1. chapIdx' = chapIdx \ ({Unit(c)} \X ReadIn(c))
    BY DEF DeleteChapter
  <2>2. ASSUME NEW x \in chapIdx'
        PROVE  x[2] \in Live' /\ \E d \in Tokens(node'[x[2]].Chap) : x[1] = Unit(d)
    <3>1. x \in chapIdx /\ x[2] \in Live /\ x = <<x[1], x[2]>>
      BY <2>1 DEF ChapterIndexExact, TypeOK
    <3>2. PICK d \in Tokens(node[x[2]].Chap) : x[1] = Unit(d)
      BY <3>1 DEF ChapterIndexExact
    <3>3. d # c
      BY <2>1, <3>1, <3>2, DeleteSets
    <3>4. x[2] \notin DeletePtrs(c)
      BY <3>2, <3>3, DeleteSets
    <3> QED
      BY <3>1, <3>2, <3>3, <3>4, DeleteEffect
  <2>3. ASSUME NEW q \in Live', NEW d \in Tokens(node'[q].Chap)
        PROVE  <<Unit(d), q>> \in chapIdx'
    <3>1. q \in Live /\ d \in Tokens(node[q].Chap) /\ d # c /\ d \in Chapters
      BY DeleteEffect DEF Tokens
    <3>2. <<Unit(d), q>> \in chapIdx /\ Unit(d) # Unit(c)
      BY <3>1, UnitProperties DEF ChapterIndexExact
    <3> QED
      BY <2>1, <3>2
  <2> QED
    BY <2>2, <2>3 DEF ChapterIndexExact
<1>5. NoRepeats'
  <2>1. ASSUME NEW p \in Live', NEW d \in Chapters
        PROVE  node'[p].Chap[d] <= 1
    <3>1. p \in Live /\ node'[p].Chap[d] <= node[p].Chap[d] /\ node[p].Chap[d] <= 1
      BY DeleteEffect DEF NoRepeats
    <3>2. node'[p].Chap[d] \in Nat /\ node[p].Chap[d] \in Nat
      BY <3>1, DeleteEffect DEF Live, TypeOK, Node, ChapList
    <3> QED
      BY <3>1, <3>2
  <2> QED
    BY <2>1 DEF NoRepeats
<1> QED
  BY <1>2, <1>3, <1>4, <1>5

LEMMA DeleteChapterInv ==
    ASSUME Inv, NEW c \in Chapters, DeleteChapter(c)
    PROVE  Inv'
<1> USE ConstantsAssumption
<1>1. UNCHANGED <<seqStored, pc, req, id, issued>> /\ pc = "idle"
  BY DEF DeleteChapter
<1>2. IndexInv /\ IndexInv'
  BY DeleteChapterIndex DEF Inv, IndexInv
<1>3. NoDanglingLinks'
  BY <1>2, DeleteEffect DEF Inv, NoDanglingLinks
<1>4. IdsBelowCounter' /\ CallInProgress'
  BY <1>1, <1>2, DeleteEffect DEF Inv, IdsBelowCounter, CallInProgress
<1> QED
  BY <1>2, <1>3, <1>4 DEF Inv, IndexInv

LEMMA NextInv == SingleChapters /\ Inv /\ [Next]_vars => Inv'
<1> SUFFICES ASSUME SingleChapters, Inv, [Next]_vars
             PROVE  Inv'
  OBVIOUS
<1>1. ASSUME NEW n \in Requests, AddExisting(n) PROVE Inv'
  BY <1>1, AddExistingInv
<1>2. ASSUME NEW n \in Requests, AddLease(n) PROVE Inv'
  BY <1>2, AddLeaseInv
<1>3. ASSUME NEW c \in Chapters, DeleteChapter(c) PROVE Inv'
  BY <1>3, DeleteChapterInv
<1>4. ASSUME NEW c \in Chapters, SavePageMap(c) PROVE Inv'
  BY <1>4, SavePageMapInv
<1>5. CASE UNCHANGED vars
  <2>1. Live' = Live /\ GetChapterNames' = GetChapterNames
    BY <1>5 DEF vars, Live, GetChapterNames
  <2> QED
    BY <1>5, <2>1 DEF vars, Inv, TypeOK, TextIndexExact, ChapterIndexExact,
       NoDanglingLinks, NoRepeats, IdsBelowCounter, CallInProgress
<1> QED
  BY <1>1, <1>2, <1>3, <1>4, <1>5, AddWriteInv, AddReleaseInv, CrashInv DEF Next

(* The inductive invariant holds in every reachable state. *)
THEOREM StoreInvariant ==
    ASSUME SingleChapters
    PROVE  Spec => []Inv
<1>1. Init => Inv
  BY InitInv
<1>2. Inv /\ [Next]_vars => Inv'
  BY NextInv
<1> QED
  BY <1>1, <1>2, PTL DEF Spec

(* The store's keys are well-typed and its indexes exact, and its links    *)
(* lead to live nodes, through every sequence of inserts, deletions and    *)
(* crashes.                                                                *)
THEOREM StoreSafety ==
    ASSUME SingleChapters
    PROVE  Spec => [](TypeOK /\ TextIndexExact /\ ChapterIndexExact
                      /\ NoDanglingLinks)
<1>1. Inv => /\ TypeOK /\ TextIndexExact /\ ChapterIndexExact
             /\ NoDanglingLinks
  BY DEF Inv
<1> QED
  BY <1>1, StoreInvariant, PTL

-----------------------------------------------------------------------------
(* A step changes a text's pointer only to forget it. *)
LEMMA StablePointersStep ==
    ASSUME Inv, [Next]_vars, NEW k \in Keys, text[k] # Missing
    PROVE  text'[k] \in {text[k], Missing}
<1>1. ASSUME NEW n \in Requests, AddExisting(n) PROVE text'[k] = text[k]
  BY <1>1 DEF AddExisting
<1>2. ASSUME NEW n \in Requests, AddLease(n) PROVE text'[k] = text[k]
  BY <1>2 DEF AddLease
<1>3. ASSUME AddWrite PROVE text'[k] = text[k]
  <2>1. req.S # NoText => text[Fold[req.S]] = Missing
    BY <1>3 DEF AddWrite, Inv, CallInProgress
  <2> QED
    BY <1>3, <2>1 DEF AddWrite, Inv, TypeOK
<1>4. ASSUME NEW c \in Chapters, DeleteChapter(c) PROVE text'[k] \in {text[k], Missing}
  BY <1>4 DEF DeleteChapter
<1>5. ASSUME NEW c \in Chapters, SavePageMap(c) PROVE text'[k] = text[k]
  BY <1>5 DEF SavePageMap
<1> QED
  BY <1>1, <1>2, <1>3, <1>4, <1>5 DEF Next, vars, AddRelease, Crash

(* A pointer stays the pointer of its text until the text is deleted. *)
THEOREM PointersAreStable ==
    ASSUME SingleChapters
    PROVE  Spec => StablePointers
<1>1. Inv /\ [Next]_vars => [\A k \in Keys : text[k] # Missing =>
                                 text'[k] \in {text[k], Missing}]_vars
  BY StablePointersStep
<1> QED
  BY <1>1, StoreInvariant, PTL DEF Spec, StablePointers

(* Only the insert makes a node appear, under the id it was given. *)
LEMMA IdsNeverReusedStep ==
    ASSUME Inv, [Next]_vars, NEW p \in Ids, node[p] = NoNode, node'[p] # NoNode
    PROVE  p \notin issued
<1>1. ASSUME NEW n \in Requests, AddExisting(n) PROVE FALSE
  <2>1. Found(n) /\ Fold[n.S] \in Keys
    BY <1>1, ConstantsAssumption DEF AddExisting, Found, Requests, Keys
  <2>2. node[text[Fold[n.S]]] # NoNode
    BY <2>1 DEF Found, Inv, TextIndexExact
  <2>3. node'[p] = node[p]
    BY <1>1, <2>2 DEF AddExisting, Inv, TypeOK
  <2> QED
    BY <2>3
<1>2. ASSUME NEW n \in Requests, AddLease(n) PROVE FALSE
  BY <1>2 DEF AddLease
<1>3. ASSUME AddWrite PROVE p \notin issued
  BY <1>3 DEF AddWrite, Inv, CallInProgress, TypeOK, Ids
<1>4. ASSUME NEW c \in Chapters, DeleteChapter(c) PROVE FALSE
  BY <1>4 DEF DeleteChapter, Live
<1>5. ASSUME NEW c \in Chapters, SavePageMap(c) PROVE FALSE
  BY <1>5 DEF SavePageMap
<1> QED
  BY <1>1, <1>2, <1>3, <1>4, <1>5 DEF Next, vars, AddRelease, Crash

(* No id is written under twice, whatever leases leak in a crash. *)
THEOREM IdsAreFresh ==
    ASSUME SingleChapters
    PROVE  Spec => IdsNeverReused
<1>1. Inv /\ [Next]_vars => [\A p \in Ids : node[p] = NoNode /\ node'[p] # NoNode =>
                                 p \notin issued]_vars
  BY IdsNeverReusedStep
<1> QED
  BY <1>1, StoreInvariant, PTL DEF Spec, IdsNeverReused

(* Only the deletion of a chapter takes rows or index keys away, and it    *)
(* takes those of its own chapter: all rows, and all keys, since the index *)
(* holds no key of a node that is gone.                                    *)
LEMMA RowsStep ==
    ASSUME Inv, [Next]_vars, NEW d \in Chapters
    PROVE  /\ d \in GetChapterNames /\ d \notin GetChapterNames' => pm'[d] = 0
           /\ pm'[d] < pm[d] => d \in GetChapterNames /\ d \notin GetChapterNames'
<1> DEFINE Goal == /\ d \in GetChapterNames /\ d \notin GetChapterNames' => pm'[d] = 0
                   /\ pm'[d] < pm[d] => d \in GetChapterNames /\ d \notin GetChapterNames'
<1>1. pm[d] \in Nat
  BY DEF Inv, TypeOK
<1>2. ASSUME chapIdx \subseteq chapIdx', pm'[d] = pm[d] \/ pm'[d] = pm[d] + 1
      PROVE  Goal
  BY <1>1, <1>2 DEF GetChapterNames
<1>3. ASSUME NEW n \in Requests, AddExisting(n) PROVE Goal
  BY <1>2, <1>3 DEF AddExisting
<1>4. ASSUME NEW n \in Requests, AddLease(n) PROVE Goal
  BY <1>2, <1>4 DEF AddLease
<1>5. ASSUME AddWrite PROVE Goal
  BY <1>2, <1>5 DEF AddWrite
<1>6. ASSUME NEW c \in Chapters, DeleteChapter(c) PROVE Goal
  <2>1. CASE d = c
    <3>1. \A p \in Ids : <<Unit(d), p>> \in chapIdx => p \in ReadIn(d)
      BY DEF Inv, ChapterIndexExact, ReadIn, InChapter
    <3>2. d \in GetChapterNames /\ d \notin GetChapterNames'
      BY <1>6, <2>1, <3>1 DEF DeleteChapter, GetChapterNames, InChapter
    <3>3. pm'[d] = 0
      BY <1>6, <2>1 DEF DeleteChapter, DropRows, Inv, TypeOK
    <3> QED
      BY <3>2, <3>3
  <2>2. CASE d # c
    <3>1. pm'[d] = pm[d]
      BY <1>6, <2>2 DEF DeleteChapter, DropRows, Inv, TypeOK
    <3>2. \A p \in Ids : <<Unit(d), p>> \in chapIdx => <<Unit(d), p>> \in chapIdx'
      BY <1>6, <2>2, UnitProperties DEF DeleteChapter
    <3> QED
      BY <1>1, <3>1, <3>2 DEF GetChapterNames
  <2> QED
    BY <2>1, <2>2
<1>7. ASSUME NEW c \in Chapters, SavePageMap(c) PROVE Goal
  BY <1>1, <1>2, <1>7 DEF SavePageMap, Inv, TypeOK
<1>8. ASSUME AddRelease \/ Crash \/ UNCHANGED vars PROVE Goal
  BY <1>2, <1>8 DEF AddRelease, Crash, vars
<1> QED
  BY <1>3, <1>4, <1>5, <1>6, <1>7, <1>8 DEF Next

(* The rows of a chapter go with its last index key, and only then. *)
THEOREM PagesGoWithChapter ==
    ASSUME SingleChapters
    PROVE  Spec => RowsGoWithChapter
<1>1. Inv /\ [Next]_vars =>
        [\A c \in Chapters :
            /\ c \in GetChapterNames /\ c \notin GetChapterNames' => pm'[c] = 0
            /\ pm'[c] < pm[c] => /\ c \in GetChapterNames
                                /\ c \notin GetChapterNames']_vars
  BY RowsStep
<1> QED
  BY <1>1, StoreInvariant, PTL DEF Spec, RowsGoWithChapter

-----------------------------------------------------------------------------
(* The refinement.  A step that changes neither a text's pointer nor the   *)
(* tokens of the node it leads to is invisible to the chapter graph.       *)
PresentBar == {k \in Keys : text[k] # Missing}
MembersBar == [k \in Keys |-> MemberBar(k)]

LEMMA StutterStep ==
    ASSUME text' = text, \A k \in PresentBar : node'[text[k]] = node[text[k]]
    PROVE  PresentBar' = PresentBar /\ MembersBar' = MembersBar
<1>1. PresentBar' = PresentBar
  BY DEF PresentBar
<1>2. ASSUME NEW k \in Keys PROVE MemberBar(k)' = MemberBar(k)
  BY DEF MemberBar, ReadNode, PresentBar
<1> QED
  BY <1>1, <1>2 DEF MembersBar

(* AddNode of a known text adds the tokens of its Chap to that text. *)
LEMMA AddExistingMembers ==
    ASSUME TypeOK, TextIndexExact, NEW n, n.S \in Texts, n.Chap \in ChapList, AddExisting(n)
    PROVE  /\ PresentBar' = PresentBar
           /\ Fold[n.S] \in PresentBar
           /\ \A k \in Keys : MemberBar(k)' = MemberBar(k) \cup
                                  (IF k = Fold[n.S] THEN Tokens(n.Chap) ELSE {})
<1> DEFINE k0 == Fold[n.S]
           p == text[k0]
<1>1. /\ Live' = Live /\ p \in Live
      /\ \A q \in Live : Tokens(node'[q].Chap) = Tokens(node[q].Chap) \cup
                              (IF q = p THEN Tokens(n.Chap) ELSE {})
  BY AddExistingEffect
<1>2. text' = text /\ k0 \in Keys /\ text[k0] # Missing
  BY DEF AddExisting, Found, Keys
<1>3. ASSUME NEW k \in Keys, text[k] # Missing
      PROVE  text[k] \in Live /\ (text[k] = p <=> k = k0)
  <2>1. text[k] \in Live /\ (text[k] = text[k0] => k = k0)
    BY <1>2, <1>3 DEF TextIndexExact, TypeOK, Live
  <2> QED
    BY <2>1
<1> HIDE DEF p, k0
<1>4. ASSUME NEW k \in Keys
      PROVE  MemberBar(k)' = MemberBar(k) \cup (IF k = k0 THEN Tokens(n.Chap) ELSE {})
  <2>1. CASE text[k] = Missing
    BY <1>2, <2>1 DEF MemberBar
  <2>2. CASE text[k] # Missing
    <3>1. text[k] \in Live /\ text[k] \in Live'
      BY <1>1, <1>3, <2>2
    <3>2. /\ MemberBar(k) = Tokens(node[text[k]].Chap)
          /\ MemberBar(k)' = Tokens(node'[text[k]].Chap)
      BY <1>2, <2>2, <3>1 DEF MemberBar, ReadNode, Live
    <3> QED
      BY <1>1, <1>3, <2>2, <3>1, <3>2
  <2> QED
    BY <2>1, <2>2
<1> QED
  BY <1>2, <1>4 DEF PresentBar, k0

LEMMA AddExistingRefines ==
    ASSUME Inv, SingleChapters, NEW n \in Requests, AddExisting(n)
    PROVE  [Graph!Next]_<<PresentBar, MembersBar>>
<1> DEFINE k == Fold[n.S]
<1>1. n.S \in Texts /\ n.Chap \in ChapList /\ Fold[n.S] \in Keys
  BY ConstantsAssumption DEF AddExisting, Found, Requests, Keys
<1>2. /\ PresentBar' = PresentBar /\ k \in PresentBar
      /\ \A j \in Keys : MemberBar(j)' = MemberBar(j) \cup (IF j = k THEN Tokens(n.Chap) ELSE {})
  BY <1>1, AddExistingMembers DEF Inv
<1>3. Tokens(n.Chap) = {} \/ \E c \in Chapters : Tokens(n.Chap) = {c}
  <2>1. n.Chap = NoChap \/ \E c \in Chapters : n.Chap = Unit(c)
    BY DEF Requests, SingleChapters
  <2>2. Tokens(NoChap) = {}
    BY DEF Tokens, NoChap
  <2> QED
    BY <2>1, <2>2, UnitProperties
<1>4. MembersBar' = [MembersBar EXCEPT ![k] = @ \cup Tokens(n.Chap)]
  BY <1>1, <1>2 DEF MembersBar
<1>5. PresentBar' = PresentBar \cup {k}
  BY <1>2
<1> HIDE DEF k
<1>6. \A cs : Tokens(n.Chap) = cs => Graph!Insert(k, cs)
  BY <1>4, <1>5 DEF Graph!Insert, PresentBar, MembersBar
<1> QED
  BY <1>1, <1>3, <1>6 DEF Graph!Next, k

(* The insert files a text that was nowhere under the chapters asked for.  *)
LEMMA AddWriteMembers ==
    ASSUME TypeOK, TextIndexExact, AddWrite, id \in Ids, id \notin Live,
           req.S # NoText, text[Fold[req.S]] = Missing
    PROVE  /\ Fold[req.S] \in Keys /\ MemberBar(Fold[req.S]) = {}
           /\ PresentBar' = PresentBar \cup {Fold[req.S]}
           /\ \A k \in Keys : MemberBar(k)' = IF k = Fold[req.S] THEN Tokens(req.Chap)
                                               ELSE MemberBar(k)
<1> USE ConstantsAssumption
<1>1. /\ node'[id] = req /\ req # NoNode /\ req \in Node
      /\ \A q \in Ids : q # id => node'[q] = node[q]
  BY AddWriteEffect
<1>2. PICK k0 \in Keys : k0 = Fold[req.S]
  BY <1>1 DEF Node, Keys
<1>3. text[k0] = Missing /\ text' = [text EXCEPT ![k0] = id]
  BY <1>2 DEF AddWrite
<1>4. text'[k0] = id /\ \A j \in Keys : j # k0 => text'[j] = text[j]
  BY <1>3 DEF TypeOK
<1>5. id # Missing /\ \A k \in Keys : text[k] # Missing => text[k] \in Ids /\ text[k] # id
  BY DEF Ids, Missing, TextIndexExact, TypeOK, Live
<1>6. MemberBar(k0)' = Tokens(req.Chap) /\ MemberBar(k0) = {}
  BY <1>1, <1>3, <1>4, <1>5 DEF MemberBar, ReadNode
<1>7. ASSUME NEW j \in Keys, j # k0
      PROVE  MemberBar(j)' = MemberBar(j)
  BY <1>1, <1>4, <1>5, <1>7 DEF MemberBar, ReadNode
<1>8. PresentBar' = PresentBar \cup {k0}
  BY <1>4, <1>5 DEF PresentBar
<1> QED
  BY <1>2, <1>6, <1>7, <1>8

LEMMA AddWriteRefines ==
    ASSUME Inv, SingleChapters, AddWrite
    PROVE  [Graph!Next]_<<PresentBar, MembersBar>>
<1> USE ConstantsAssumption
<1>1. /\ id \in Ids /\ id \notin Live
      /\ req.S # NoText => text[Fold[req.S]] = Missing
      /\ req.Chap = NoChap \/ \E c \in Chapters : req.Chap = Unit(c)
  BY DEF AddWrite, Inv, CallInProgress, IdsBelowCounter, TypeOK, Ids, SingleChapters
<1>2. CASE req.S = NoText
  <2>1. text' = text /\ \A k \in PresentBar : node'[text[k]] = node[text[k]]
    <3>1. \A q \in Ids : q # id => node'[q] = node[q]
      BY <1>1, AddWriteEffect DEF Inv
    <3>2. \A k \in PresentBar : text[k] \in Live /\ text[k] \in Ids
      BY DEF PresentBar, Inv, TextIndexExact, TypeOK, Live
    <3> QED
      BY <1>1, <1>2, <3>1, <3>2 DEF AddWrite
  <2> QED
    BY <2>1, StutterStep
<1>3. CASE req.S # NoText
  <2>1. PICK k \in Keys : k = Fold[req.S]
    BY <1>1, <1>3, AddWriteMembers DEF Inv
  <2>2. /\ PresentBar' = PresentBar \cup {k} /\ MemberBar(k) = {}
        /\ \A j \in Keys : MemberBar(j)' = IF j = k THEN Tokens(req.Chap) ELSE MemberBar(j)
    BY <1>1, <1>3, <2>1, AddWriteMembers DEF Inv
  <2>3. MembersBar' = [MembersBar EXCEPT ![k] = @ \cup Tokens(req.Chap)]
    BY <2>2 DEF MembersBar
  <2>4. Tokens(req.Chap) = {} \/ \E c \in Chapters : Tokens(req.Chap) = {c}
    <3>1. Tokens(NoChap) = {}
      BY DEF Tokens, NoChap
    <3> QED
      BY <1>1, <3>1, UnitProperties
  <2>5. \A cs : Tokens(req.Chap) = cs => Graph!Insert(k, cs)
    BY <2>2, <2>3 DEF Graph!Insert, PresentBar, MembersBar
  <2> QED
    BY <2>4, <2>5 DEF Graph!Next
<1> QED
  BY <1>2, <1>3

(* DeleteChapter takes the chapter from every text, and forgets the texts  *)
(* that had no other.                                                      *)
LEMMA DeleteMembers ==
    ASSUME IndexInv, NEW c \in Chapters, DeleteChapter(c)
    PROVE  /\ \A k \in Keys : MemberBar(k)' = MemberBar(k) \ {c}
           /\ PresentBar' = {k \in PresentBar : MembersBar[k] # {c}}
<1> USE ConstantsAssumption DEF IndexInv
<1>1. \A k \in Keys : text'[k] = IF k \in DeletedKeys(c) THEN Missing ELSE text[k]
  BY DEF DeleteChapter
<1>2. ASSUME NEW k \in Keys, text[k] # Missing
      PROVE  /\ text[k] \in Live
             /\ MemberBar(k) = Tokens(node[text[k]].Chap)
             /\ k \in DeletedKeys(c) <=> MemberBar(k) = {c}
  <2>1. /\ text[k] \in Live /\ node[text[k]].S # NoText
        /\ Fold[node[text[k]].S] = k
    BY <1>2 DEF TextIndexExact, TypeOK, Live
  <2>2. MemberBar(k) = Tokens(node[text[k]].Chap)
    BY <1>2, <2>1 DEF MemberBar, ReadNode, Live
  <2>3. k \in DeletedKeys(c) => text[k] \in DeletePtrs(c)
    <3>1. ASSUME NEW q \in DeletePtrs(c), node[q].S # NoText, k = Fold[node[q].S]
          PROVE  text[k] = q
      BY <3>1, DeleteSets DEF TextIndexExact
    <3> QED
      BY <3>1 DEF DeletedKeys
  <2>4. text[k] \in DeletePtrs(c) => k \in DeletedKeys(c)
    BY <2>1 DEF DeletedKeys
  <2> QED
    BY <2>1, <2>2, <2>3, <2>4, DeleteSets
<1>3. PresentBar' = {k \in PresentBar : MembersBar[k] # {c}}
  <2>1. \A k \in Keys : MembersBar[k] = MemberBar(k)
    BY DEF MembersBar
  <2> QED
    BY <1>1, <1>2, <2>1 DEF PresentBar
<1>4. ASSUME NEW k \in Keys
      PROVE  MemberBar(k)' = MemberBar(k) \ {c}
  <2>1. CASE text[k] = Missing
    BY <1>1, <2>1 DEF MemberBar
  <2>2. CASE text[k] # Missing /\ k \in DeletedKeys(c)
    BY <1>1, <1>2, <2>2 DEF MemberBar
  <2>3. CASE text[k] # Missing /\ k \notin DeletedKeys(c)
    <3>1. /\ text'[k] = text[k] /\ text[k] \in Live
          /\ text[k] \notin DeletePtrs(c)
      BY <1>1, <1>2, <2>3, DeleteSets
    <3>2. /\ text[k] \in Live'
          /\ Tokens(node'[text[k]].Chap) = Tokens(node[text[k]].Chap) \ {c}
      BY <3>1, DeleteEffect
    <3>3. MemberBar(k)' = Tokens(node'[text[k]].Chap)
      BY <2>3, <3>1, <3>2 DEF MemberBar, ReadNode, Live
    <3> QED
      BY <1>2, <2>3, <3>2, <3>3
  <2> QED
    BY <2>1, <2>2, <2>3
<1> QED
  BY <1>3, <1>4

LEMMA DeleteChapterRefines ==
    ASSUME IndexInv, NEW c \in Chapters, DeleteChapter(c)
    PROVE  Graph!Delete(c)
<1>1. MembersBar' = [k \in Keys |-> MembersBar[k] \ {c}]
  BY DeleteMembers DEF MembersBar
<1> QED
  BY <1>1, DeleteMembers DEF Graph!Delete, PresentBar, MembersBar

LEMMA NextRefines ==
    ASSUME SingleChapters, Inv, [Next]_vars
    PROVE  [Graph!Next]_<<PresentBar, MembersBar>>
<1>1. ASSUME NEW n \in Requests, AddExisting(n)
      PROVE  [Graph!Next]_<<PresentBar, MembersBar>>
  BY <1>1, AddExistingRefines
<1>2. ASSUME AddWrite
      PROVE  [Graph!Next]_<<PresentBar, MembersBar>>
  BY <1>2, AddWriteRefines
<1>3. ASSUME NEW c \in Chapters, DeleteChapter(c)
      PROVE  [Graph!Next]_<<PresentBar, MembersBar>>
  <2>1. IndexInv
    BY DEF Inv, IndexInv
  <2> QED
    BY <1>3, <2>1, DeleteChapterRefines DEF Graph!Next
<1>4. ASSUME UNCHANGED <<node, text>>
      PROVE  [Graph!Next]_<<PresentBar, MembersBar>>
  BY <1>4, StutterStep
<1> QED
  BY <1>1, <1>2, <1>3, <1>4
     DEF Next, vars, AddLease, AddRelease, Crash, SavePageMap

(* The store implements the abstract chapter graph: idempotent inserts,    *)
(* shared nodes kept and exclusive nodes gone, whatever happens below.     *)
THEOREM StoreRefinesGraph ==
    ASSUME SingleChapters
    PROVE  Spec => ImplementsGraph
<1>1. Init => Graph!Init
  BY DEF Init, Graph!Init, MemberBar
<1>2. Inv /\ [Next]_vars => [Graph!Next]_Graph!vars
  BY NextRefines DEF Graph!vars, PresentBar, MembersBar
<1> QED
  BY <1>1, <1>2, StoreInvariant, PTL DEF Spec, ImplementsGraph, Graph!Spec
=============================================================================
