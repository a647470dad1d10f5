------------------------------ MODULE Searches -------------------------------
(***************************************************************************)
(* A search command from its words to its answer: searchN4L.go, and        *)
(* DecodeSearchField to MinMaxPolicy of SSTorytime.go.                     *)
(*                                                                         *)
(* A word is given by what the code asks of it: whether it splits the      *)
(* command (IsCommand), which keyword it is taken for (SomethingLike), its *)
(* number, its pieces between commas, the nodes it finds.  Empty sequences *)
(* stand for nil slices; the one slice of the code that is empty and not   *)
(* nil is the result of SolveNodePtrs.  From and To may be slices of one   *)
(* array (Shared), and what is appended to one is then written over the    *)
(* other: an append doubles the array of a slice that fills it, which is   *)
(* what the Go runtime does up to 512 words.  The command opens the store  *)
(* without arrows, so that ARROW_DIRECTORY is empty.                       *)
(***************************************************************************)
EXTENDS Integers, SequencesExt

CONSTANTS Words,
          IsCommand,     \* whether a word begins a part of the command
          SomethingLike, \* the keyword a word is taken for, or "text"
          Number,        \* its number, 0 if it does not begin with one
          Commas,        \* its pieces between commas
          Literal,       \* the words that are node pointers, with their node
          Matches,       \* the nodes whose text holds a word, as the text index lists them
          DiracNotation, \* the words <end|context|begin>, as <<begin, end, context>>, and
                         \* those it takes for bad notation, as <<>>
          Short, Exact,  \* the words of less than five letters, and those in exclamation marks
          Concepts,      \* the words CheckConceptQuery replaces (of its kinds, one)
          ConceptQuery, RemindQuery,   \* and what it and CheckRemindQuery put instead
          Sentences      \* the searches that are asked

Keywords == {"stats", "help", "chapter", "notes", "page", "range", "min", "max", "arrow", "context",
             "from", "to", "seq", "new", "never", "on", "finds", "remind"}
Anything == "any"
Wild == "%%"
To == "to"
Contents == "TableOfContents"
HelpChapter == "SSTorytime help"
RECENT == 4
NEVER == -1
EXPRESS == 3

ASSUME SearchesAssumption ==
    /\ IsCommand \in [Words -> BOOLEAN] /\ SomethingLike \in [Words -> Keywords \cup {"text"}]
    /\ Number \in [Words -> Int] /\ DOMAIN Matches = Words \ DOMAIN Literal
    /\ DOMAIN Commas = Words /\ \A w \in Words : Commas[w] \in Seq(Words \ DOMAIN Literal)
    /\ DOMAIN DiracNotation \cup Short \cup Exact \cup Concepts \subseteq Words
    /\ \A ws \in Sentences \cup {ConceptQuery, RemindQuery} : ws \in Seq(Words)
    /\ To \in Words => IsCommand[To] /\ SomethingLike[To] = "to"
    /\ \A w \in DOMAIN DiracNotation :
          /\ DiracNotation[w] \in {<<>>} \cup (Words \X Words \X Words)
          /\ SomethingLike[w] = "text" /\ ~IsCommand[w] /\ w \notin {Anything, Wild}

VARIABLES stage,      \* "start", "filling", "decoded", "answered", "exited" or "panicked"
          words, parts, c, p,   \* the command, its parts, and the word FillInParameters is at
          param,      \* SearchParameters
          answer      \* the handlers that were called, with the nodes they were given

vars == <<stage, words, parts, c, p, param, answer>>

-----------------------------------------------------------------------------
(* The parts of a command. *)

(* CheckRemindQuery and CheckConceptQuery; CheckHelpQuery never applies,   *)
(* as main ends every word with a space.                                   *)
Rewritten(ws) ==
    IF ws = <<>> THEN RemindQuery
    ELSE FlattenSeq([i \in DOMAIN ws |-> IF ws[i] \in Concepts THEN ConceptQuery ELSE <<ws[i]>>])

(* DecodeSearchField: a command word begins a part, but "to" does only as  *)
(* the first word.                                                         *)
Begins(ws, i) == IsCommand[ws[i]] /\ (i > 1 => ws[i] # To)
Segment(ws) ==
    LET segments[i \in 0 .. Len(ws)] ==
            IF i = 0 THEN <<<<>>>>
            ELSE LET ps == segments[i - 1]
                 IN  IF Begins(ws, i) THEN Append(ps, <<ws[i]>>)
                     ELSE [ps EXCEPT ![Len(ps)] = Append(@, ws[i])]
    IN  segments[Len(ws)]

EmptyParam == [Name |-> <<>>, From |-> <<>>, To |-> <<>>, Chapter |-> "", Context |-> <<>>,
               Arrows |-> <<>>, PageNr |-> 0, Range |-> 0, Min |-> <<>>, Max |-> <<>>,
               Finds |-> <<>>, Sequence |-> FALSE, Stats |-> FALSE, Horizon |-> 0,
               Shared |-> FALSE]   \* whether From and To are slices of one array

Init ==
    /\ stage = "start" /\ words \in Sentences /\ parts = <<>> /\ c = 1 /\ p = 1
    /\ param = EmptyParam /\ answer = <<>>

DecodeSearchField ==
    /\ stage = "start" /\ stage' = "filling"
    /\ words' = Rewritten(words) /\ parts' = Segment(words')
    /\ UNCHANGED <<c, p, param, answer>>

-----------------------------------------------------------------------------
(* FillInParameters: one action per case of its switch. *)

Part == parts[c]
Word == Part[p]
HasNext == p < Len(Part)
NextWord == Part[p + 1]

(* IsParam: the words from position i up to the next command word. *)
ParamsFrom(i) == LET stops == {j \in i .. Len(Part) : IsCommand[Part[j]]}
                 IN  SubSeq(Part, i, IF stops = {} THEN Len(Part) ELSE Min(stops) - 1)
Params == ParamsFrom(p + 1)
Star(ws) == [i \in DOMAIN ws |-> IF ws[i] = Anything THEN Wild ELSE ws[i]]

Split(ws) == FlattenSeq([i \in DOMAIN ws |-> Commas[ws[i]]])
SplitEnds(ws) == FlattenSeq([i \in DOMAIN ws |-> IF ws[i] \in DOMAIN Literal THEN <<ws[i]>> ELSE Commas[ws[i]]])

(* Whether a slice of n words is one of n2 without a longer array, and     *)
(* what other reads after ws was written into its array from place n + 1.  *)
Fits(n, n2) == \A k \in 0 .. n : ~(n <= 2 ^ k /\ 2 ^ k < n2)
Overwritten(other, n, ws) == [i \in DOMAIN other |-> IF n < i /\ i <= Len(ws) THEN ws[i] ELSE other[i]]

AppendFrom(q, ws) ==
    LET from == q.From \o ws
    IN  [q EXCEPT !.From = from, !.To = IF q.Shared THEN Overwritten(@, Len(q.From), from) ELSE @,
                  !.Shared = @ /\ Fits(Len(q.From), Len(from))]
AppendTo(q, ws) ==
    LET to == q.To \o ws
    IN  [q EXCEPT !.To = to, !.From = IF q.Shared THEN Overwritten(@, Len(q.To), to) ELSE @,
                  !.Shared = @ /\ Fits(Len(q.To), Len(to))]

OrphanAmongEnds(q, orphan) ==   \* slip: a word is kept only beside others
    IF q.To # <<>> THEN AppendTo(q, <<orphan>>)
    ELSE IF q.From # <<>> THEN AppendFrom(q, <<orphan>>)
    ELSE q

AddOrphan(q, orphan) ==
    IF q.To # <<>> THEN AppendTo(q, <<orphan>>)
    ELSE IF q.From # <<>> THEN AppendFrom(q, <<orphan>>)
    ELSE [q EXCEPT !.Name = Append(@, orphan)]

At(keywords) == stage = "filling" /\ c <= Len(parts) /\ p <= Len(Part) /\ SomethingLike[Word] \in keywords
Fill(q, next) == param' = q /\ p' = next /\ UNCHANGED <<stage, words, parts, c, answer>>
Stop == Len(Part) + 1

Flag ==
    \/ At({"stats"}) /\ Fill([param EXCEPT !.Stats = TRUE], p + 1)
    \/ At({"seq"}) /\ Fill([param EXCEPT !.Sequence = TRUE], p + 1)
    \/ At({"new"}) /\ Fill([param EXCEPT !.Horizon = RECENT], p + 1)
    \/ At({"never"}) /\ Fill([param EXCEPT !.Horizon = NEVER], p + 1)
    \/ At({"help"}) /\ Fill([param EXCEPT !.Chapter = HelpChapter, !.Name = <<Anything>>], p + 1)

(* The break of this case leaves the loop over the part. *)
Chapter == At({"chapter"}) /\ Fill([param EXCEPT !.Chapter = IF HasNext THEN Star(<<NextWord>>)[1] ELSE Contents], Stop)

NotesRepeated ==   \* slip: the loop does not move on
    /\ At({"notes"})
    /\ Fill([param EXCEPT !.PageNr = IF @ < 1 THEN 1 ELSE @], p)

(* The name of the chapter is read again as the next word. *)
Notes ==
    /\ At({"notes"})
    /\ Fill([param EXCEPT !.PageNr = IF @ < 1 THEN 1 ELSE @,
                          !.Chapter = IF HasNext THEN Star(<<NextWord>>)[1] ELSE @], p + 1)

Numeric ==
    /\ At({"page", "range", "min", "max"})
    /\ IF ~HasNext THEN Fill(AddOrphan(param, Word), p + 1)
       ELSE Fill(IF Number[NextWord] <= 0 THEN AddOrphan(AddOrphan(param, Word), NextWord)
                 ELSE CASE SomethingLike[Word] = "page"  -> [param EXCEPT !.PageNr = Number[NextWord]]
                        [] SomethingLike[Word] = "range" -> [param EXCEPT !.Range = Number[NextWord]]
                        [] SomethingLike[Word] = "min"   -> [param EXCEPT !.Min = Append(@, Number[NextWord])]
                        [] SomethingLike[Word] = "max"   -> [param EXCEPT !.Max = Append(@, Number[NextWord])],
                 p + 2)

Listed ==
    /\ At({"arrow", "context"})
    /\ IF ~HasNext THEN Fill(AddOrphan(param, Word), p + 1)
       ELSE Fill(IF SomethingLike[Word] = "arrow" THEN [param EXCEPT !.Arrows = @ \o Split(Params)]
                 ELSE [param EXCEPT !.Context = @ \o Split(Params)], p + 1 + Len(Params))

From ==
    /\ At({"from"})
    /\ Fill(AppendFrom(param, SplitEnds(Params)), p + 1 + Len(Params))

TargetsAfterFrom(q, ws) == [q EXCEPT !.To = q.From \o ws]   \* slip: as for a node pointer

(* The words after "to" in mid-part.  A node pointer is appended to From,  *)
(* and the result is To, which is From's array where that has room.        *)
Targets(q, ws) ==
    LET lits == {i \in DOMAIN ws : ws[i] \in DOMAIN Literal}
        before == AppendTo(q, SubSeq(ws, 1, Min(lits) - 1))
        to == before.From \o SubSeq(ws, Max(lits), Len(ws))
    IN  IF lits = {} THEN AppendTo(q, ws)
        ELSE [before EXCEPT !.To = to, !.Shared = Fits(Len(before.From), Len(to))]

ToNodes ==
    /\ At({"to"})
    /\ \/ /\ p > 1 /\ HasNext
          /\ LET q == IF param.From = <<>> THEN AppendFrom(param, <<Part[p - 1]>>) ELSE param
             IN  Fill(Targets(q, SplitEnds(Params)), p + 1 + Len(Params))
       \/ p = 1 /\ HasNext /\ Fill(AppendTo(param, Split(Params)), p + 1 + Len(Params))
       \/ ~HasNext /\ Fill(param, Stop)

About ==
    /\ At({"on"})
    /\ IF ~HasNext THEN Fill(AddOrphan(param, Word), p + 1)
       ELSE Fill(IF Params = <<>> THEN param
                 ELSE IF param.PageNr > 0 THEN [param EXCEPT !.Chapter = Last(Params)]
                 ELSE [param EXCEPT !.Name = @ \o Params], p + 1 + Len(Params))

Finds == At({"finds"}) /\ Fill([param EXCEPT !.Finds = @ \o Star(Params)], p + 1 + Len(Params))

(* The default case reads words up to a command, and the loop then skips   *)
(* that one, which can only be "to".                                       *)
Text ==
    /\ At({"text", "remind"})
    /\ LET ws == ParamsFrom(p) IN Fill([param EXCEPT !.Name = @ \o Star(ws)], p + Len(ws) + 1)

NextPart ==
    /\ stage = "filling" /\ c <= Len(parts) /\ p > Len(Part)
    /\ c' = c + 1 /\ p' = 1 /\ UNCHANGED <<stage, words, parts, param, answer>>

(* Wildcards beside other names are dropped, and the first name in Dirac   *)
(* notation becomes the ends of a path, or ends the process if it is bad.  *)
WithoutWildcards(names) ==
    LET rnames == FlattenSeq([i \in DOMAIN names |->
                                 IF names[i] \in {Wild, Anything} THEN <<>> ELSE <<names[i]>>])
    IN  IF rnames = <<>> THEN names ELSE rnames
Diracs(q) == {i \in DOMAIN q.Name : q.Name[i] \in DOMAIN DiracNotation}
FirstDirac(q) == DiracNotation[q.Name[Min(Diracs(q))]]
BadDirac(q) == Diracs(q) # {} /\ FirstDirac(q) = <<>>
WithDirac(q) ==
    IF Diracs(q) = {} THEN q
    ELSE LET d == FirstDirac(q)
         IN  [q EXCEPT !.Name = <<>>, !.From = <<d[1]>>, !.To = <<d[2]>>, !.Context = <<d[3]>>]

Decoded ==
    /\ stage = "filling" /\ c > Len(parts)
    /\ LET q == [param EXCEPT !.Name = WithoutWildcards(@)]
       IN  IF BadDirac(q) THEN stage' = "exited" /\ param' = q
           ELSE stage' = "decoded" /\ param' = WithDirac(q)
    /\ UNCHANGED <<words, parts, c, p, answer>>

-----------------------------------------------------------------------------
(* The dispatch of Search, in its order. *)

(* ArrowPtrFromArrowsNames over an empty directory: a name is no arrow, a  *)
(* number up to 3 a link type, another one the arrow -1.                   *)
arrowptrs == {-1 : w \in {u \in ToSet(param.Arrows) : Number[u] > EXPRESS}}
sttype == {Number[w] : w \in {u \in ToSet(param.Arrows) : Number[u] # 0 /\ Number[u] \in -EXPRESS .. EXPRESS}}
          \cup {-EXPRESS : a \in arrowptrs}

(* MinMaxPolicy.  Four minima or four maxima are compared one by one with  *)
(* the others, however many those are.                                     *)
MinMaxPanics == 4 \in {Len(param.Min), Len(param.Max)} /\ (Len(param.Min) < 4 \/ Len(param.Max) < 4)
minlimit == IF Len(param.Min) = 1 /\ Len(param.Max) \notin {0, 4} THEN param.Min[1] ELSE 1
AllExact(names) == \E w \in ToSet(names) : w \in Exact
maxlimit ==
    IF param.Chapter = Contents THEN 50
    ELSE IF param.Range > 0 THEN param.Range
    ELSE IF Len(param.Max) = 1 THEN param.Max[1]
    ELSE IF param.From # <<>> \/ param.To # <<>> \/ param.Sequence THEN 30
    ELSE IF Len(param.Name) < 3 /\ AllExact(param.Name) THEN 30
    ELSE IF ToSet(param.Name) \subseteq Short \cup DOMAIN Literal THEN 5
    ELSE 10

(* SearchNodesByName stops at the limit, for each name. *)
SearchNodesByName(w, limit) == ToSet(SubSeq(Matches[w], 1, IF limit < Len(Matches[w]) THEN limit ELSE Len(Matches[w])))
SolveNodePtrs(names) ==
    UNION {IF w \in DOMAIN Literal THEN {Literal[w]} ELSE SearchNodesByName(w, maxlimit) : w \in ToSet(names)}

name == param.Name # <<>>
from == param.From # <<>>
to == param.To # <<>>
context == param.Context # <<>>
chapter == param.Chapter # ""
pagenr == param.PageNr > 0
nodeptrs == SolveNodePtrs(param.Name)
leftptrs == SolveNodePtrs(param.From)
rightptrs == SolveNodePtrs(param.To)

(* The chapters whose pages are shown. *)
notes == IF chapter THEN {param.Chapter} ELSE IF name THEN ToSet(param.Name) ELSE {Wild}

Answer(kind, nodes, ends) ==
    [kind |-> kind, nodes |-> nodes, ends |-> ends, least |-> minlimit, limit |-> maxlimit]
NoNodes(kind) == Answer(kind, {}, {})

(* The handler of a search; PathSolve returns at once when the ends were   *)
(* not looked for, and nodeptrs is never nil, so that a cone starts there. *)
ShowMatchingChapter == (context \/ chapter) /\ ~name /\ ~param.Sequence /\ ~pagenr /\ ~(from \/ to)
FindOrbits == name /\ ~param.Sequence /\ ~pagenr
Conflict == name /\ (from \/ to)
PathSolve == from /\ to
CausalCones == (name \/ from \/ to) /\ ~pagenr /\ ~param.Sequence
ShowNotes == (name \/ chapter \/ context) /\ pagenr
Handler ==
    IF ShowMatchingChapter THEN NoNodes("chapters")
    ELSE IF FindOrbits THEN Answer("orbits", nodeptrs, {})
    ELSE IF PathSolve THEN IF pagenr \/ param.Sequence THEN NoNodes("nothing")
                           ELSE Answer("paths", leftptrs, rightptrs)
    ELSE IF CausalCones THEN Answer("cones", nodeptrs, {})
    ELSE IF ShowNotes THEN Answer("notes", notes, {})
    ELSE IF param.Sequence THEN Answer("stories", nodeptrs, {})
    ELSE IF arrowptrs \cup sttype # {} THEN NoNodes("arrows")
    ELSE NoNodes("nothing")

End(outcome, a) == stage' = outcome /\ answer' = a /\ UNCHANGED <<words, parts, c, p, param>>
Exits == Conflict /\ ~ShowMatchingChapter /\ ~FindOrbits

(* ShowStories takes the first arrow of an empty list for the first        *)
(* opening.                                                                *)
Search ==
    /\ stage = "decoded"
    /\ IF MinMaxPanics THEN End("panicked", <<>>)
       ELSE IF Exits THEN End("exited", <<>>)
       ELSE End(IF Handler.kind = "stories" /\ Handler.nodes # {} THEN "panicked" ELSE "answered", <<Handler>>)

FillInParameters == \/ Flag \/ Chapter \/ Notes \/ Numeric \/ Listed \/ From \/ ToNodes \/ About \/ Finds \/ Text
                    \/ NextPart
Next == DecodeSearchField \/ FillInParameters \/ Decoded \/ Search
Spec == Init /\ [][Next]_vars /\ WF_vars(Next)

-----------------------------------------------------------------------------
(* Properties. *)

Plain(w) == SomethingLike[w] = "text" /\ ~IsCommand[w] /\ w \notin DOMAIN DiracNotation \cup {Anything, Wild}
Done == stage \in {"decoded", "answered"}

(* The place of a word is its part and where it is in it.  A word is in    *)
(* the list of another when no command word is between them.               *)
Places == UNION {{m} \X DOMAIN parts[m] : m \in DOMAIN parts}
WordAt(i) == parts[i[1]][i[2]]
KindAt(i) == SomethingLike[WordAt(i)]
Precedes(i, j) == i[1] < j[1] \/ (i[1] = j[1] /\ i[2] < j[2])
InList(a, i) == /\ a[1] = i[1] /\ a[2] < i[2]
                /\ \A k \in (a[2] + 1) .. i[2] : ~IsCommand[parts[i[1]][k]]
Under(i, kinds) == \E a \in Places : InList(a, i) /\ KindAt(a) \in kinds
InFirstList(i, kinds) == LET a == <<i[1], 1>> IN InList(a, i) /\ KindAt(a) \in kinds
AfterNumeric(i) == i[2] > 1 /\ KindAt(<<i[1], i[2] - 1>>) \in {"page", "range", "min", "max"}

Lists == {"arrow", "context", "finds", "from", "to"}
Target(i) == \E a \in Places : InList(a, i) /\ KindAt(a) = "to" /\ a[2] > 1
Pointer(j) == WordAt(j) \in DOMAIN Literal /\ Target(j)

(* What a command may lose of a word it gives:                             *)
(*   - a number behind the keyword that wants one, which becomes a number; *)
(*   - what follows a chapter keyword in its part, of which the first word *)
(*     becomes the chapter and the others are not read;                    *)
(*   - the list of "on" behind a page keyword, which names the chapter;    *)
(*   - what stands before help, unless the first keyword of its part lists *)
(*     it: help replaces the names;                                        *)
(*   - any word beside one in <end|context|begin> notation that is itself  *)
(*     no such list's, unless it is in a first list of arrows or finds;    *)
(*   - a target, or what was given for a number, before a node pointer     *)
(*     that is a target, as To becomes From and that pointer;              *)
(*   - an end of the path, from such a pointer on, when From goes on       *)
(*     behind the pointer and gets more than three words: From and To may  *)
(*     be one array, and each is written over the other.                   *)
Lost(i) ==
    \/ AfterNumeric(i) /\ Number[WordAt(i)] > 0
    \/ \E a \in Places : a[1] = i[1] /\ a[2] < i[2] /\ KindAt(a) = "chapter"
    \/ \E a, b \in Places : /\ InList(a, i) /\ KindAt(a) = "on"
                            /\ Precedes(b, a) /\ KindAt(b) \in {"page", "notes"}
    \/ ~InFirstList(i, Lists) /\ \E h \in Places : Precedes(i, h) /\ KindAt(h) = "help"
    \/ /\ ~InFirstList(i, {"arrow", "finds"})
       /\ \E d \in Places : WordAt(d) \in DOMAIN DiracNotation /\ ~InFirstList(d, Lists)
    \/ (Under(i, {"to"}) \/ AfterNumeric(i)) /\ \E j \in Places : Pointer(j) /\ Precedes(i, j)
    \/ /\ Under(i, {"from", "to"}) \/ AfterNumeric(i)
       /\ Len(param.From) > 3
       /\ \E j, f \in Places : Pointer(j) /\ ~Precedes(i, j) /\ Precedes(j, f) /\ KindAt(f) = "from"

Kept(w) ==
    LET kept == ToSet(param.Name \o param.From \o param.To \o param.Context \o param.Arrows \o param.Finds)
    IN  w \in kept \/ ToSet(Commas[w]) \subseteq kept

(* The parts of a command are its words in their order, and every plain    *)
(* word of it, whole or in its pieces between commas, is among the names,  *)
(* the ends, the contexts, the arrows or what is to be found when it was   *)
(* read, also when it follows a keyword that wanted a number (AddOrphan),  *)
(* but for what Lost lists.                                                *)
NothingLost == Done => /\ FlattenSeq(parts) = words
                       /\ \A i \in Places : Plain(WordAt(i)) => Lost(i) \/ Kept(WordAt(i))

(* A command that gives one word for each end of a path with the keywords, *)
(* \from x to y, \from x \to y or \to y \from x, or as <end|begin>, and at *)
(* most a depth beside them, starts the path search between the nodes of   *)
(* the two words (CMD_FROM, CMD_TO, DiracNotation, "Closed path solving"). *)
EndsGiven(x, y) ==
    LET ps == {q \in ToSet(parts) : q # <<>>}
        rest == {q \in ps : Len(q) = 2 /\ SomethingLike[q[1]] = "range" /\ Number[q[2]] > 0}
        FromTo(q) == Len(q) = 4 /\ SomethingLike[q[1]] = "from" /\ q[2] = x /\ q[3] = To /\ q[4] = y
        FromOnly(q) == Len(q) = 2 /\ SomethingLike[q[1]] = "from" /\ q[2] = x
        ToOnly(q) == Len(q) = 2 /\ IsCommand[q[1]] /\ SomethingLike[q[1]] = "to" /\ q[2] = y
        Ket(q) == Len(q) = 1 /\ q[1] \in DOMAIN DiracNotation /\ IsPrefix(<<x, y>>, DiracNotation[q[1]])
    IN  \/ \E q \in ps : (FromTo(q) \/ Ket(q)) /\ ps \ rest = {q}
        \/ \E q, r \in ps : FromOnly(q) /\ ToOnly(r) /\ ps \ rest = {q, r}

ExplicitPathsSolved ==
    stage = "answered" => \A x, y \in {w \in Words : Plain(w) /\ Commas[w] = <<w>>} :
        EndsGiven(x, y) => /\ answer[1].kind = "paths"
                           /\ answer[1].nodes = SolveNodePtrs(<<x>>)
                           /\ answer[1].ends = SolveNodePtrs(<<y>>)

(* Every command is answered, rejected or fails: reading its words never   *)
(* comes to a halt or goes back.                                           *)
EverySearchEnds == <>(stage \in {"answered", "exited", "panicked"})

=============================================================================
