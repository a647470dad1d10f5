------------------------------- MODULE Arrows --------------------------------
(***************************************************************************)
(* The arrow directory and the reader of the configuration files that      *)
(* fills it before N4L reads notes (N4L.go, ParseConfig and                *)
(* ClassifyConfigRole; SSTorytime.go, InsertArrowDirectory and the lookups *)
(* that searches make).                                                    *)
(*                                                                         *)
(* A line is a sequence of tokens, and a token its first character ("-",   *)
(* "+", "(", "=", or "text" for any other) with a name.  Text runs up to a *)
(* parenthesis or the end of its line, so that only these follow it.  A    *)
(* pointer is a position of ARROW_DIRECTORY, counted from 0.               *)
(***************************************************************************)
EXTENDS Integers, Sequences, FiniteSets

CONSTANTS Names,       \* short and long names of arrows, and annotation marks
          OtherSection,   \* a section name that the reader does not know
          Mandatory,   \* the pairs of AddMandatory: [sect, fwd, bwd], ends <<short, long>>
          Resembles,   \* the pairs <<full, like>> of names for which SimilarString holds
          Lines,       \* the lines that are read
          MaxLines,    \* bound: lines of all files together
          MaxFiles     \* bound: configuration files

ArrowSections == {"leadsto", "contains", "properties"}
TypedSections == ArrowSections \cup {"similarity"}
Kinds == {"-", "+", "(", "=", "text"}
SectionNames == TypedSections \cup {"annotations", "closures", OtherSection}

ASSUME ArrowsAssumption ==
    /\ OtherSection \notin TypedSections \cup {"annotations", "closures"}
    /\ Mandatory \in Seq([sect : ArrowSections, fwd : Names \X Names, bwd : Names \X Names])
    /\ \A n \in Names : <<n, n>> \in Resembles
    /\ \A l \in Lines : /\ l \in Seq([kind : Kinds, name : Names \cup SectionNames])
                         /\ \A i \in 1 .. Len(l) - 1 : l[i].kind = "(" \/ l[i + 1].kind = "("
    /\ MaxLines \in Nat /\ MaxFiles \in Nat \ {0}

VARIABLES arrows,      \* ARROW_DIRECTORY with its two name maps and INVERSE_ARROWS
          loaded,      \* how many pairs AddMandatory has inserted
          status,      \* "reading", "done", or "exited" after os.Exit
          section,     \* SECTION_STATE
          role,        \* LINE_ITEM_STATE
          FWD_ARROW, BWD_ARROW, FWD_INDEX,   \* FWD_INDEX outlives line and file
          mark,        \* LAST_IN_SEQUENCE
          items,       \* LINE_ITEM_CACHE["THIS"]
          ANNOTATION, ARROW_CLOSURES,
          files, lines,
          line, pos,   \* the line being read, and its next token
          written      \* history: the arrows that lines put side by side

tableVars == <<arrows, ANNOTATION, ARROW_CLOSURES, written>>
arrowVars == <<FWD_ARROW, BWD_ARROW, FWD_INDEX>>
fileVars == <<loaded, files, lines, line>>
vars == <<tableVars, arrowVars, fileVars, pos, role, items, status, section, mark>>

-----------------------------------------------------------------------------
(* The directory. *)

EXPRESS == 3
ST_ZERO == EXPRESS
ArrowPtr == Nat
NoArrow == -1
NoName == ""

With(f, x, y) == [z \in DOMAIN f \cup {x} |-> IF z = x THEN y ELSE f[z]]

Sign(pm) == CASE pm = "+" -> 1 [] pm = "-" -> -1 [] OTHER -> 0
GetSTIndexByName(stname, pm) ==
    CASE stname = "leadsto" -> ST_ZERO + Sign(pm)
      [] stname = "contains" -> ST_ZERO + 2 * Sign(pm)
      [] stname = "properties" -> ST_ZERO + EXPRESS * Sign(pm)
      [] OTHER -> ST_ZERO

STIndexToSTType(stindex) == stindex - ST_ZERO

EmptyDirectory == [dir |-> <<>>, short |-> [s \in {} |-> 0], long |-> [s \in {} |-> 0],
                   inverse |-> [a \in {} |-> 0]]

(* InsertArrowDirectory: a pair of names that is there keeps its pointer,  *)
(* whatever section and sign come with it now; a pair that shares one name *)
(* with another arrow is refused.                                          *)
IsPair(d, alias, name) ==
    alias \in DOMAIN d.short /\ name \in DOMAIN d.long /\ d.short[alias] = d.long[name]
(* Slip: only a pair that shares both names is refused. *)
ClashesTwice(d, alias, name) == \E i \in DOMAIN d.dir : d.dir[i].long = name /\ d.dir[i].short = alias
Clashes(d, alias, name) == \E i \in DOMAIN d.dir : d.dir[i].long = name \/ d.dir[i].short = alias
InsertedPtr(d, alias, name) ==
    IF IsPair(d, alias, name) THEN d.short[alias]
    ELSE IF Clashes(d, alias, name) THEN NoArrow ELSE Len(d.dir)
(* Slip: a pair that is there gets the type it comes with now. *)
InsertAgain(d, stname, alias, name, pm) ==
    IF IsPair(d, alias, name)
    THEN [d EXCEPT !.dir[d.short[alias] + 1].STAindex = GetSTIndexByName(stname, pm)]
    ELSE IF Clashes(d, alias, name) THEN d
    ELSE [dir |-> Append(d.dir, [STAindex |-> GetSTIndexByName(stname, pm),
                                 long |-> name, short |-> alias]),
          short |-> With(d.short, alias, Len(d.dir)),
          long |-> With(d.long, name, Len(d.dir)),
          inverse |-> d.inverse]
InsertArrowDirectory(d, stname, alias, name, pm) ==
    IF IsPair(d, alias, name) \/ Clashes(d, alias, name) THEN d
    ELSE [dir |-> Append(d.dir, [STAindex |-> GetSTIndexByName(stname, pm),
                                 long |-> name, short |-> alias]),
          short |-> With(d.short, alias, Len(d.dir)),
          long |-> With(d.long, name, Len(d.dir)),
          inverse |-> d.inverse]

InsertInverseArrowDirectory(d, f, b) ==
    IF f = NoArrow \/ b = NoArrow THEN d
    ELSE [dir |-> d.dir, short |-> d.short, long |-> d.long,
          inverse |-> With(With(d.inverse, f, b), b, f)]

InsertPair(d, p) ==
    LET d1 == InsertArrowDirectory(d, p.sect, p.fwd[1], p.fwd[2], "+")
        d2 == InsertArrowDirectory(d1, p.sect, p.bwd[1], p.bwd[2], "-")
    IN  InsertInverseArrowDirectory(d2, InsertedPtr(d, p.fwd[1], p.fwd[2]),
                                        InsertedPtr(d1, p.bwd[1], p.bwd[2]))

(* GetLinkArrowByName of a relation in the notes or in a closure. *)
IsArrowName(d, n) == n \in DOMAIN d.short \cup DOMAIN d.long
GetLinkArrowByName(d, n) == IF n \in DOMAIN d.short THEN d.short[n] ELSE d.long[n]

-----------------------------------------------------------------------------
(* The lookups of searches. *)

GetDBArrowByName(d, n) == IF IsArrowName(d, n) THEN GetLinkArrowByName(d, n) ELSE 0

(* By a name in exclamation marks, or without. *)
Exactly(d, n) == {i - 1 : i \in {j \in DOMAIN d.dir : n \in {d.dir[j].long, d.dir[j].short}}}
Similarly(d, n) ==
    {i - 1 : i \in {j \in DOMAIN d.dir : <<d.dir[j].long, n>> \in Resembles
                                         \/ <<d.dir[j].short, n>> \in Resembles}}
GetDBArrowsMatchingArrowName(d, n, exact) == IF exact THEN Exactly(d, n) ELSE Similarly(d, n)

GetDBArrowsWithArrowName(d, n) ==
    IF Exactly(d, n) = {} THEN 0
    ELSE CHOOSE a \in Exactly(d, n) : \A b \in Exactly(d, n) : a <= b

TypeOf(d, a) == STIndexToSTType(d.dir[a + 1].STAindex)
GetDBArrowBySTType(d, t) == {a \in 0 .. Len(d.dir) - 1 : TypeOf(d, a) = t}

(* ArrowPtrFromArrowsNames, for one of the words it is given: the arrows   *)
(* of a name but never arrow 0, a link type, or a pointer above the link   *)
(* types, -1 with type -3 when there is none.                              *)
OfName(d, n, exact) ==
    LET found == GetDBArrowsMatchingArrowName(d, n, exact) \ {0}
    IN  [arr |-> found, stt |-> {TypeOf(d, a) : a \in found}]
(* Slip: the highest link type is taken for a pointer. *)
OfNumberBelow(d, k) ==
    CASE k < -EXPRESS -> [arr |-> {}, stt |-> {}]
      [] k \in -EXPRESS .. EXPRESS - 1 -> [arr |-> {}, stt |-> {k}]
      [] k >= EXPRESS /\ k < Len(d.dir) -> [arr |-> {k}, stt |-> {TypeOf(d, k)}]
      [] OTHER -> [arr |-> {-1}, stt |-> {STIndexToSTType(0)}]
OfNumber(d, k) ==
    CASE k < -EXPRESS -> [arr |-> {}, stt |-> {}]
      [] k \in -EXPRESS .. EXPRESS -> [arr |-> {}, stt |-> {k}]
      [] k > EXPRESS /\ k < Len(d.dir) -> [arr |-> {k}, stt |-> {TypeOf(d, k)}]
      [] OTHER -> [arr |-> {-1}, stt |-> {STIndexToSTType(0)}]

-----------------------------------------------------------------------------
(* The reader. *)

Init ==
    /\ arrows = EmptyDirectory /\ loaded = 0 /\ status = "reading"
    /\ section = NoName /\ role = "blank"
    /\ FWD_ARROW = NoName /\ BWD_ARROW = NoName /\ FWD_INDEX = 0
    /\ mark = NoName /\ items = <<>> /\ ANNOTATION = [m \in {} |-> NoName]
    /\ ARROW_CLOSURES = <<>> /\ files = 1 /\ lines = 0 /\ line = <<>> /\ pos = 1 /\ written = {}

(* One pair of the list in AddMandatory. *)
AddMandatory ==
    /\ loaded < Len(Mandatory)
    /\ arrows' = InsertPair(arrows, Mandatory[loaded + 1])
    /\ loaded' = loaded + 1
    /\ written' = written \cup {<<Mandatory[loaded + 1].fwd, Mandatory[loaded + 1].bwd>>}
    /\ UNCHANGED <<ANNOTATION, ARROW_CLOSURES, arrowVars, files, lines, line, pos, role, items,
                   status, section, mark>>

Reading == status = "reading" /\ loaded = Len(Mandatory)
kind == line[pos].kind
name == line[pos].name

(* GetConfigToken and what every branch of ClassifyConfigRole has in common:*)
(* a token of one of these kinds is read in one of these sections.          *)
Token(sections, kinds) ==
    /\ Reading /\ pos <= Len(line) /\ section \in sections /\ kind \in kinds
    /\ pos' = pos + 1
    /\ UNCHANGED fileVars

(* A "-" that finds a blank line names the section, in every section. *)
StartsSection == kind = "-" /\ role = "blank"
StartSection ==
    /\ Token({section}, {"-"}) /\ StartsSection
    /\ section' = name /\ role' = "section"
    /\ UNCHANGED <<tableVars, arrowVars, items, mark, status>>

Forward ==
    /\ Token(ArrowSections, {"+"})
    /\ FWD_ARROW' = name /\ role' = "plus"
    /\ UNCHANGED <<tableVars, BWD_ARROW, FWD_INDEX, items, mark, status, section>>

Backward ==
    /\ Token(ArrowSections, {"-"}) /\ ~StartsSection
    /\ BWD_ARROW' = name /\ role' = "minus"
    /\ UNCHANGED <<tableVars, FWD_ARROW, FWD_INDEX, items, mark, status, section>>

(* Slip: an arrow that is refused leaves FWD_INDEX alone. *)
ForwardKept ==
    /\ Token(ArrowSections, {"("}) /\ role = "plus"
    /\ FWD_INDEX' = IF InsertedPtr(arrows, name, FWD_ARROW) = NoArrow THEN FWD_INDEX
                    ELSE InsertedPtr(arrows, name, FWD_ARROW)
    /\ arrows' = InsertArrowDirectory(arrows, section, name, FWD_ARROW, "+")
    /\ UNCHANGED <<ANNOTATION, ARROW_CLOSURES, written, FWD_ARROW, BWD_ARROW, role, items,
                   mark, status, section>>

ForwardName ==
    /\ Token(ArrowSections, {"("}) /\ role = "plus"
    /\ FWD_INDEX' = InsertedPtr(arrows, name, FWD_ARROW)
    /\ arrows' = InsertArrowDirectory(arrows, section, name, FWD_ARROW, "+")
    /\ UNCHANGED <<ANNOTATION, ARROW_CLOSURES, written, FWD_ARROW, BWD_ARROW, role, items,
                   mark, status, section>>

(* The arrows of the line: the name read now with the last "-" text, and   *)
(* the last "+" text with the last name before a "-" follows it.           *)
LastOf(is) == CHOOSE i \in is : \A j \in is : j <= i
LinePair ==
    LET At(k, from, to) == {i \in from .. to : line[i].kind = k}
        plus == LastOf(At("+", 1, pos))
        minus == LastOf(At("-", plus, pos))
        alias == LastOf({i \in At("(", plus, minus) : At("-", plus, i) = {}})
    IN  <<<<line[alias].name, line[plus].name>>, <<name, line[minus].name>>>>

BackwardName ==
    /\ Token(ArrowSections, {"("}) /\ role = "minus"
    /\ arrows' = InsertInverseArrowDirectory(
                     InsertArrowDirectory(arrows, section, name, BWD_ARROW, "-"),
                     FWD_INDEX, InsertedPtr(arrows, name, BWD_ARROW))
    /\ written' = written \cup {LinePair}
    /\ UNCHANGED <<ANNOTATION, ARROW_CLOSURES, arrowVars, role, items, mark, status, section>>

Similar ==
    /\ Token({"similarity"}, {"text", "="})
    /\ FWD_ARROW' = name /\ BWD_ARROW' = name /\ role' = "minus"
    /\ UNCHANGED <<tableVars, FWD_INDEX, items, mark, status, section>>

SimilarName ==
    /\ Token({"similarity"}, {"("}) /\ role = "minus"
    /\ LET p == InsertedPtr(arrows, name, BWD_ARROW)
       IN  arrows' = InsertInverseArrowDirectory(
                         InsertArrowDirectory(arrows, section, name, BWD_ARROW, "both"), p, p)
    /\ written' = written \cup {<<<<name, BWD_ARROW>>, <<name, BWD_ARROW>>>>}
    /\ UNCHANGED <<ANNOTATION, ARROW_CLOSURES, arrowVars, role, items, mark, status, section>>

(* Other text among arrows, and a name without its similarity. *)
Ignore ==
    /\ \/ Token(ArrowSections, {"text", "="})
       \/ Token({"similarity"}, {"("}) /\ role # "minus"
    /\ UNCHANGED <<tableVars, arrowVars, role, items, mark, status, section>>

Mark ==
    /\ Token({"annotations"}, {"text", "="})
    /\ mark' = name /\ role' = "plus"
    /\ UNCHANGED <<tableVars, arrowVars, items, status, section>>

(* A name without a mark is reported, and then defines the last mark of    *)
(* the file, or the empty mark.                                            *)
Redefines == mark \in DOMAIN ANNOTATION /\ ANNOTATION[mark] # name
MarkArrow ==
    /\ Token({"annotations"}, {"("}) /\ ~Redefines
    /\ FWD_ARROW' = name /\ ANNOTATION' = With(ANNOTATION, mark, name) /\ role' = "blank"
    /\ UNCHANGED <<arrows, ARROW_CLOSURES, written, BWD_ARROW, FWD_INDEX, items, mark,
                   status, section>>

Compose ==
    /\ Token({"closures"}, {"("}) /\ role # "result"
    /\ items' = Append(items, name) /\ role' = "composition"
    /\ UNCHANGED <<tableVars, arrowVars, mark, status, section>>

Operator ==
    /\ Token({"closures"}, {"+", "="})
    /\ role' = IF kind = "+" THEN "composition" ELSE "result"
    /\ UNCHANGED <<tableVars, arrowVars, items, mark, status, section>>

(* AddArrowClosure: every name of the line so far, and the result. *)
Closure == [Sequence |-> [i \in DOMAIN items |-> GetLinkArrowByName(arrows, items[i])],
            Result |-> GetLinkArrowByName(arrows, name)]
AllKnown == IsArrowName(arrows, name) /\ \A i \in DOMAIN items : IsArrowName(arrows, items[i])
AddArrowClosure ==
    /\ Token({"closures"}, {"("}) /\ role = "result" /\ AllKnown
    /\ ARROW_CLOSURES' = Append(ARROW_CLOSURES, Closure)
    /\ UNCHANGED <<arrows, ANNOTATION, written, arrowVars, role, items, mark, status, section>>

(* The tokens at which the reader gives up. *)
Misplaced ==
    \/ section \in ArrowSections /\ kind = "(" /\ role \notin {"plus", "minus"}
    \/ section = "similarity" /\ kind \in {"+", "-"}
    \/ section = "annotations" /\ (kind \in {"+", "-"} \/ (kind = "(" /\ Redefines))
    \/ section = "closures" /\ (kind \in {"-", "text"} \/ (kind = "(" /\ role = "result" /\ ~AllKnown))
    \/ section \notin SectionNames \ {OtherSection}
Exit ==
    /\ Token({section}, Kinds) /\ ~StartsSection /\ Misplaced
    /\ status' = "exited"
    /\ UNCHANGED <<tableVars, arrowVars, role, items, mark, section>>

(* Slip: the items of the line before stay. *)
NextLineKeepsItems(l) ==
    /\ Reading /\ pos > Len(line) /\ lines < MaxLines
    /\ role' = "blank" /\ items' = items
    /\ line' = l /\ pos' = 1 /\ lines' = lines + 1
    /\ UNCHANGED <<tableVars, arrowVars, loaded, files, status, section, mark>>

(* UpdateLastLineCache, while it reads configurations, and the next line. *)
NextLine(l) ==
    /\ Reading /\ pos > Len(line) /\ lines < MaxLines
    /\ role' = "blank" /\ items' = <<>>
    /\ line' = l /\ pos' = 1 /\ lines' = lines + 1
    /\ UNCHANGED <<tableVars, arrowVars, loaded, files, status, section, mark>>

(* NewFile for the next configuration file, and the end of main's loop. *)
NewFile ==
    /\ Reading /\ pos > Len(line) /\ files < MaxFiles
    /\ role' = "blank" /\ items' = <<>> /\ section' = NoName /\ mark' = NoName
    /\ FWD_ARROW' = NoName /\ BWD_ARROW' = NoName
    /\ files' = files + 1 /\ line' = <<>> /\ pos' = 1
    /\ UNCHANGED <<tableVars, FWD_INDEX, loaded, lines, status>>

EndConfig ==
    /\ Reading /\ pos > Len(line) /\ files = MaxFiles /\ status' = "done"
    /\ UNCHANGED <<tableVars, arrowVars, fileVars, pos, role, items, section, mark>>

Next ==
    \/ AddMandatory \/ StartSection
    \/ Forward \/ Backward \/ ForwardName \/ BackwardName
    \/ Similar \/ SimilarName \/ Ignore \/ Mark \/ MarkArrow
    \/ Compose \/ Operator \/ AddArrowClosure
    \/ Exit \/ NewFile \/ EndConfig
    \/ \E l \in Lines : NextLine(l)

Spec == Init /\ [][Next]_vars

-----------------------------------------------------------------------------
(* Properties. *)

(* ARROW_DIRECTORY and its two name maps (InsertArrowDirectory) tell the   *)
(* same: each name of an arrow leads back to it and to no other.           *)
DirectoryExact ==
    /\ DOMAIN arrows.short = {arrows.dir[i].short : i \in DOMAIN arrows.dir}
    /\ DOMAIN arrows.long = {arrows.dir[i].long : i \in DOMAIN arrows.dir}
    /\ \A i \in DOMAIN arrows.dir : /\ arrows.short[arrows.dir[i].short] = i - 1
                                    /\ arrows.long[arrows.dir[i].long] = i - 1

(* An arrow keeps its pointer, its type and its names whatever else the    *)
(* files define: links that are noted hold nothing but the pointer.        *)
ArrowsKeepPointers ==
    [][\A i \in DOMAIN arrows.dir : i \in DOMAIN arrows'.dir /\ arrows'.dir[i] = arrows.dir[i]]_vars

(* INVERSE_ARROWS is what the lines of the files say: an inverse comes     *)
(* from a line that holds both arrows, and a line whose arrows were both   *)
(* accepted, and that no other line pairs with others, makes them inverse. *)
Accepted(w) == IsPair(arrows, w[1][1], w[1][2]) /\ IsPair(arrows, w[2][1], w[2][2])
Ends(w) == {arrows.short[w[1][1]], arrows.short[w[2][1]]}
Pairings == {Ends(w) : w \in {x \in written : Accepted(x)}}
InversesAsWritten ==
    /\ \A a \in DOMAIN arrows.inverse : {a, arrows.inverse[a]} \in Pairings
    /\ \A e \in Pairings :
         (\A f \in Pairings : f # e => f \cap e = {}) =>
             \A a \in e : a \in DOMAIN arrows.inverse /\ {a, arrows.inverse[a]} = e

(* What a map finds a scan finds, and searches by words name arrows with   *)
(* their types: GetDBArrowByName and GetDBArrowsWithArrowName differ at    *)
(* most on a name that is short for one arrow and long for another; every  *)
(* arrow but number 0 is found by its names, with its type; and by its     *)
(* number only above the numbers of the link types.                        *)
LookupsAgree ==
    /\ \A n \in Names :
         LET exact == Exactly(arrows, n)
         IN  /\ IsArrowName(arrows, n) <=> exact # {}
             /\ exact # {} => {GetDBArrowByName(arrows, n), GetDBArrowsWithArrowName(arrows, n)} \subseteq exact
             /\ exact \subseteq Similarly(arrows, n)
             /\ Cardinality(exact) = 2 => n \in DOMAIN arrows.short \cap DOMAIN arrows.long
             /\ Cardinality(exact) <= 2
    /\ \A i \in DOMAIN arrows.dir \ {1} :
         LET a == i - 1
             q == OfName(arrows, arrows.dir[i].short, TRUE)
         IN  /\ a \in q.arr
             /\ \E t \in q.stt : a \in GetDBArrowBySTType(arrows, t)
             /\ a \in OfNumber(arrows, a).arr <=> a > EXPRESS

(* An inference rule is made of the names of one line (ClassifyConfigRole, *)
(* AddArrowClosure): those since its last section title that no "="        *)
(* introduces, and the name just read.  A "+" takes up the rule again      *)
(* after a result.                                                         *)
Introduced(i) ==
    \E j \in 1 .. i - 1 : /\ line[j].kind = "="
                          /\ \A k \in j .. i - 1 : line[k].kind \notin {"+", "-"}
Composed(to) == {i \in 1 .. to : /\ line[i].kind = "(" /\ ~Introduced(i)
                                 /\ \A k \in i .. to : line[k].kind # "-"}
Before(is, i) == {j \in is : j < i}
ClosuresOfOneLine ==
    [][ARROW_CLOSURES' # ARROW_CLOSURES =>
         LET c == ARROW_CLOSURES'[Len(ARROW_CLOSURES')]
             names == Composed(pos)
         IN  /\ Len(c.Sequence) = Cardinality(names)
             /\ \A i \in names : c.Sequence[Cardinality(Before(names, i)) + 1] =
                                     GetLinkArrowByName(arrows, line[i].name)
             /\ c.Result = GetLinkArrowByName(arrows, line[pos].name)]_vars

=============================================================================
