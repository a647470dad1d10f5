--------------------------------- MODULE Notes ---------------------------------
(***************************************************************************)
(* The reader of N4L files (N4L.go): one action per kind of token that     *)
(* ClassifyTokenRole tells apart, the end of a line, of a file and of all  *)
(* files.  A token is what GetToken returns; runOn says that the last one  *)
(* took everything up to the next "(" or the end of the line, so that only *)
(* a relation or the end of the line can follow it.                        *)
(*                                                                         *)
(* The reader leaves through os.Exit on an error it reports, and panics    *)
(* where it indexes beyond a slice: nothing of its memory survives either. *)
(***************************************************************************)
EXTENDS NoteMemory

CONSTANTS Sections, Aliases,
          Quoted,      \* items written in quotes, which may be followed by another
          Expressions, \* context expressions, as the fragments they list
          Holding,     \* Holding[f]: the fragments with a part that contains f
          NoItem, NoSection, NoAlias,
          Written,     \* arrows that notes use, known or not
          MaxTokens,   \* bound: tokens over all files
          MaxFiles     \* bound: files on the command line

ASSUME NotesAssumption ==
    /\ Quoted \subseteq Items /\ NoItem \notin Items
    /\ Items \subseteq Fragments /\ "any" \in Fragments
    /\ \A x \in Expressions : x # {} /\ x \subseteq Fragments
    /\ Holding \in [Fragments -> SUBSET Fragments]
    /\ MaxTokens \in Nat /\ MaxFiles \in Nat

VARIABLES status,    \* "reading", "between" files, "done", "exit" or "panic"
          files, tokens,   \* how many were read
          runOn,
          line,      \* the LINE_ variables, see BlankLine
          prev,      \* LINE_ITEM_CACHE["PREV"]
          labelled,  \* LINE_ITEM_CACHE of the line labels
          section,   \* SECTION_STATE
          context,   \* CONTEXT_STATE
          story,     \* SEQUENCE_MODE, SEQUENCE_START and LAST_IN_SEQUENCE
          dir,       \* NODE_DIRECTORY
          pages      \* PAGE_MAP

vars == <<status, files, tokens, runOn, line, prev, labelled, section, context,
          story, dir, pages>>
count == <<files, tokens>>

(* LINE_ITEM_STATE (a context state is the operation it stands for), the   *)
(* "THIS" of LINE_ITEM_CACHE and LINE_RELN_CACHE, LINE_ITEM_REFS,          *)
(* LINE_ALIAS and LINE_PATH.  LINE_ITEM_COUNTER is always one more than    *)
(* the items, LINE_RELN_COUNTER the number of relations.                   *)
BlankLine == [state |-> "blank", items |-> <<>>, relns |-> <<>>, refs |-> <<>>,
              alias |-> NoAlias, path |-> <<>>]
NoStory == [mode |-> FALSE, start |-> FALSE, last |-> NoItem]

Token ==
    /\ status = "reading" /\ tokens < MaxTokens
    /\ tokens' = tokens + 1 /\ files' = files

(* os.Exit, or a panic: what the process held is gone. *)
Leave(how) ==
    /\ status' = how
    /\ UNCHANGED <<line, prev, labelled, section, context, story, dir, pages>>

(* NewFile and ResetContextState, ContextEval("any", "=").  SEQUENCE_START *)
(* is not reset.                                                           *)
NewFile ==
    /\ status = "between" /\ files < MaxFiles
    /\ status' = "reading" /\ files' = files + 1
    /\ runOn' = FALSE /\ line' = BlankLine
    /\ prev' = <<>> /\ labelled' = [a \in Aliases |-> <<>>]
    /\ section' = NoSection /\ context' = {"any"}
    /\ story' = [NoStory EXCEPT !.start = story.start]
    /\ UNCHANGED <<tokens, dir, pages>>

Init ==
    /\ status = "between" /\ files = 0 /\ tokens = 0 /\ runOn = FALSE
    /\ line = BlankLine /\ prev = <<>> /\ labelled = [a \in Aliases |-> <<>>]
    /\ section = NoSection /\ context = {} /\ story = NoStory
    /\ dir = <<>> /\ pages = <<>>

-----------------------------------------------------------------------------
(* Sections, contexts, labels and relations. *)

(* A "-" begins a chapter if the file has none yet (CheckChapter); in a    *)
(* file that has one it is the first character of an item.                 *)
Section(s) ==
    /\ Token /\ ~runOn /\ section = NoSection
    /\ runOn' = TRUE
    /\ line' = [line EXCEPT !.state = "section"]
    /\ section' = s
    /\ story' = [story EXCEPT !.mode = FALSE, !.start = FALSE]
    /\ UNCHANGED <<status, prev, labelled, context, dir, pages>>

(* CheckSequenceMode: any expression but a removed one starts a story. *)
StoryAfter(op, x) ==
    IF SequenceTag \notin x THEN story
    ELSE IF op = "-" THEN [story EXCEPT !.mode = FALSE, !.start = FALSE]
    ELSE [mode |-> TRUE, start |-> TRUE, last |-> NoItem]

(* ContextEval and ModContext: what is removed goes with every compound    *)
(* that has a part containing it.  The operations are written as the code  *)
(* calls them: "=", "+" and "-".                                           *)
ContextAfter(op, x) ==
    CASE op = "=" -> x
      [] op = "+" -> context \cup x
      [] op = "-" -> context \ UNION {Holding[f] : f \in x}

(* :: x ::, +:: x :: and -:: x ::, each ended by its colons. *)
Context(op, x) ==
    /\ Token /\ ~runOn /\ runOn' = FALSE
    /\ IF section = NoSection
       THEN Leave("exit")
       ELSE /\ line' = [line EXCEPT !.state = op]
            /\ story' = StoryAfter(op, x) /\ context' = ContextAfter(op, x)
            /\ UNCHANGED <<status, prev, labelled, section, dir, pages>>

(* A text that begins with "+" is taken for an addition to the context; it *)
(* has no colon, so its expression is empty and nothing is evaluated.      *)
PlusText ==
    /\ Token /\ ~runOn
    /\ line' = [line EXCEPT !.state = "+"] /\ runOn' = TRUE
    /\ UNCHANGED <<status, prev, labelled, section, context, story, dir, pages>>

(* @name, up to the next space. *)
LineLabel(a) ==
    /\ Token /\ ~runOn
    /\ line' = [line EXCEPT !.state = "alias", !.alias = a] /\ runOn' = FALSE
    /\ UNCHANGED <<status, prev, labelled, section, context, story, dir, pages>>

(* GetLinkArrowByName for "(arrow)" or "(arrow,fragments)". *)
Relation(arrow, extra) ==
    /\ Token /\ runOn' = FALSE
    /\ IF line.state = "relation" \/ arrow \notin Arrows
       THEN Leave("exit")
       ELSE /\ line' = [line EXCEPT !.state = "relation",
                          !.relns = Append(@, [arr |-> arrow, ctx |-> Label(context \cup extra)])]
            /\ UNCHANGED <<status, prev, labelled, section, context, story, dir, pages>>

-----------------------------------------------------------------------------
(* Items. *)

(* IdempAddNode: the first node of a line begins its page path. *)
Begun(path, p) == IF path = <<>> THEN <<[arr |-> Empty, dst |-> p]>> ELSE path

(* StoreAlias: a labelled line keeps its items under the label as well. *)
StoreAlias(i, stored) ==
    IF stored /\ line.alias # NoAlias
    THEN [labelled EXCEPT ![line.alias] = Append(@, i)]
    ELSE labelled

(* The line once i is read: its refs and path are those of the directory. *)
LineWith(i, state, refs, path) ==
    [line EXCEPT !.items = Append(@, i), !.state = state, !.refs = refs, !.path = path]

(* After a relation (ROLE_RELATION): a link from the item before.          *)
(* LINE_ITEM_REFS is indexed by LINE_ITEM_COUNTER, which also counts items *)
(* that were taken for context expressions and have no reference.          *)
LinkedItem(i, state, stored) ==
    LET n == Len(line.items)
        d == HandleNode(dir, i, section, context)
        p == Pointer(d, i)
        r == Last(line.relns)
    IN /\ line.state = "relation"
       /\ CASE n = 0 -> Leave("exit")
            [] n > Len(line.refs) -> Leave("panic")
            [] n \in DOMAIN line.refs /\ line.items[n] = i -> Leave("exit")
            [] OTHER ->
                 /\ dir' = AddBothWays(d, line.refs[n], r.arr, r.ctx, p, context)
                 /\ line' = LineWith(i, state, Append(line.refs, p),
                                     Append(Begun(line.path, p), [arr |-> r.arr, dst |-> p]))
                 /\ labelled' = StoreAlias(i, stored)
                 /\ UNCHANGED <<status, prev, section, context, story, pages>>

(* After a context on the same line an item is one more expression. *)
ContextItem(i, state, stored) ==
    /\ line.state \in {"=", "+", "-"}
    /\ IF section = NoSection
       THEN Leave("exit")
       ELSE /\ context' = ContextAfter(line.state, {i})
            /\ line' = LineWith(i, state, line.refs, line.path)
            /\ labelled' = StoreAlias(i, stored)
            /\ UNCHANGED <<status, prev, section, story, dir, pages>>

(* LinkUpStorySequence: the first item of a line follows the last one. *)
Follows(i) ==
    story.mode /\ i # story.last /\ line.items = <<>> /\ story.last # NoItem

(* Slip: the story runs backwards. *)
StoryLinkedBackwards(d, i) ==
    IF Follows(i)
    THEN AddBothWays(d, Pointer(d, i), Then, Label(context), Pointer(d, story.last), context)
    ELSE d

StoryLinked(d, i) ==
    IF Follows(i)
    THEN LET e == AppendTextToDirectory(d, story.last, section, story.start)
             f == AppendTextToDirectory(e, i, section, FALSE)
         IN AddBothWays(f, Pointer(f, story.last), Then, Label(context), Pointer(f, i), context)
    ELSE d

(* The default of AssessGrammarCompletions. *)
PlainItem(i, state, stored) ==
    LET d == HandleNode(dir, i, section, context)
        p == Pointer(d, i)
    IN /\ line.state \notin {"relation", "=", "+", "-"}
       /\ IF section = NoSection
          THEN Leave("exit")
          ELSE /\ dir' = StoryLinked(d, i)
               /\ story' = IF story.mode
                           THEN [story EXCEPT !.last = i, !.start = @ /\ ~Follows(i)]
                           ELSE story
               /\ line' = LineWith(i, state, Append(line.refs, p), Begun(line.path, p))
               /\ labelled' = StoreAlias(i, stored)
               /\ UNCHANGED <<status, prev, section, context, pages>>

Write(i, state, stored) ==
    \/ LinkedItem(i, state, stored)
    \/ ContextItem(i, state, stored)
    \/ PlainItem(i, state, stored)

Item(i) ==
    /\ Token /\ ~runOn
    /\ runOn' = (i \notin Quoted)
    /\ Write(i, "event", TRUE)

(* A lone quote: the item in this place on the last line that had any. *)
Ditto ==
    /\ Token /\ ~runOn /\ runOn' = TRUE
    /\ LET n == Len(line.items) + 1
       IN IF n > Len(prev)
          THEN Leave("exit")
          ELSE Write(prev[n], "event", TRUE)

(* $label.n; the labels PREV and THIS always exist.  What a reference      *)
(* resolves to is not stored under the label of its own line.              *)
Labelled(a) == CASE a = "PREV" -> prev [] a = "THIS" -> line.items [] OTHER -> labelled[a]

Reference(a, n) ==
    /\ Token /\ ~runOn /\ runOn' = TRUE
    /\ IF n > Len(Labelled(a))
       THEN Leave("exit")
       ELSE Write(Labelled(a)[n], "lookup", FALSE)

-----------------------------------------------------------------------------
(* Lines and files. *)

(* PageMap.  The refs are history: the items of the line as nodes. *)
PagesAfter ==
    IF line.path = <<>> THEN pages
    ELSE Append(pages, [chap |-> section, alias |-> line.alias, ctx |-> Label(context),
                        path |-> line.path, refs |-> line.refs])

(* Slip: LINE_PATH outlives its line. *)
FlushKeepsPath ==
    /\ pages' = PagesAfter
    /\ prev' = IF line.items # <<>> THEN line.items ELSE prev
    /\ line' = [BlankLine EXCEPT !.path = line.path]

(* UpdateLastLineCache. *)
Flush ==
    /\ pages' = PagesAfter
    /\ prev' = IF line.items # <<>> THEN line.items ELSE prev
    /\ line' = BlankLine

EndLine ==
    /\ Token
    /\ Flush /\ runOn' = FALSE
    /\ UNCHANGED <<status, labelled, section, context, story, dir>>

(* GetToken flushes at the end of the text, unless the text ends with its  *)
(* last token: then the loop of ParseN4L ends first.                       *)
EndFile ==
    /\ status = "reading"
    /\ status' = "between" /\ runOn' = FALSE
    /\ \/ Flush
       \/ UNCHANGED <<line, prev, pages>>
    /\ UNCHANGED <<count, labelled, section, context, story, dir>>

Infer ==
    /\ status = "between" /\ files > 0
    /\ status' = "done"
    /\ dir' = CompleteInferences(dir)
    /\ UNCHANGED <<count, runOn, line, prev, labelled, section, context, story, pages>>

Next ==
    \/ NewFile
    \/ \E s \in Sections : Section(s)
    \/ \E op \in {"=", "+", "-"}, x \in Expressions : Context(op, x)
    \/ PlusText
    \/ \E a \in Aliases : LineLabel(a)
    \/ \E arrow \in Written, extra \in {{}} \cup Expressions : Relation(arrow, extra)
    \/ \E i \in Items : Item(i)
    \/ Ditto
    \/ \E a \in Aliases \cup {"PREV", "THIS"}, n \in 1 .. 2 : Reference(a, n)
    \/ EndLine
    \/ EndFile
    \/ Infer

Spec == Init /\ [][Next]_vars

-----------------------------------------------------------------------------
(* Properties. *)

Leads(p, arrow, q) == \E k \in DOMAIN dir[p].links[arrow] : dir[p].links[arrow][k].dst = q

(* A graph that can be walked both ways: until inferences are drawn, every *)
(* link but the empty ones has its inverse at the other end, and a node    *)
(* has one link at most per arrow and destination (IdempAddLink,           *)
(* LinkUpStorySequence, AddBackAnnotations, MergeLinkLists), however often *)
(* notes repeat a relation from either end.                                *)
InversesHeld ==
    \A p \in DOMAIN dir, x \in Arrows :
        LET list == dir[p].links[x]
        IN /\ \A k, j \in DOMAIN list : list[k].dst = list[j].dst => k = j
           /\ status # "done" /\ x # Empty =>
                  \A l \in Range(list) : Leads(l.dst, InverseOf[x], p)

(* A page row can be replayed: it begins with the first item of its line,  *)
(* and if each further item came with a relation, its path visits just the *)
(* items, each step by a link of the graph (IdempAddNode and IdempAddLink  *)
(* build LINE_PATH while refs and nodes are built apart from it).          *)
PagesReplayLines ==
    \A g \in Range(pages) :
        /\ g.refs # <<>> /\ g.path[1].dst = g.refs[1] /\ Len(g.path) <= Len(g.refs)
        /\ Len(g.path) = Len(g.refs) =>
               \A k \in 2 .. Len(g.path) :
                   g.path[k].dst = g.refs[k] /\ Leads(g.refs[k - 1], g.path[k].arr, g.refs[k])

(* Notes leave the arrow of stories to the stories: neither it nor its     *)
(* inverse occurs in a relation, a mark, a closure or among the near ones. *)
Named == (Written \cap Arrows) \cup Near
             \cup {m[1] : m \in UNION {Range(Marks[i]) : i \in Items}}
             \cup {closure[2] : closure \in Range(Closures)}
StoriesApart ==
    /\ Then # Empty /\ InverseOf[Then] # Then
    /\ \A x \in Named : x # Then /\ InverseOf[x] # Then

(* Stories stay in their chapter: where notes do not use the arrow         *)
(* themselves, a node that leads on in a story was an item of an earlier   *)
(* line of a chapter that the next node is in as well, whatever files,     *)
(* contexts and sections did to the story's state in between.              *)
StoriesStayInChapter ==
    StoriesApart =>
        \A p, q \in DOMAIN dir :
            Leads(p, Then, q) =>
                \E g \in Range(pages) : p \in Range(g.refs) /\ g.chap \in dir[q].chaps

(* Whatever is noted stays: nodes keep place and text, chapters and story  *)
(* marks only grow, links keep their place and only gain contexts, pages   *)
(* are only appended (AppendTextToDirectory, MergeLinkLists, PageMap).     *)
NoteKept(n, m) ==
    /\ m.text = n.text /\ n.chaps \subseteq m.chaps /\ (n.seq => m.seq)
    /\ \A x \in Arrows : \A k \in DOMAIN n.links[x] :
           /\ k \in DOMAIN m.links[x] /\ m.links[x][k].dst = n.links[x][k].dst
           /\ n.links[x][k].ctx \subseteq m.links[x][k].ctx
NothingForgotten ==
    [][/\ \A p \in DOMAIN dir : p \in DOMAIN dir' /\ NoteKept(dir[p], dir'[p])
       /\ IsPrefix(pages, pages')]_vars

(* CompleteCloseness closes triangles: nodes that were both similar to a   *)
(* third, by one arrow, are linked by it afterwards, the earlier of the    *)
(* two to the later, although lists grow while the nodes take their turns. *)
NearPairsClosed ==
    [][status' = "done" /\ status # "done" =>
         \A p \in DOMAIN dir, x \in Near :
             \A k, j \in DOMAIN dir[p].links[x] :
                 k < j => \E l \in Range(dir'[dir[p].links[x][k].dst].links[x]) :
                              l.dst = dir[p].links[x][j].dst]_vars
=============================================================================
