# A formal model of sstorytime-kv

This directory models the parts of SSTorytime (Go, BadgerDB) that keep state or
search it, checks the models with TLC on small instances, and proves the central
invariants with TLAPS for every value of the constants. Every definition is a
reading of the Go source; `PROJECT.json` gives its file and lines.

- [1. The system](#1-the-system): components, state, operations, what is hard
- [2. Modules](#2-modules): which models which part, and how
- [3. Runs](#3-runs): what is checked, with which bounds
- [4. Fairness and stopping](#4-fairness-and-stopping)
- [5. Proofs](#5-proofs)
- [6. Where code and text disagree](#6-where-code-and-text-disagree)
- [7. What is not modelled](#7-what-is-not-modelled)
- [8. Plan](#8-plan)

To repeat a result: `tlc -config MCPaths.cfg MCPaths` for a run, `tlapm
Contexts_proofs.tla` for a proof.

## 1. The system

SSTorytime keeps a graph of short texts. Notes are written in N4L files, compiled
by `N4L` into an in-memory directory, uploaded to an embedded key-value store,
and read back by `searchN4L` and `pathsolve`, or by Go programs that use the
library directly (`Vertex`, `Edge`, `HubJoin`).

| Component | State | Operations | What is hard | What makes it correct |
|---|---|---|---|---|
| Node and chapter store (`kv_badger.go`) | keys `node:`, `text:`, `chap:`, `pm:`, `seq:node` | AddNode, DeleteChapter, SavePageMap, reads | three transactions per AddNode with a leased id range between them; three indexes over one record; a process that dies in between | indexes agree with nodes, no link to a deleted node, a pointer always means the same text, ids are never used twice |
| Graph interface (`SSTorytime.go` 529-620, `store_crud.go`) | `edge:` rows | Vertex, Edge, HubJoin, AddLink | an edge is two transactions, a hub many; chapters are deleted underneath | both directions of an edge are there; a row never leads to a node that is not the one it was made for |
| Context labels (`SSTorytime.go` 4837-5035, `kv_badger.go` 650-760) | `CONTEXT_DIRECTORY`, `CONTEXT_DIR`, `CONTEXT_TOP`; keys `ctx:name:`, `ctx:ptr:` | RegisterContext, TryContext, UploadContext | two numberings (memory and store), of which one restarts in every session | name -> pointer -> name comes back |
| Upload (`N4L.go` 250-330, GraphToDB) | `NODE_DIRECTORY`, the store | Upload with and without `-force`, GraphToDB | a second run, a run that was killed, several conflicting chapters that share nodes | under `-force` exactly the new version remains; without it nothing that was there changes; other chapters are untouched |
| Path and cone search (`SSTorytime.go` 1660-1915, 2428-2860, 4004-4065; `store_paths.go`) | none of its own; reads memory and store | cones, enumeratePaths, GetPathsAndSymmetries, super nodes | depth-first search with a shared limit; two waves over links and inverse links; a path turned around shifts arrows against nodes | what is found is a walk; nothing short of the limit is missed |
| N4L parser and note-taking memory (`N4L.go`) | line memory, aliases, section, context and sequence state | one handler per token | ordering of tokens, references to earlier lines (`$1.2`), sequence mode across lines | every item is filed under its chapter, every arrow has its inverse |
| Arrows and inference (`SSTorytime.go` 341-389, `N4L.go` 430-592, 717-882) | `ARROW_DIRECTORY`, `INVERSE_ARROWS`, closures | InsertArrowDirectory, CompleteInferences, CompleteCloseness, CompleteSequences | closures extend the lists they iterate over | the two name maps and the directory agree; arrow and inverse are those of the files; closure adds links of the declared kind only |
| Page maps (`kv_badger.go` 790-982) | keys `pm:` | SavePageMap, GetPageMap | order by padded numbers in key text, paging | rows go with their chapter; a page is the lines of the chapter in order |
| Node orbits and stories (`SSTorytime.go` 3431-3591) | satellite arrays, node cache | GetNodeOrbit, GetLongestAxialPath | one goroutine per link type over shared paths; offsets into paths | each satellite once, in the array of its type; an axis is a walk along one arrow |
| Short-term memory of searches (`SSTorytime.go` 3683-3822) | STM tables | UpdateSTMContext, AddContext | ages and counters of fragments; what is compared with what | what is forgotten and what is counted |
| Text index (`bleve_*.go`) | an index directory beside the store | open, rebuild, batch, query | the old index is removed before the new one is built | every stored text can be found |
| Search command (`searchN4L.go`, `SSTorytime.go` 4090-4660) | SearchParameters | DecodeSearchField, FillInParameters, MinMaxPolicy, Search | a cursor that several cases move by different amounts; keyword order, defaults | no word is lost, each command reaches the read it names, reading ends |
| Fractionation, coordinates, matrices, printing, SQL codecs | none | | floating point, text layout | |

How they interact: the parser fills `NODE_DIRECTORY` and the context directory;
`Upload` compares chapters with the store, deletes, and calls GraphToDB, which
calls AddNode once per node and uploads the contexts. Before the notes, the same
program reads its configuration into the arrow directory. The interface calls
AddNode and AddLink directly and TryContext for contexts. Searches read
`NODE_DIRECTORY` (the cones) and the store (everything else); a search command is
decoded into parameters, by which one of seven handlers is chosen, and leaves its
terms in the short-term memory. BadgerDB locks its
directory, so one process at a time has the store open and, within it, one
goroutine writes: the hard interleavings are not between threads but between
*runs* - a process that dies between two transactions, a second session over the
keys of the first, a deletion between two additions. The one place with
goroutines is the orbit assembly, where each writes an array of its own.

## 2. Modules

| Module | Extends / instantiates | Models |
|---|---|---|
| `ChapterGraph` | | the abstract promise of the store: a set of filed texts with chapters |
| `ChapterStore` | instantiates `ChapterGraph` | AddNode, DeleteChapter, SavePageMap over keys, with crashes |
| `GraphApi` | extends `ChapterStore` | Vertex, Edge, HubJoin, AddLink on top of the store |
| `Ingest` | extends `ChapterStore` | one compiler run after another over one store |
| `Contexts` | | the context directory and its keys over several sessions |
| `Paths` | | cones, path enumeration, wave search, super nodes |
| `NoteMemory` | | `NODE_DIRECTORY` of the compiler: nodes, links, annotations, inference |
| `Notes` | extends `NoteMemory` | the reader of N4L files, token by token |
| `Arrows` | | the reader of arrow configurations, the arrow directory and its lookups |
| `Searches` | | a search command from its words to the handler that answers it |
| `Orbits` | extends `Paths` | the goroutines that assemble an orbit; the axis of a story |
| `ShortTerm` | | the short-term memory of searches |
| `ChapterStore_proofs`, `Contexts_proofs`, `Arrows_proofs`, `Notes_proofs` | the component and `TLAPS` | theorems |
| `Clients_proofs` | `GraphApi`, `Ingest`, `ChapterStore_proofs` | theorems about the two that write into the store |
| `Searches_proofs` | `Searches`, `ShortTerm`, `Induction` | theorems about search commands and the short-term memory |
| `Paths_proofs` | `Orbits` (and so `Paths`), `Induction`, `TLAPS` | theorems about path searches, orbits and stories |
| `Induction` | | lemmas of the proofs: induction over data, folds as runs |
| `MC...` | the component and `TLC` | the instances |

**ChapterStore.** One variable per key family: `node` (id to record or `NoNode`),
`text` (folded text to id), `chapIdx` (set of label and id), `pm` (rows per
chapter), `seqStored` (the persisted value of `seq:node`). AddNode is its code
path: `AddExisting` (the `text:` key is found: merge the chapter, one
transaction) or `AddLease` (GetSequence takes `Bandwidth` ids in a transaction of
its own), `AddWrite` (the keys of the new node), `AddRelease` (the deferred
Release gives the unused ids back). `Crash` is possible at each of these points;
committed transactions stay. `DeleteChapter` is one step because it is one
WriteBatch: nodes that are exclusive to the chapter go with their `text:` keys,
shared ones lose the chapter, links to deleted nodes are removed from survivors,
page rows go; a label without a key is an early return, which leaves them.
`SavePageMap` looks at no key, so that rows can be stored for a chapter that has no
node. A Chap string is the multiset of its comma-separated tokens; two
strings that differ only in the order of tokens are one label in the model. A
node's links are the set of their destinations, since nothing here looks at
arrow, weight or context. `issued` is a history variable: the ids a node was ever
stored under.

**GraphApi.** `todo` is the list of `edge:` rows a call has still to write, one
transaction each: two for Edge, two per member for HubJoin, whose container is
added first (`HubJoinNew`) or known (`HubJoinKnown`). A member that is its own
container ends the process in the middle, as the code does. `crashes` counts
interrupted calls. What a step does to the nodes is a step of `ChapterStore`.

**Contexts.** `dir`, `mem` and `top` are the three variables of the process;
`nameKey` and `ptrKey` the two key families. Sessions are of two kinds: a
compiler registers contexts while it reads (RegisterContext, MergeContextLists)
and uploads its directory at the end; a program on the interface calls
TryContext, whose branches are the actions `TryKnown`, `TryRestore`, `TryUpload`
and `TryRegister`. `Stop` ends a session at any point. `Canon` is
NormalizeContextString as a function.

**Ingest.** A run of `N4L -u [-force]`: `ReadItem` and `ReadLink` build
`NODE_DIRECTORY` (idempotent on the text, appending chapters as
AppendTextToDirectory does), `Upload` decides, `DeleteNext` deletes the next
conflicting chapter, `LoadKnown`, `LoadNew`, `LoadWrite`, `LoadRelease` are
GraphToDB's AddNode for the next node, `Kill` is possible anywhere. One storage
class is modelled. Page rows and arrows do not occur because GraphToDB announces
both and stores neither; `-wipe` only sets a flag nothing reads.

**Paths.** `I` is the graph (chosen in `Init` and never changed), `query` the
search. enumeratePaths is a state machine with the code's own stack (`Expand`,
`StopAtDepth`, `EmitLeaf`; `enumeratePaths` starts the next call). A path search
is two enumerations to depth 1 (`PrimeLeft`, `PrimeRight`) and then one action
per turn of the loop. The breadth-first cones are operators, evaluated in one
step each. `loaded` and `stored` say whether the process memory and the store
hold the graph, since the first step of a wave reads one and the later steps the
other. Paths hold neither the start nor, after splicing, the end: that is how the
code has it, and the properties are stated accordingly. Consequences one would
not guess, all of them in the model: a direct link between start and end is never
an answer; a path may come back to its start; the chapter filters the first step
only; `mindepth` is compared with the number of solutions, so that with the
command's default of 1 a unique path is passed over and overwritten by the next
turn; `maxdepth` is also the limit on the links of a node. A link need not have its inverse:
CompleteCloseness and CompleteSequences append the links they infer at one end only
(`N4L.go:851`, `N4L.go:879`), and the right wave follows what is stored at the other.

**NoteMemory and Notes.** `Notes` has one action per kind of token that
ClassifyTokenRole tells apart (`Section`, `Context`, `PlusText`, `LineLabel`,
`Relation`, `Item`, `Ditto`, `Reference`), `EndLine` and `EndFile` for
UpdateLastLineCache, `NewFile`, and `Infer` for the inferences after the last
file. `runOn` says that the last token took everything up to the next `(` or the
end of the line, which is what GetToken does after an item without quotes: only a
relation or an end can follow. `line` is a record of the `LINE_` variables; its
`state` is LINE_ITEM_STATE, where a context state is written as the operation it
stands for. An item is written by one of three operators, after what came before
it: `LinkedItem` after a relation, `ContextItem` after a context on the same line
(it becomes one more expression), `PlainItem` otherwise. Where the code calls
os.Exit or indexes beyond a slice, `status` becomes `exit` or `panic` and nothing
of the memory is used again. A text ends with or without a last flush, because
GetToken flushes at the end of the text but is not called when the last token
reaches that end.

`NoteMemory` is the directory as a value: a sequence of nodes in the order they
were made, found by text and storage class (`Storage`; an item's class is that of
its text with the annotation marks), with one list of links per arrow. A link has
a destination and the fragments of its context. `AddBackAnnotations` is the walk
over the marked words of an item, whose words are given by `Marks`.
`CompleteInferences` is the three nested passes over the classes, each node taken
as a copy (the code does the same), so that neighbours found later do not count.
The bodies of the loops have names (`Annotated`, `LinkPair`, `CloseOne`, `Hop`,
`Concluded`); the operators of the code are folds of them.
Weights, line numbers and warnings are left out, since nothing decides on them;
`refs` in a page row is history, the nodes of all items of its line.

**Arrows.** A configuration line is a sequence of tokens, a token its first
character and a name; there is one action for each branch of ClassifyConfigRole.
`arrows` holds ARROW_DIRECTORY, its two name maps and INVERSE_ARROWS. FWD_INDEX
outlives its line and its file, as in the code, and so does an annotation mark
within its file. `written` is history, the pairs of arrows that lines put side by
side; it is computed from the line (`LinePair`) and not from the reader's
variables, so that `InversesAsWritten` compares the reader with the text. Arrow
names are stored and compared as they are; which names resemble each other is a
constant relation. The first pairs are those of AddMandatory, which the module
takes as a sequence.

**Searches.** The words of a command are given by what the code asks of each of
them, its pieces between commas among it; characters and quotes are not modelled.
`parts` is the command cut into segments, `c` and `p` are the indices of the two nested
loops of FillInParameters, whose cases are the actions. `Decoded` removes
wildcards and turns Dirac notation into ends, `Search` is MinMaxPolicy and the
chain of conditions in Search, in its order, each with its handler and the nodes
that handler is given. A slice is its words, and `Shared` says that From and To are slices
of one array, which the append of a node pointer to From makes them (`Targets`); what
is then appended to one is written over the other (`Overwritten`), until an append
finds the array full (`Fits`). The process may exit (bad notation, conflicting ends) or
panic (below).

**Orbits.** `Paths` enumerates the paths of the sweep in both directions; then
every goroutine of GetNodeOrbit goes through them at its own pace
(`AssembleSatellites(t)`, one action per path that concerns the type) and writes
its own array; `Done` and `Wait` are the WaitGroup. A Go index `r` of a path is
`r + 1` here. GetLongestAxialPath is one step over the enumerated paths, since it
runs in one goroutine.

**ShortTerm.** One action, UpdateSTMContext, over the two maps of fragments; the
time between calls is a choice. `searchN4L` makes one search per process, so that
the module describes a program that goes on searching.

Definitions marked *Slip* (or *slip*) are plausible programming errors in the definition that
follows. Nothing uses them; each stands for a mutant listed in `PROJECT.json` that
makes the property next to it fail.

## 3. Runs

| Run | Instance | Distinct states | Shows |
|---|---|---|---|
| `chapter_store` | texts dog, Dog, cat (two spellings of one), 2 chapters, 3 ids, leases of 2, 1 page row | 133 000 | indexes exact, links alive, page rows go with their chapter, pointers stable, ids fresh; implements `ChapterGraph` |
| `graph_api` | 3 texts, 1 chapter, 2 mutually inverse arrows, 4 edge rows, hubs of up to 2 members, 2 crashes | 154 000 | at most one half edge per crash; a row of a deleted node never comes to name another |
| `contexts` | 5 names (two spellings of one context, one reserved), 3 pointers, 3 sessions | 2 100 000 | the directory is indexed by pointer, stored names keep their pointers, the first upload is exact |
| `ingest` | 2 texts, 2 chapters, 3 files of up to 2 nodes, 1 kill | 757 000 | uploads end, are complete, replace exactly, touch nothing else |
| `paths` | 2112 of the 4096 graphs of 4 nodes with inverses, 360 of 4 nodes whose links may lack an inverse, 4 graphs of 6; 12 searches | 307 000 | enumeration and cones exact, waves find exactly the nearest meetings and, with inverses, the shortest walks, splices carry the right arrows, super nodes exact |
| `notes` | 3 items, one in quotes and one annotated; 1 line label, 2 sections, a story tag, 1 closure; 2 files, 8 tokens | 3 480 000 | links keep their inverses, page rows replay their lines, stories stay in a chapter, inference closes near neighbours and forgets nothing |
| `arrows` | 36 lines over two names that are both short and long, 1 mandatory pair; 4 lines in 2 files | 239 000 | directory and maps agree, inverses are those of the lines, lookups agree, arrows keep pointer and type, closures come from one line |
| `searches` | 20 keywords, 11 other words; every command of up to 3 words, every one of 4 words out of 8, 3 to 5 starts and a node pointer with every 3 words out of 8 after it, some others | 290 000 | no word is lost but in seven ways, both ends start a path search, every search ends |
| `short_term` | 3 words and one that is skipped, 1 chapter, calls with pauses below, at and above the limit; 4 calls | 53 000 | what is forgotten is what returns late |
| `orbits` | 125 graphs of 3 nodes, 81 of 5, 2 limits; a story along an arrow in each | 145 000 | orbits exact in every order of the goroutines, which always come to an end; axes follow their arrow |
| `upload_links`, `nearest` | the instances of `ingest` (no kill) and `orbits` | | section 6 |

Why the bounds are enough to be interesting:

- *chapter_store*: three ids and leases of two mean that a lease is left over,
  given back, leaked and taken again; two chapters give a node that is
  exclusive, shared, and exclusive again; two spellings collide in the text
  index. Deletion and re-addition can alternate until ids run out.
- *graph_api*: one chapter, because what is new here is the order of rows and
  crashes; the store under it is explored with two in `chapter_store`.
- *contexts*: with three sessions, a context can be stored by the first, restored
  by the second, and overwritten or met again by the third. Three pointers let
  the directory be sparse.
- *ingest*: a first version, a killed replacement and a rerun are three files. The
  bounds on ids and tokens are large enough never to bind, so no upload is cut
  short by the model.
- *paths*: of the graphs of four nodes, one of each two that differ by the names of
  c and d, which most searches do not tell apart. Two name c in their chapter or
  their ends; of these the other half is not run, but the theorems of section 5
  hold for every graph. The graphs with links of one way are from a to b by way of c
  and d, with any of these links stored at either end or both. Four nodes hold every shape of two waves that meet (between start and
  end at most two inner nodes, cycles through the start, dead ends). The larger
  graphs have the fan-out that super nodes need, two links between the same
  nodes, and a loop where the waves meet first. Each node has the compiler's empty link besides. The searches cover both
  orientations, a chapter filter, arrow and type filters, a limit that cuts, two
  ends, and an unloaded memory.

- *arrows*: a redefinition needs an arrow, a line that shares one of its names, and
  a line that repeats the first: three lines after the title of their section, in
  one file or the next. Names that are the short one of one arrow and the long one
  of another are what the two maps can disagree about.
- *searches*: the cases of FillInParameters look at the word before and the words
  after theirs, up to the next command; three words are a case between two others,
  and the words chosen for four are those that replace or move parameters. With three
  words From has room for a fourth in its array, with four it is full, with five there
  is room for three more: the commands with as many starts reach both sides of each.
- *short_term*: a fragment is said, said again (and moved to the other map), and
  comes back late; the fourth call shows what the third has left.
- *orbits*: walks of three links, the probe radius, with every combination of two
  arrows of one type, their inverses and near links; the larger graphs have a fork
  and walks that are cut. The pairs of AddMandatory and `empty` links are present.

- *notes*: eight tokens are two short lines in each of two files, or one file with
  a section, a story tag and two linked lines, or three
  similar items noted on one line and the next. The arrow that notes use is its
  own inverse, so that a relation can be noted from either end; stories and
  annotations bring pairs of different inverses. A line label is stored and
  referred to within that. An unknown arrow and references beyond the end of a
  list reach the exits; a context in mid-line reaches the panic.

The properties and the code behaviour behind each are stated above their
definitions. The ones that are least obvious from the code:

- `ChapterIndexExact` (ChapterStore): a key `chap:c:p` exists exactly when the
  Chap of node `p` is that label or has that token, over any order of additions,
  merges and deletions.
- `DanglingStaysDangling` (GraphApi): `edge:` rows survive the deletion of their
  nodes; this is harmless only because a released lease never gives back a used
  id.
- `ReplacedExactly` (Ingest): after a `-force` upload, also one that follows a
  killed one, the chapters of the file hold exactly the file's texts. Deleting one
  of two chapters that share nodes rewrites the label of the shared ones, so that
  the second deletion must find them under the new label.
- `NoForceProtectsUnshared` (Ingest): without `-force` a chapter in the store is
  not changed, unless the file puts a text in two chapters (section 6).
- `PagesReplayLines` (Notes): three structures grow side by side while a line is
  read (its items, their node references, its path); a page row starts at the
  first item of its line and, if every further item came with a relation, walks
  along existing links over exactly the items.
- `StoriesStayInChapter` (Notes): the last item of a story outlives lines,
  contexts, sections and files; nevertheless both ends of a story link were noted
  in one chapter. This is where notes do not use the arrow of stories for anything
  else (`StoriesApart`: relations, marks, closures and near arrows leave it and its
  inverse alone); the instance is such a case.
- `NearPairsClosed` (Notes): the neighbours of a node at the end of the readings
  are linked pairwise, from the earlier to the later, although the pass extends
  lists of nodes whose turn is still to come.
- `InversesAsWritten` (Arrows): a line defines the forward arrow and, some tokens
  later, its inverse; what connects them is FWD_INDEX, which nothing resets. A
  refused definition must leave no pair of arrows that no line puts together.
- `ClosuresOfOneLine` (Arrows): a rule is composed in a variable that nothing
  resets at the start of a line. It is nevertheless made of arrows of one line, and
  a `+` after a result takes the rule up again, so that one line can write a rule
  and a longer one.
- `LookupsAgree` (Arrows): two maps, a scan for names, a scan for similar names, a
  scan for types and a reading of numbers name the same arrows, but for arrow 0
  and for numbers that are link types.
- `RowsGoWithChapter` (ChapterStore): the page rows of a chapter are removed when its
  nodes are and not otherwise. A chapter that has rows and no node keeps them
  (section 6).
- `NothingLost` (Searches): the cases move the cursor by one, two or as many words
  as belong to them; every plain word nevertheless ends up somewhere, but for seven
  ways to lose it, which the property lists (`Lost`), each by the place of the word.
  One of them is an array that From and To share.
- `ExplicitPathsSolved` (Searches): a command with both ends, in any of its five
  forms, reaches the path search with the nodes of its two words.
- `OrbitExact` (Orbits): against the walks of the graph, for every interleaving.
- `ForgottenOnReturn` (ShortTerm): what is compared with the limit is the gap
  before the last occurrence and not the age.
- `MeetingsFound` (Paths): the two waves, one over links and one over inverse links,
  answer with exactly the shortest meetings of a trail from the start and a trail from
  the end, of which the first has as many links as the second or one more.
- `ShortestFound` (Paths): where every link has its inverse, these are exactly the
  interiors of the shortest walks.

## 4. Fairness and stopping

- `Ingest` assumes weak fairness of `UploadStep`: a compiler run that is not
  killed goes on. It is a sequential loop without waiting, so nothing else can
  hold it up. `Kill` and starting another run are not fair: `UploadEnds` says that
  an upload ends, by completing or by being killed, not that another is started.
- `Searches` assumes weak fairness of its next step, for the same reason: a command
  is read in one loop. `EverySearchEnds` is what could fail: each case of the
  switch must move the cursor.
- `Paths` states weak fairness of its next step likewise; no property depends on it.
- `Orbits` needs no fairness: it has a stuttering step (`Returned`) for the caller
  that has its answer, and `orbits` checks that no other state is without a step.
  Every goroutine only has as many steps as there are paths, so that they always
  get to `Wait`.
- The other modules are safety only: nobody has to call the library.
- The other configurations say `CHECK_DEADLOCK FALSE`, because the systems really
  stop: ids, sessions, calls and files are bounded in the models, a search has an
  end, and the readers end with the last file or on an error.

## 5. Proofs

TLAPS checks theorems about every component that is modelled, and the lemmas of
`Induction` they share. They hold for every set of texts, chapters, arrows and names, every
bandwidth, every configuration, every notes file, every graph and search, and every
bound.

**ChapterStore_proofs.** The inductive invariant `Inv` is the conjunction of the
type invariant, the three safety invariants and three facts they need: no node has
a repeated token (`NoRepeats`), every id that was ever used lies below the
sequence (`IdsBelowCounter`), and the state of the call in progress
(`CallInProgress`: between lease and write the text is still unknown and the
leased id unused - which is where one writer at a time is needed). There is one
lemma per action; `DeleteChapter` rests on a lemma that says which nodes it
deletes, rewrites and keeps. The action properties `StablePointers`,
`IdsNeverReused` and `RowsGoWithChapter` and the refinement of `ChapterGraph` (initial states and one
lemma per action, crash and release being stutters) follow from `Inv`.

All but the types carry the hypothesis `SingleChapters`: callers pass one chapter
at a time. It is needed: adding a known text with the Chap string "a,b" writes
one key for that whole string (section 6), and `ChapterIndexExact` fails. The library's interface satisfies it as long as a chapter name has no
comma; a file that puts a text into two chapters does not.

**Clients_proofs: the interface.** The invariants of the store carry over
(`ApiStoreInvariant`). `ApiInv` says that rows, and the rows still to be written, only name ids
that were issued; with `IdsAreFresh` it follows that a row of a deleted node never
comes to name another. `HalfEdgesOnlyFromCrashes` counts, so its invariant
`EdgeInv` does: the rows are finitely many; the queue, read from its end, is made
of pairs of a row and its inverse; the half edges other than the one in progress
(`Pending`) are at most as many as the crashes. Its hypotheses are `SingleChapters`
and `PairedArrows` (the inverse of the inverse is the arrow), which is what
InsertInverseArrowDirectory writes, both entries at once (`SSTorytime.go:379-389`).

**Clients_proofs: uploads.** An upload can be killed and repeated, and a file may put a text
in two chapters, so that the invariant of the store does not apply as it stands:
`IngestInv` keeps of it what survives sharing (`StoreInv`), and the rest under the
condition that no file shared (`Unshared`). `LoadCall` ties the AddNode in
progress to the node GraphToDB is at; `LoadedFiled` says that what was loaded
stays filed; `OldVersionGoes` that every chapter of the file with older texts is
still to be deleted, also after the labels of shared nodes were rewritten, and
none is left when loading begins; `OthersUntouched` and `NoForceNoConflict` relate
the store to what it was before the run. The three safety properties of the run
`ingest` follow.

**Contexts_proofs.** `ContextInv` joins the directory invariant (entries sit at
their pointer, what the memory map knows is in the directory, nothing is above
`top`), the two invariants on keys, and `PlainNamesStored`, which says that a
name in canonical form that is stored is either known or restorable; from it
follow the idempotence of TryContext and that stored names keep their pointers.

**Arrows_proofs.** Every property of the run `arrows` is proved. `DirectoryExact`
holds with the types of what the reader holds; the lemma with content is that
InsertArrowDirectory keeps it (`InsertKeepsExact`): the scan for either name,
which refuses a pair that shares one, is what makes a new entry of a map hide no
older one. `ArrowsKeepPointers` comes with it, since an insertion appends or does
nothing. `LookupsAgree` is a consequence: what a scan finds for a name is what the
two maps hold for it (`ExactlyFromMaps`), hence at most two arrows.

`InversesAsWritten` needs to know what the reader holds of the line so far:
`LineInv` says which `+` FWD_ARROW comes from and that FWD_INDEX is what its pair
resolved to, although nothing ever resets them; `SettledAll` that both pairs of a
line that was read have been decided, so that no later line can accept or refuse
them differently. `ClosuresOfOneLine` rests on `RuleInv`, which counts the names of
the line against the items collected. The attempt to prove it showed that it had
been stated wrongly: a `+` after a result takes up the rule again.

**Notes_proofs.** Every property of the run `notes` is proved, for notes of any
length. The invariant `Inv` says, besides types, that the references of a line are
at most its items and its path replays over them (`LineOK`), that rows do
(`PagesOK`), that the last item of a story is on the line or on a row of the
section the story is in (`StoryOK`), which makes every story link stay in a
chapter (`StoryLinksOK`), and that links are mirrored before inferences are drawn
(`MirrorOK`). The lemmas about the memory say what every reading does to a directory
(`Noted`: it grows, keeps mirrors, adds no story) and what inference does
(`Inferred`, `Closed`: what is closed stays closed while lists of neighbours
grow). Only `NotesKeepInverses` has a hypothesis (`Mutual`: inverses are mutual);
that `Arrows` grants it for undisturbed pairs only is the subject of section 8.

**Induction.** The theorems of the library that allow induction over data take an
operator as a parameter, which the installed provers do not instantiate. This
module states induction over sets instead: the strict subsets of a finite set are
well-founded, hence a set of naturals has a least element, hence induction over
the steps of a run, hence what holds at the start of a fold and is kept by its
steps holds of its result. Folds and FlattenSeq can be reasoned about through it:
a fold is the last state of a run that takes up one element at a time, a sieve
keeps the positions of what passes a test, a sequence that is appended to once for
each element of another places every element once (`Sieve`, `Placed`, `Once`).

**Paths_proofs.** Eight results, about every graph that `GraphsAssumption` admits,
which asks no inverses of its links, and every search over it.

*Walks.* `SearchInv` says what the enumeration in progress holds: every frame of
its stack and every result is a walk from its start on the side it is searched
from, over links (right) or inverse links (left), the first step read from memory
and the others from the store. `AnswerInv` carries that to the solutions: a left
path is joined to a right path that was turned around, and since the arrow of a
link is shifted against its node when a path is turned (`AdjointLinkPath`), the
arrows of the second half are those of the links the walk really takes. This is
`SplicesAreWalks`; nothing is assumed of inverses, so that it holds with links of one
way, whose later half stands in the splice under the inverse of the arrow that was
followed.

*Super nodes.* `LengthInv` says that the paths of one wave have one length. It is what
makes `SuperNodesExact` provable: the code compares the nodes of two paths
position by position, which means something only if the positions correspond. The
grouping (`Together`) is a run over pairs of paths that joins groups; its lemmas say
that a group holds nodes that exchange, and that groups of exchanging nodes get
joined.

*Enumeration.* `EnumerationExact` is in two halves. That only trails are found is
the invariant above, with the bounds of length and repetition. That every one is
found, and once, is the content: `Covers` says that the frames on the stack stand
apart (none leads to what another leads to), `ConeInv` and `ResultInv` that every
trail the search promises is among the results or lies ahead of exactly one frame,
and that results come tagged by the call that found them. When the stack is empty,
nothing lies ahead. `EveryTrailOnce` states it, with the sorting of the results as a
rearrangement (`GetEntireConePaths` sorts by length). It assumes `OrbitsAssumption`,
that an arrow determines the slot it is stored in, because the enumeration goes
through slots; without it one link could stand in two. It also found
that the property had been stated too widely: see "arrows of one type" in
section 6.

*Cones.* The other half of `ConeExact` is about the breadth-first functions. A ball is
what lies within so many links of the start (`Balls`). `LayerInv` says what a turn of
the loop over depths leaves: unless the list is full, exactly the ball was visited
and the queue holds what this turn has met first, once (`Frontier`); a list that is
full lies between two balls, the smaller of which it holds whole (`Between`), which
is why the nearer nodes come first also where the limit cuts; every link of the list
of links has a node of an inner ball, and no two of one node are the same
(`Carried`). The inner loop is a fold, of which `Swept` and `Collected` are kept by
every link. `ConesAreExact` joins both halves.

*Meetings.* `WavesMeetNearest` proves `MeetingsFound`, about every graph. Trails are
compared by the nodes they visit, over the pairs of nodes that links join (`Edges`).
`WavesSweep` says that each wave holds the trails of its length, all of them and
nothing else: the first step by a run of the enumeration to depth 1 (`Primed`: every
link of the root is on the stack or found), the later ones because a branch is
extended to every node it does not visit, once (`WaveSweeps`). The overlaps of a turn
are then the meetings of its length (`TurnFinds`), and the turns take the lengths in
order, since the waves step in turn (`ldepth \in {rdepth, rdepth + 1}`); `WavesInv`
adds that no meeting is shorter than the turn (`NoneUpTo`).

*Shortest walks.* `WavesFindShortest` proves `ShortestFound`, which is about graphs
whose links all have inverses (`Reversible`). The edges of the right wave are then
those of the left one seen from the other end (`Opposite`), but for the empty links,
so that meetings are walks cut in two (`MeetingPasses`, `PassingMeets`). That a loop
never comes first, which is why `ReturnLoops` is out of reach of these searches, is
`Shortcut`: what lies between two visits of a node can be left out, and the rest has
been met in an earlier turn. With links of one way neither holds (section 6).

*Stories.* `StoriesFollowArrow`: the axis that is cut out of the enumerated paths is
a walk along one arrow (`AxisFollowsArrow`).

*Orbits.* `OrbitOfEveryWalk` proves `OrbitExact` for any number of goroutines in
any order. `OrbitInv` says that each array holds what the first `angle` paths show
(`Gathered`), each satellite once at its place; goroutines share only the paths, which
none of them writes. The end of all of them gives the statement about walks of the
graph, through `EnumerationExact`.

**Searches_proofs.** Two properties and the types, for every vocabulary and command that
`SearchesAssumption` admits and every sequence of searches.

*Reading.* The parts of a command hold its words in their order (`SegmentIs`: the
fold of DecodeSearchField as a run over the words), and the parameters are well
formed at every word. That no word is lost on the way is left to the run `searches`.

*Ends.* `ExplicitPathsAreSolved` is about commands that say little else, and what
else they do not say is the invariant: `EndsFilling` and `KetFilling` say that the
lists hold the two words, each as soon as the part that brings it has been read,
and no other; `PathFound` that decoding and Dirac notation leave exactly the two
ends, and `PathSearched` that of the conditions of `Search` the one of the path
search is then the first that holds.

*Short-term memory.* One search says many fragments, so that its step is a fold.
`CommitRun` makes a run of it, and `Counted` compares the memory after `n`
mentions with the one before the search: a fragment that was known has its number
increased by `n` and `now` as its last mention; if it was mentioned once, the gap is the
time since it was last said, and if more than once, the gap is zero. Hence the
gap exceeds the limit only for a fragment that returns once
(`ForgottenOnReturnHolds`); the invariant adds that a fragment is in one of the two maps
(`STMApart`) and that none is kept with a gap above the limit.

The type invariants `ApiTypeOK`, `ContextTypeOK` and `SearchesTypeOK` are proved and
in no run; the proofs use them.

Every safety invariant and action property of the passing runs is proved, but for
`NothingLost`. Only model-checked are that one and liveness (`UploadEnds`,
`EverySearchEnds`), which the prover does not handle.

## 6. Where code and text disagree

Two have a run that reaches the state; `PROJECT.json` quotes the lines.

| Run | The code | The text |
|---|---|---|
| `upload_links` | links are stored with positions in the directory as destinations, which are ids only in an empty store, and links of a known text are dropped | "Re-imports the edited file from scratch" (README:96) |
| `nearest` | the paths of an orbit do not hold their start, so that index 1 is two links away: a node that is linked to the centre is left out of its orbit | `nearest_satellite = 1` (`SSTorytime.go:3476`), "radius = 0 is the starting node" (`SSTorytime.go:3433`) |

Others are visible in the models without a run of their own:

| The code | The text |
|---|---|
| AddNode of a known text writes one `chap:` key for the whole Chap string it was given (`AddExisting`) | "multi-token `Chap` -> one entry per token" (README:133) |
| DeleteChapter leaves `edge:` rows (`DeleteChapter`; what they do not do is `DanglingStaysDangling`) | it "cleans up any links pointing to those nodes" (`backend_interface.go:26`) |
| DeleteChapter returns before it reaches the page rows if no node is in the chapter (`kv_badger.go:285`), and SavePageMap stores rows for any chapter: such rows outlive the deletion (`RowsGoWithChapter`) | "Drop every pm:<chap>: row so a re-ingest of this chapter starts clean" (`kv_badger.go:443`) |
| every session numbers contexts from 1, and a compiler overwrites `ctx:ptr:` keys of earlier ones (`UploadContext`) | lookups "work correctly across sessions" (`kv_badger.go:657`) |
| the empty link that holds a node's contexts joins any two searched nodes through the zero pointer (`EmptyLink`) | "a nullpotent link" (`N4L.go:1800`) |
| a one-word item that is marked as a whole is linked to itself: the test compares the text of the word with a shortened "word..." (`AddBackAnnotations`) | "Arrow's origin points to itself" is an error (`N4L.go:76`), `tests/fail_6.in` |
| cones always start from the nodes of the names, so that a search with one end finds none: the list of those nodes is empty and not nil (`Handler`) | "Open causal cones, from one of these three" (`searchN4L.go`) |
| the words before and after "to" without a "from" become names, unless the command splits there; the search is for orbits (`Begins`, `Text`) | usage "a1 to b6 arrows then" (`searchN4L.go`) |

Read in the code, without a text that says otherwise:

- `pathsolve` and `searchN4L` open a store and search an empty memory, so that
  their path searches come back empty; `SuperNodes` drops the last group;
  `searchN4L` tests for nil where `SolveNodePtrs` returns an empty, non-nil list.
- Without `-force`, a file whose texts are in two chapters conflicts with neither
  and is added to stored chapters, although README:98 says that the tool refuses;
  `NoForceProtectsUnshared` excludes such files.
- `:: x :: item (arrow) other` on one line ends in a panic: LINE_ITEM_REFS has no
  entry for an item that was taken for a context.
- A text that begins with `+`, a line label or a context after a relation replaces
  the pending relation, which is dropped without a report.
- The last line of a file that does not end with a newline or a space has no page
  row. PAGE_MAP is never uploaded.
- A long text with and without annotation marks becomes two nodes.
- An item that a `$` reference resolves to is not stored under the label of the
  line it stands in.
- A context reset (`:: x ::`) leaves sequence mode on.
- A node pointer after "to" replaces the targets before it by the words of "from"
  (`Targets`). Four minima or four maxima without as many of the other end in a
  panic (`MinMaxPanics`), a story search that finds an opening likewise: it takes
  the first of an empty list of arrows (`Search`).
- The help query and the bare `\remind` are never rewritten by a command line,
  because main ends every word with a space. `searchN4L` has no arrows and an empty
  memory, so that orbits and cones are empty and arrow names mean nothing.
- GetLongestAxialPath sets `max` to the index of a path and compares it with a
  length; it starts at 1, so that a single path ends in a panic (`LongestAxial`).
- GetFwdConeAsNodes asked for no nodes returns one: it compares the length with the
  limit after it appends (`SSTorytime.go:1687`). `LayersExact` is about limits above 0.
- An orbit's radius is that of the first path found, not the least. Two near links
  after one another are taken for a step back (their types are opposite) and the
  second is not shown. Orbits are printed without the links of type CONTAINS.
- The short-term memory forgets only what it has just been told again.
- An arrow that is redefined with another section or sign keeps its old type, with
  no error; one that shares a name is refused with a warning, and its line goes on
  without it (`InsertedPtr`). Arrow 0 cannot be searched for by name, and arrow
  numbers up to 3 are link types (`OfNumber`).
- A chapter whose name is a substring of the chapters a text is in is taken for one
  of them (`SSTorytime.go:286`).
- The append of a node pointer to From gives To (`Targets`), which is From's array
  where that has room: after `\from a b c to (1,2) \from d` both hold a, b, c, d and
  the pointer is gone (`Overwritten`). This is the last of the ways in `Lost`.
- `\to (1,2)` as the first words of a part splits the pointer at its comma
  (`ToNodes`), which only the other form tests for.
- The links that closeness and sequences infer are stored at one end
  (`N4L.go:851`, `N4L.go:879`), and the right wave does not see them from the other.
  A path over such links is found if the waves meet behind them and missed if they
  meet before; where a rule results in an inverse arrow, only the right wave walks the
  link it means. `MeetingsFound` says which paths are found.
- Arrows of one type: ArrowPtrFromArrowsNames appends the type of every arrow that
  is asked for (`SSTorytime.go:1450-1489`), so that a search for two arrows of one
  type goes through the links of that type twice and finds each path as often.
  `EnumerationExact` is therefore stated for searches with distinct types.
- Near neighbours are closed in one direction only, and only those a node has
  when its turn comes.

## 7. What is not modelled

- Disk errors and the splitting of a WriteBatch beyond the library's transaction
  limit: BadgerDB is taken to commit or not to commit.
- Key text: chapter names are atoms, so names with a colon that make one key a
  prefix of another are outside.
- N4L text below the token: characters, quotes, annotation syntax. Weights of
  relations, line numbers and warnings of the reader.
- Characters of configuration lines and search commands. Printing of orbits and
  stories.
- The reading of page maps: rows come back in the order of their padded key text,
  which is a fact about digits, and no command writes rows.
- The text index: no command opens it, its openings and batches are calls of the
  library, and its query grammar is text processing.
- Fractionation and intentionality statistics, coordinates, eigenvector
  centrality, betweenness ratios: floating point.
- Printing and the SQL string codecs, which nothing calls.

## 8. Plan

Done: the store and its abstract specification, the interface, contexts, upload,
paths, the reader of notes with its inferences, the arrow directory and its
reader, search commands, orbits and stories, short-term memory; proofs of the
safety of the store, the interface, contexts, upload, the arrow directory, the
reader of notes, cones, path enumeration and splicing, shortest paths, super nodes,
orbits and stories, search commands, short-term memory.

Next, a composition: `Notes` takes mutual inverses as given, which `Arrows` grants
only for pairs that no other line touches; joining the two would show what a
redefinition does to links that are noted. Then a proof of `NothingLost`, whose
invariant must say at every word which of the ways to lose it are still to come.
