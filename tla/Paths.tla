-------------------------------- MODULE Paths --------------------------------
(***************************************************************************)
(* The searches of the library over a fixed graph (SSTorytime.go,          *)
(* store_paths.go): the forward cones, the enumeration of paths            *)
(* (enumeratePaths and the functions built on it), the two waves of        *)
(* GetPathsAndSymmetries that pathsolve and searchN4L start, and the       *)
(* grouping of their solutions into super nodes.                           *)
(*                                                                         *)
(* A path is the sequence of its links, so it does not hold its start.     *)
(* The cones and the first step of a wave read the graph of the process    *)
(* (NODE_DIRECTORY), the later steps of a wave read the store: loaded and  *)
(* stored say which of the two holds the graph.                            *)
(***************************************************************************)
EXTENDS Integers, FiniteSets, SequencesExt, Functions

CONSTANTS NodePtrs, Arrows,
          Nowhere,          \* the zero pointer, which no node has
          FirstArrow,       \* arrow number 0 of the directory, "empty"
          INVERSE_ARROWS,   \* the inverse of every arrow
          Graphs,           \* the graphs that are searched
          Queries           \* the searches that are asked

STTypes == -3 .. 3
Link == [arr : Arrows, dst : NodePtrs]
Kinds == {"nodes", "links", "cone", "paths"}
Query == [kind : Kinds,
          starts : Seq(NodePtrs), ends : Seq(NodePtrs),
          orientation : {"fwd", "bwd", "both"},
          sttypes : Seq(STTypes),   \* empty: no choice of link types
          arrows : SUBSET Arrows,   \* empty: every arrow
          admit : SUBSET NodePtrs,  \* nodes whose chapter matches
          depth : Nat \ {0}, limit : Nat, mindepth : Nat,
          sorted : BOOLEAN, loaded : BOOLEAN, stored : BOOLEAN]

ASSUME PathsAssumption ==
    /\ FirstArrow \in Arrows /\ Nowhere \in NodePtrs
    /\ INVERSE_ARROWS \in [Arrows -> Arrows]
    /\ \A a \in Arrows : INVERSE_ARROWS[INVERSE_ARROWS[a]] = a
    /\ \A q \in Queries : q \in Query /\ (q.kind \in {"nodes", "links"} => q.starts # <<>> /\ q.sttypes # <<>>)

(* What the parser builds: MergeLinkLists keeps a link once, and                  *)
(* IdempAddContextToNode gives every node an "empty" link to nowhere to hold the  *)
(* contexts of the node.  IdempAddLink stores a link with its inverse in the      *)
(* opposite slot, CompleteCloseness and CompleteSequences store it alone, so that *)
(* a link need not have its inverse.                                              *)
EmptyLink == [arr |-> FirstArrow, dst |-> Nowhere]

ASSUME GraphsAssumption ==
    \A G \in Graphs :
        /\ G \in [NodePtrs -> [STTypes -> Seq(Link)]]
        /\ \A n \in NodePtrs, st \in STTypes :
              IsInjective(G[n][st])
        /\ \A n \in NodePtrs \ {Nowhere} : EmptyLink \in ToSet(G[n][1])
        /\ \A st \in STTypes : G[Nowhere][st] = <<>>

VARIABLES I,          \* the link lists of the nodes
          query,
          job,        \* "cone", "left", "right", "waves" or "done"
          todo,       \* starts enumeratePaths has still to be called for
          stack,      \* the frames of enumeratePaths
          found,      \* its result so far
          left, right, ldepth, rdepth,
          solutions,  \* the splices of the last turn
          answer      \* what the caller gets

pathVars == <<I, query, job, todo, stack, found, left, right, ldepth, rdepth, solutions, answer>>
waveVars == <<left, right, ldepth, rdepth, solutions>>

-----------------------------------------------------------------------------
(* Which links a search may follow. *)

AdjointArrows(arrows) == {INVERSE_ARROWS[a] : a \in arrows}
(* Slip: the order is turned around, the signs are not. *)
SameSTtype(sts) == [i \in DOMAIN sts |-> sts[Len(sts) + 1 - i]]
AdjointSTtype(sts) == [i \in DOMAIN sts |-> -sts[Len(sts) + 1 - i]]

(* GetPathsAndSymmetries fills in the link types, in this order. *)
DefaultSTtypes == <<1, 2, 3, 0, -1, -2, -3>>
SttypesOf(q) == IF q.kind = "paths" /\ q.sttypes = <<>> THEN DefaultSTtypes ELSE q.sttypes

LeftTypes == SttypesOf(query)
RightTypes == AdjointSTtype(LeftTypes)
LeftArrows == query.arrows
RightArrows == AdjointArrows(query.arrows)

(* The slots enumeratePaths scans: those asked for, or a half of them. *)
Ranges(sts, forward) ==
    IF sts # <<>> THEN sts ELSE IF forward THEN <<0, 1, 2, 3>> ELSE <<-3, -2, -1>>

(* The elements of s that pass, in their order: a SelectSeq the proofs can unfold. *)
Those(s, Pass(_)) == FlattenSeq([i \in DOMAIN s |-> IF Pass(s[i]) THEN <<s[i]>> ELSE <<>>])

LinksOf(n, sts, arrows) ==
    LET Admitted(l) == arrows = {} \/ l.arr \in arrows
    IN  FlattenSeq([i \in DOMAIN sts |-> Those(I[n][sts[i]], Admitted)])

MemoryLinks(n, sts, arrows) == IF query.loaded THEN LinksOf(n, sts, arrows) ELSE <<>>

Tip(path) == Last(path).dst
Nodes(path) == {path[i].dst : i \in DOMAIN path}

-----------------------------------------------------------------------------
(* Breadth-first cones. *)

(* One link of GetFwdConeAsNodes; full is its early return at the limit. *)
MeetNode(limit, acc, l) ==
    IF acc.full \/ l.dst \in acc.visited THEN acc
    ELSE [visited |-> acc.visited \cup {l.dst},
          out |-> Append(acc.out, l.dst),
          queue |-> Append(acc.queue, l.dst),
          full |-> Len(acc.out) + 1 >= limit]

(* One link of GetFwdConeAsLinks, which has no limit. *)
MeetLink(acc, l) ==
    [visited |-> acc.visited \cup {l.dst},
     out |-> Append(acc.out, l),
     queue |-> IF l.dst \in acc.visited THEN acc.queue ELSE Append(acc.queue, l.dst),
     full |-> FALSE]

Meet(kind, limit, acc, l) == IF kind = "nodes" THEN MeetNode(limit, acc, l) ELSE MeetLink(acc, l)
MeetAll(kind, limit, acc, links) == FoldLeft(LAMBDA x, l : Meet(kind, limit, x, l), acc, links)

(* The links of the queue are met one by one, and what they lead to is the next queue. *)
Layer(kind, st, limit, acc) ==
    LET scan == FlattenSeq([i \in DOMAIN acc.queue |-> MemoryLinks(acc.queue[i], <<st>>, {})])
    IN  IF acc.full THEN acc ELSE MeetAll(kind, limit, [acc EXCEPT !.queue = <<>>], scan)

Cone(kind, start, st, depth, limit) ==
    LET first == [visited |-> {start}, out |-> <<>>, queue |-> <<start>>, full |-> FALSE]
        layers[d \in 0 .. depth] == IF d = 0 THEN first ELSE Layer(kind, st, limit, layers[d - 1])
    IN  layers[depth].out

Answer(a) == job' = "done" /\ answer' = a

GetFwdConeAsNodes ==
    /\ job = "cone" /\ query.kind = "nodes"
    /\ Answer(Cone("nodes", query.starts[1], query.sttypes[1], query.depth, query.limit))
    /\ UNCHANGED <<I, query, todo, stack, found, waveVars>>

GetFwdConeAsLinks ==
    /\ job = "cone" /\ query.kind = "links"
    /\ Answer(Cone("links", query.starts[1], query.sttypes[1], query.depth, query.limit))
    /\ UNCHANGED <<I, query, todo, stack, found, waveVars>>

-----------------------------------------------------------------------------
(* enumeratePaths: a depth-first search with an explicit stack.  The first *)
(* step of a wave is an enumeration to depth 1 whose limit is maxdepth.    *)

Enumerating == job \in {"cone", "left", "right"} /\ query.kind \in {"cone", "paths"}
EnumDepth == IF job = "cone" THEN query.depth ELSE 1
EnumLimit == IF job = "cone" THEN query.limit ELSE query.depth
EnumTypes == IF job = "right" THEN RightTypes ELSE LeftTypes
EnumArrows == IF job = "right" THEN RightArrows ELSE LeftArrows

Frame(n, path, forward) == [nptr |-> n, path |-> path, forward |-> forward]
Calls(starts, orientation) ==
    LET Both(n) == <<Frame(n, <<>>, TRUE), Frame(n, <<>>, FALSE)>>
    IN  IF orientation = "both" THEN FlattenSeq([i \in DOMAIN starts |-> Both(starts[i])])
        ELSE [i \in DOMAIN starts |-> Frame(starts[i], <<>>, orientation = "fwd")]

Emit(path) == found' = IF path = <<>> THEN found ELSE Append(found, path)

(* Slip: only the last node of the path is kept from coming again. *)
AnyExtensions(top) ==
    LET New(l) == l.dst \in query.admit /\ (top.path = <<>> \/ l.dst # Tip(top.path))
    IN  Those(MemoryLinks(top.nptr, Ranges(EnumTypes, top.forward), EnumArrows), New)

(* The links that extend a frame: admitted, into a matching chapter, and not to *)
(* a node the path has visited.  The start is not on the path.                  *)
Extensions(top) ==
    LET New(l) == l.dst \in query.admit /\ l.dst \notin Nodes(top.path)
    IN  Those(MemoryLinks(top.nptr, Ranges(EnumTypes, top.forward), EnumArrows), New)

Exhausted == stack = <<>> \/ Len(found) >= EnumLimit

enumeratePaths ==
    /\ Enumerating /\ Exhausted /\ todo # <<>>
    /\ stack' = <<Head(todo)>> /\ todo' = Tail(todo)
    /\ UNCHANGED <<I, query, job, found, waveVars, answer>>

StopAtDepth ==
    /\ Enumerating /\ ~Exhausted
    /\ Len(Last(stack).path) >= EnumDepth
    /\ stack' = Front(stack) /\ Emit(Last(stack).path)
    /\ UNCHANGED <<I, query, job, todo, waveVars, answer>>

Expand ==
    /\ Enumerating /\ ~Exhausted
    /\ LET top == Last(stack)
           links == Extensions(top)
           Push(i) == Frame(links[i].dst, Append(top.path, links[i]), top.forward)
       IN  /\ Len(top.path) < EnumDepth /\ links # <<>>
           /\ stack' = Front(stack) \o [i \in DOMAIN links |-> Push(i)]
    /\ UNCHANGED <<I, query, job, todo, found, waveVars, answer>>

EmitLeaf ==
    /\ Enumerating /\ ~Exhausted
    /\ Len(Last(stack).path) < EnumDepth /\ Extensions(Last(stack)) = <<>>
    /\ stack' = Front(stack) /\ Emit(Last(stack).path)
    /\ UNCHANGED <<I, query, job, todo, waveVars, answer>>

(* GetEntireConePathsAsLinks and GetFwdPathsAsLinks sort by length, the others do not. *)
sortPathsByLength(paths) ==
    FlattenSeq([k \in 1 .. query.depth |-> Those(paths, LAMBDA p : Len(p) = k)])

ReturnCone ==
    /\ job = "cone" /\ Enumerating /\ Exhausted /\ todo = <<>>
    /\ Answer(IF query.sorted THEN sortPathsByLength(found) ELSE found)
    /\ UNCHANGED <<I, query, todo, stack, found, waveVars>>

-----------------------------------------------------------------------------
(* GetPathsAndSymmetries. *)

PrimeLeft ==
    /\ job = "left" /\ Exhausted /\ todo = <<>>
    /\ job' = "right" /\ left' = found /\ todo' = Calls(query.ends, "fwd")
    /\ stack' = <<>> /\ found' = <<>>
    /\ UNCHANGED <<I, query, right, ldepth, rdepth, solutions, answer>>

PrimeRight ==
    /\ job = "right" /\ Exhausted /\ todo = <<>>
    /\ job' = "waves" /\ right' = found
    /\ stack' = <<>> /\ found' = <<>>
    /\ UNCHANGED <<I, query, todo, left, ldepth, rdepth, solutions, answer>>

(* Slip: every link is turned around with its own arrow. *)
UnshiftedAdjoint(LL) ==
    [j \in DOMAIN LL |-> [arr |-> INVERSE_ARROWS[LL[Len(LL) + 1 - j].arr], dst |-> LL[Len(LL) + 1 - j].dst]]

(* Turned around, a link is followed by the inverse of the arrow that led to it: *)
(* arrows are shifted by one, and the first has none of its own.                 *)
AdjointLinkPath(LL) ==
    LET n == Len(LL)
        Prev(j) == IF j = 1 THEN INVERSE_ARROWS[FirstArrow] ELSE LL[n + 2 - j].arr
    IN  [j \in 1 .. n |-> [arr |-> INVERSE_ARROWS[Prev(j)], dst |-> LL[n + 1 - j].dst]]

(* LeftJoin, then RightComplementJoin. *)
Splice(pair) == left[pair[1]] \o Tail(AdjointLinkPath(right[pair[2]]))
IsDAG(path) == Cardinality(Nodes(path)) = Len(path)

NodesOverlap == {pair \in (DOMAIN left) \X (DOMAIN right) : Tip(left[pair[1]]) = Tip(right[pair[2]])}
DagPairs == {pair \in NodesOverlap : IsDAG(Splice(pair))}
LoopPairs == NodesOverlap \ DagPairs
Splices(pairs) == {Splice(pair) : pair \in pairs}

(* The limit on the links of a tip is maxdepth as well. *)
GetConstrainedFwdLinks(n, sts, arrows) ==
    LET links == IF query.stored THEN LinksOf(n, sts, arrows) ELSE <<>>
    IN  SubSeq(links, 1, IF Len(links) < query.depth THEN Len(links) ELSE query.depth)

(* Of several links to one node a branch takes the first; chapters and contexts *)
(* are passed down and not looked at.                                           *)
IncConstraintConeLinks(cone, sts, arrows) ==
    LET Shoots(branch) ==
            LET links == GetConstrainedFwdLinks(Tip(branch), sts, arrows)
                First(i) == \A j \in 1 .. (i - 1) : links[j].dst # links[i].dst
                Shoot(i) == IF First(i) /\ links[i].dst \notin Nodes(branch)
                            THEN <<Append(branch, links[i])>> ELSE <<>>
            IN  FlattenSeq([i \in DOMAIN links |-> Shoot(i)])
    IN  FlattenSeq([p \in DOMAIN cone |-> Shoots(cone[p])])

InRange == job = "waves" /\ ldepth < query.depth /\ rdepth < query.depth
EnoughSolutions == Cardinality(DagPairs) > query.mindepth
EnoughLoops == Cardinality(LoopPairs) > query.mindepth

ReturnSolutions ==
    /\ InRange /\ EnoughSolutions
    /\ solutions' = Splices(DagPairs) /\ Answer(Splices(DagPairs))
    /\ UNCHANGED <<I, query, todo, stack, found, left, right, ldepth, rdepth>>

ReturnLoops ==
    /\ InRange /\ ~EnoughSolutions /\ EnoughLoops
    /\ solutions' = Splices(DagPairs) /\ Answer(Splices(LoopPairs))
    /\ UNCHANGED <<I, query, todo, stack, found, left, right, ldepth, rdepth>>

(* Slip: the right wave goes first. *)
RightFirst == ldepth + rdepth - 1

(* The waves take turns; turn counts the steps of both from (1, 1). *)
turn == ldepth + rdepth - 2

ExpandLeft ==
    /\ InRange /\ ~EnoughSolutions /\ ~EnoughLoops /\ turn % 2 = 0
    /\ solutions' = Splices(DagPairs)
    /\ left' = IncConstraintConeLinks(left, LeftTypes, LeftArrows) /\ ldepth' = ldepth + 1
    /\ UNCHANGED <<I, query, job, todo, stack, found, right, rdepth, answer>>

ExpandRight ==
    /\ InRange /\ ~EnoughSolutions /\ ~EnoughLoops /\ turn % 2 = 1
    /\ solutions' = Splices(DagPairs)
    /\ right' = IncConstraintConeLinks(right, RightTypes, RightArrows) /\ rdepth' = rdepth + 1
    /\ UNCHANGED <<I, query, job, todo, stack, found, left, ldepth, answer>>

(* The loop ends without enough of anything: the solutions of the last turn. *)
GiveUp ==
    /\ job = "waves" /\ ~InRange
    /\ Answer(solutions)
    /\ UNCHANGED <<I, query, todo, stack, found, waveVars>>

-----------------------------------------------------------------------------
(* SuperNodesByConicPath: Together is called for pairs of nodes in this order. *)

TogetherCalls(sols, maxdepth) ==
    LET At(p, depth) == sols[p][depth + 1].dst
        Swap(p, q, depth) ==
            /\ depth >= 1 /\ depth <= Len(sols[q]) - 2 /\ depth <= Len(sols[p]) - 2
            /\ At(p, depth - 1) = At(q, depth - 1) /\ At(p, depth + 1) = At(q, depth + 1)
        PerPath(p, depth) ==
            IF depth > Len(sols[p]) - 1 THEN <<>>
            ELSE <<{At(p, depth)}>> \o
                 [k \in 1 .. (Len(sols) - p) |->
                     IF Swap(p, p + k, depth) THEN {At(p, depth), At(p + k, depth)} ELSE {At(p, depth)}]
        PerDepth(depth) == FlattenSeq([p \in DOMAIN sols |-> PerPath(p, depth)])
    IN  FlattenSeq([d \in 1 .. (2 * maxdepth) |-> PerDepth(d - 1)])

(* Slip: a pair that meets a group does not widen it. *)
TogetherOnce(matroid, pair) ==
    IF \E i \in DOMAIN matroid : matroid[i] \cap pair # {} THEN matroid ELSE Append(matroid, pair)

Together(matroid, pair) ==
    LET hits == {i \in DOMAIN matroid : matroid[i] \cap pair # {}}
        first == CHOOSE i \in hits : \A j \in hits : i <= j
    IN  IF hits = {} THEN Append(matroid, pair)
        ELSE [matroid EXCEPT ![first] = @ \cup pair]

SuperNodesByConicPath(sols, maxdepth) == FoldLeft(Together, <<>>, TogetherCalls(sols, maxdepth))

-----------------------------------------------------------------------------
PathsInit ==
    /\ I \in Graphs /\ query \in Queries
    /\ job = (IF query.kind = "paths" THEN "left" ELSE "cone")
    /\ todo = Calls(query.starts, IF query.kind = "paths" THEN "fwd" ELSE query.orientation)
    /\ stack = <<>> /\ found = <<>>
    /\ left = <<>> /\ right = <<>> /\ ldepth = 1 /\ rdepth = 1
    /\ solutions = {} /\ answer = <<>>

PathsNext ==
    \/ GetFwdConeAsNodes \/ GetFwdConeAsLinks
    \/ enumeratePaths \/ StopAtDepth \/ Expand \/ EmitLeaf \/ ReturnCone
    \/ PrimeLeft \/ PrimeRight
    \/ ReturnSolutions \/ ReturnLoops \/ ExpandLeft \/ ExpandRight \/ GiveUp

PathsSpec == PathsInit /\ [][PathsNext]_pathVars /\ WF_pathVars(PathsNext)

-----------------------------------------------------------------------------
(* Properties. *)

(* The paths of k links a search may follow from n: no node twice, but a path may come *)
(* back to its start.                                                                  *)
Trails(n, k, sts, arrows) ==
    LET Onward(w) == {Append(w, l) : l \in ToSet(LinksOf(IF w = <<>> THEN n ELSE Tip(w), sts, arrows))}
        trails[i \in 0 .. k] ==
            IF i = 0 THEN {<<>>} ELSE {w \in UNION {Onward(v) : v \in trails[i - 1]} : IsDAG(w)}
    IN  trails[k]
Hops(n, sts, arrows) == {l.dst : l \in ToSet(LinksOf(n, sts, arrows))}
Dsts(path) == [i \in DOMAIN path |-> path[i].dst]

(* The trails a call of enumeratePaths promises: those that reach the depth or *)
(* cannot go on inside the chapter.                                            *)
Maximal(call) ==
    LET sts == Ranges(query.sttypes, call.forward)
        inside[k \in 0 .. query.depth] ==
            {w \in Trails(call.nptr, k, sts, query.arrows) : Nodes(w) \subseteq query.admit}
        GoesOn(w) == \E m \in query.admit \ Nodes(w) : m \in Hops(Tip(w), sts, query.arrows)
    IN  inside[query.depth] \cup UNION {{w \in inside[k] : ~GoesOn(w)} : k \in 1 .. (query.depth - 1)}

(* Below its limit, a path enumeration that is given no link type twice returns every *)
(* maximal trail of every call once and nothing else, the shortest first where the    *)
(* function sorts.                                                                    *)
EnumerationExact ==
    (/\ job = "done" /\ query.kind = "cone" /\ query.loaded
     /\ IsInjective(query.sttypes) /\ Len(answer) < query.limit) =>
        LET calls == Calls(query.starts, query.orientation)
            promised == UNION {{<<i, w>> : w \in Maximal(calls[i])} : i \in DOMAIN calls}
        IN  /\ ToSet(answer) = {x[2] : x \in promised}
            /\ Len(answer) = Cardinality(promised)
            /\ query.sorted => \A i, j \in DOMAIN answer : i < j => Len(answer[i]) <= Len(answer[j])

(* Nodes at most d links of type st away from n, without n. *)
Within(n, st, d) ==
    LET ball[k \in 0 .. d] ==
            IF k = 0 THEN {n} ELSE ball[k - 1] \cup UNION {Hops(m, <<st>>, {}) : m \in ball[k - 1]}
    IN  ball[d] \ {n}

(* Asked for more than no nodes, GetFwdConeAsNodes returns the nodes of the cone,  *)
(* each once and the nearer ones first, also where the limit cuts it off;          *)
(* GetFwdConeAsLinks returns the links of the start and of the nodes short of the  *)
(* depth.                                                                          *)
LayersExact ==
    (/\ job = "done" /\ query.kind \in {"nodes", "links"} /\ query.loaded
     /\ query.kind = "nodes" => query.limit # 0) =>
        LET st == query.sttypes[1]
            start == query.starts[1]
            inner == Within(start, st, query.depth - 1)
        IN  IF query.kind = "nodes"
            THEN LET all == Within(start, st, query.depth)
                     got == ToSet(answer)
                 IN  /\ IsInjective(answer) /\ got \subseteq all
                     /\ Len(answer) = (IF Cardinality(all) < query.limit THEN Cardinality(all)
                                       ELSE query.limit)
                     /\ \A d \in 1 .. query.depth :
                           LET near == Within(start, st, d)
                           IN  near \subseteq got \/ got \subseteq near
            ELSE /\ Len(answer) = Cardinality({x \in ({start} \cup inner) \X Link : x[2] \in ToSet(I[x[1]][st])})
                 /\ ToSet(answer) = UNION {ToSet(I[n][st]) : n \in {start} \cup inner}

(* All four cone functions return what their names promise. *)
ConeExact == EnumerationExact /\ LayersExact

(* A splice runs from a start to an end of the query, both left out.  Up to some node  *)
(* it follows links as they are stored, and from there on it takes links that are      *)
(* stored where they lead to in the splice, each with the inverse of its own arrow:    *)
(* the shift of the arrows when the right path is turned around is the one that fits.  *)
SplicesAreWalks ==
    (job = "done" /\ query.kind = "paths") =>
        \A p \in answer :
            LET Follows(i) == p[i] \in ToSet(LinksOf(p[i - 1].dst, LeftTypes, LeftArrows))
                TurnsBack(i) == \E l \in ToSet(LinksOf(p[i].dst, RightTypes, RightArrows)) :
                                    l.dst = p[i - 1].dst /\ p[i].arr = INVERSE_ARROWS[l.arr]
            IN  /\ \E s \in ToSet(query.starts) : p[1] \in ToSet(LinksOf(s, LeftTypes, LeftArrows))
                /\ \E m \in 1 .. Len(p) : /\ \A i \in 2 .. m : Follows(i)
                                         /\ \A i \in (m + 1) .. Len(p) : TurnsBack(i)
                /\ \E e \in ToSet(query.ends) : Tip(p) \in Hops(e, RightTypes, RightArrows)

(* Nothing of this query is cut off. *)
Untruncated ==
    /\ \A n \in NodePtrs : /\ Len(LinksOf(n, LeftTypes, LeftArrows)) <= query.depth
                           /\ Len(LinksOf(n, RightTypes, RightArrows)) <= query.depth
    /\ Len(query.starts) = 1 /\ Len(query.ends) = 1
    /\ query.admit = NodePtrs /\ query.loaded /\ query.stored

(* The ways of n links from the start to the end, without these: the first half is a   *)
(* trail from the start, and the other one, backwards, a trail from the end.  An odd   *)
(* link is of the first half.                                                          *)
Meetings(n) ==
    LET there == UNION {Trails(s, (n + 1) \div 2, LeftTypes, LeftArrows) : s \in ToSet(query.starts)}
        back == UNION {Trails(e, n \div 2, RightTypes, RightArrows) : e \in ToSet(query.ends)}
        meets == {pair \in there \X back : Tip(pair[1]) = Tip(pair[2])}
    IN  {Dsts(pair[1]) \o Reverse(Front(Dsts(pair[2]))) : pair \in meets}
Nearest(Ways(_)) ==
    LET lengths == {n \in 2 .. (2 * query.depth - 2) : Ways(n) # {}}
    IN  IF lengths = {} THEN {} ELSE Ways(CHOOSE n \in lengths : \A m \in lengths : n <= m)

(* Asked for more than zero solutions, the waves answer with the shortest meetings they *)
(* have the depth for: with those that visit no node twice, with the others if all do,  *)
(* and with nothing if there is none.                                                   *)
MeetingsFound ==
    (job = "done" /\ query.kind = "paths" /\ query.mindepth = 0 /\ Untruncated) =>
        LET nearest == Nearest(Meetings)
            straight == {d \in nearest : IsInjective(d)}
        IN  {Dsts(p) : p \in answer} = (IF straight # {} THEN straight ELSE nearest)

(* The walks of n links from a start to an end, without their ends. *)
Interiors(n) ==
    LET inner == UNION {Trails(s, n - 1, LeftTypes, LeftArrows) : s \in ToSet(query.starts)}
    IN  {Dsts(w) : w \in {v \in inner : ToSet(query.ends) \cap Hops(Tip(v), LeftTypes, LeftArrows) # {}}}

(* Every link was stored with its inverse, the end is a node, and the right wave does *)
(* not step to nowhere.                                                               *)
Reversible ==
    /\ \A n \in NodePtrs, st \in STTypes : \A l \in ToSet(I[n][st]) \ {EmptyLink} :
          [arr |-> INVERSE_ARROWS[l.arr], dst |-> n] \in ToSet(I[l.dst][-st])
    /\ Nowhere \notin ToSet(query.ends)
    /\ \A n \in NodePtrs : Nowhere \notin Hops(n, RightTypes, RightArrows)

(* Where no link was inferred, these are exactly the shortest walks of two links or    *)
(* more from the start to the end.                                                     *)
ShortestFound ==
    (job = "done" /\ query.kind = "paths" /\ query.mindepth = 0 /\ Untruncated /\ Reversible) =>
        {Dsts(p) : p \in answer} = Nearest(Interiors)

(* Super nodes: every node of a solution is in a group, two nodes that two solutions    *)
(* exchange between the same neighbours share a group, and a group holds only nodes     *)
(* linked by such exchanges, whatever the order of the solutions.                       *)
SuperNodesExact ==
    (job = "done" /\ query.kind = "paths") =>
        LET Exchanged(m, n) ==
                \E p, q \in answer : \E i \in 2 .. (Len(p) - 1) :
                    /\ p[i].dst = m /\ q[i].dst = n
                    /\ p[i - 1].dst = q[i - 1].dst /\ p[i + 1].dst = q[i + 1].dst
            Connected(g) == \A part \in (SUBSET g) \ {{}, g} :
                                \E m \in part, n \in g \ part : Exchanged(m, n)
            Exact(order) ==
                LET groups == ToSet(SuperNodesByConicPath(order, query.depth))
                IN  /\ UNION groups = UNION {Nodes(p) : p \in answer}
                    /\ \A g \in groups : Connected(g)
                    /\ \A m, n \in UNION groups : Exchanged(m, n) => \E g \in groups : {m, n} \subseteq g
        IN  Exact(SetToSeq(answer)) /\ Exact(Reverse(SetToSeq(answer)))
=============================================================================
