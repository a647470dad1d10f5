------------------------------- MODULE Orbits --------------------------------
(***************************************************************************)
(* What is shown around a node (SSTorytime.go, GetNodeOrbit) and along a   *)
(* story (GetLongestAxialPath), over the path enumeration of Paths.        *)
(*                                                                         *)
(* GetNodeOrbit takes the paths in both directions and starts a goroutine  *)
(* for each link type; all of them read the same paths, and each assembles *)
(* the satellites of its type.  A satellite is its arrow, its node and its *)
(* radius.  Both callers exclude the arrow "", which none has.             *)
(***************************************************************************)
EXTENDS Paths

CONSTANT STtype        \* the link type of an arrow

probe_radius == 3
nearest_satellite == 1

ASSUME OrbitsAssumption ==
    /\ STtype \in [Arrows -> STTypes]
    /\ \A G \in Graphs, n \in NodePtrs, st \in STTypes : \A l \in ToSet(G[n][st]) : STtype[l.arr] = st

(* The searches of the two, among all those that are asked. *)
Asked ==
    {q \in Queries :
         /\ q.kind = "cone" /\ q.sorted /\ Len(q.starts) = 1 /\ q.arrows = {} /\ q.admit = NodePtrs
         /\ \/ q.orientation = "both" /\ q.depth = probe_radius /\ q.sttypes = <<>>
            \/ q.orientation = "fwd" /\ q.limit = q.depth /\ Len(q.sttypes) = 1}

VARIABLES arrow,        \* the arrow of the story
          angle,        \* the paths every goroutine has read
          satellites,   \* what it has found
          running,      \* the goroutines that have not called Done
          shown         \* "no", "orbit", "axis", "panic"
orbitVars == <<arrow, angle, satellites, running, shown>>
vars == <<pathVars, orbitVars>>

sweep == answer
Orbiting == query.orientation = "both"
Start == query.starts[1]

OrbitsInit ==
    /\ PathsInit /\ query \in Asked
    /\ arrow \in (IF Orbiting THEN {FirstArrow} ELSE {a \in Arrows : STtype[a] = query.sttypes[1]})
    /\ angle = [t \in STTypes |-> 0] /\ satellites = [t \in STTypes |-> <<>>]
    /\ running = STTypes /\ shown = "no"

-----------------------------------------------------------------------------
(* The goroutines of GetNodeOrbit. *)

Satellite(l, radius) == [arr |-> l.arr, dst |-> l.dst, radius |-> radius]

AddByNode(list, item) == IF \E i \in DOMAIN list : list[i].dst = item.dst THEN list ELSE Append(list, item)   \* slip

(* A node is shown once for each arrow. *)
IdempAddSatellite(list, item) ==
    IF \E i \in DOMAIN list : list[i].dst = item.dst /\ list[i].arr = item.arr THEN list ELSE Append(list, item)

(* The link at radius r has index r of a Go path, and r + 1 here. *)
Leg(path, r) == path[r + 1]

(* The first satellite of a path and the next one, short of the probe      *)
(* radius, but for one whose type is the opposite of the first.            *)
Around(list, path) ==
    LET near == IdempAddSatellite(list, Satellite(Leg(path, nearest_satellite), nearest_satellite))
        far == nearest_satellite + 1
    IN  IF /\ far < probe_radius /\ far < Len(path)
           /\ STtype[Leg(path, far).arr] # -STtype[Leg(path, nearest_satellite).arr]
        THEN IdempAddSatellite(near, Satellite(Leg(path, far), far))
        ELSE near

(* The next path that has a first satellite of this type. *)
OfType(t, i) == Len(sweep[i]) > 1 /\ STtype[Leg(sweep[i], nearest_satellite).arr] = t
Ahead(t) == {i \in (angle[t] + 1) .. Len(sweep) : OfType(t, i)}

AssembleSatellites(t) ==
    /\ job = "done" /\ Orbiting /\ t \in running /\ Ahead(t) # {}
    /\ angle' = [angle EXCEPT ![t] = Min(Ahead(t))]
    /\ satellites' = [satellites EXCEPT ![t] = Around(@, sweep[Min(Ahead(t))])]
    /\ UNCHANGED <<pathVars, arrow, running, shown>>

Done(t) ==
    /\ job = "done" /\ Orbiting /\ t \in running /\ Ahead(t) = {}
    /\ running' = running \ {t}
    /\ UNCHANGED <<pathVars, arrow, angle, satellites, shown>>

Wait ==
    /\ job = "done" /\ Orbiting /\ running = {} /\ shown = "no"
    /\ shown' = "orbit"
    /\ UNCHANGED <<pathVars, arrow, angle, satellites, running>>

-----------------------------------------------------------------------------
(* Stories. *)

TruncateNext(path, a) ==   \* slip: the hop that ends the path is kept
    LET hops == {h \in 2 .. Len(path) : path[h].arr # a}
    IN  IF hops = {} THEN path ELSE SubSeq(path, 1, Min(hops))

TruncatePathsByArrow(path, a) ==
    LET hops == {h \in 2 .. Len(path) : path[h].arr # a}
    IN  IF hops = {} THEN path ELSE SubSeq(path, 1, Min(hops) - 1)

(* A path cut to one link counts as none.  max is a depth where it is      *)
(* compared and an index, from 0, where it is set and used; it starts at 1.*)
LongestAxial(paths, a) ==
    LET cut == [i \in DOMAIN paths |-> TruncatePathsByArrow(paths[i], a)]
        max == FoldLeftDomain(LAMBDA m, i : IF Len(cut[i]) > m THEN i - 1 ELSE m, 1, cut)
    IN  IF Len(cut[max + 1]) = 1 THEN <<>> ELSE cut[max + 1]

GetLongestAxialPath ==
    /\ job = "done" /\ ~Orbiting /\ shown = "no"
    /\ IF Len(answer) < 2 THEN shown' = "panic" /\ UNCHANGED answer
       ELSE shown' = "axis" /\ answer' = LongestAxial(answer, arrow)
    /\ UNCHANGED <<I, query, job, todo, stack, found, waveVars, arrow, angle, satellites, running>>

-----------------------------------------------------------------------------
Sweep == (enumeratePaths \/ StopAtDepth \/ Expand \/ EmitLeaf \/ ReturnCone) /\ UNCHANGED orbitVars
Thread(t) == AssembleSatellites(t) \/ Done(t)
(* The answer stays; every other state has a step. *)
Returned == shown # "no" /\ UNCHANGED vars
OrbitsNext == Sweep \/ (\E t \in STTypes : Thread(t)) \/ Wait \/ GetLongestAxialPath \/ Returned

OrbitsSpec == OrbitsInit /\ [][OrbitsNext]_vars

-----------------------------------------------------------------------------
(* Properties. *)

(* Whatever the order of the goroutines and of the paths, the orbit of a   *)
(* node holds, for every link type, each once, the second links of its     *)
(* walks in either direction that have this type, and what the third links *)
(* of such walks lead to, unless their types are opposite, which NEAR is   *)
(* to itself (AssembleSatellitesBySTtype).                                 *)
OrbitExact ==
    (shown = "orbit" /\ query.loaded /\ Len(answer) < query.limit) =>
        LET Walks(k) == UNION {Trails(Start, k, Ranges(<<>>, forward), {}) : forward \in BOOLEAN}
            Second(t) == {w[2] : w \in {v \in Walks(2) : STtype[v[2].arr] = t}}
            Third(t) == {w[3] : w \in {v \in Walks(3) : STtype[v[2].arr] = t /\ STtype[v[3].arr] # -t}}
        IN  \A t \in STTypes :
                LET sats == satellites[t]
                    links == [i \in DOMAIN sats |-> [arr |-> sats[i].arr, dst |-> sats[i].dst]]
                IN  IsInjective(links) /\ ToSet(links) = Second(t) \cup Third(t)

(* The axis of a story is a walk in the graph from the opening, and every  *)
(* link but the first has the arrow of the story (TruncatePathsByArrow).   *)
AxisFollowsArrow ==
    (shown = "axis" /\ answer # <<>>) =>
        /\ answer[1] \in ToSet(LinksOf(Start, query.sttypes, {}))
        /\ \A i \in 2 .. Len(answer) : /\ answer[i].arr = arrow
                                       /\ answer[i] \in ToSet(LinksOf(answer[i - 1].dst, query.sttypes, {}))

(* "radius = 0 is the starting node" (SSTorytime.go:3433) and the satellite *)
(* of radius 1 is the nearest: the orbit of a node shows the nodes it is    *)
(* linked to at radius 1.                                                   *)
NearestSatellitesShown ==
    (shown = "orbit" /\ query.loaded /\ Len(answer) < query.limit) =>
        \A t \in STTypes : \A l \in ToSet(I[Start][t]) \ {EmptyLink} : Satellite(l, 1) \in ToSet(satellites[t])
=============================================================================
