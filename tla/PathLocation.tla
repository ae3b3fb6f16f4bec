---------------------------- MODULE PathLocation ----------------------------
(***************************************************************************)
(* baldr/pathlocation.{h,cc}: the edges of the graph that a location is    *)
(* correlated to, the flag that it lies on a node, and the property tree   *)
(* in which one process hands it to the next.                              *)
(*                                                                         *)
(* The Location a PathLocation extends (place, names, type of stop) is     *)
(* left out: no operation of this file changes it.                         *)
(***************************************************************************)
EXTENDS Integers, Sequences, FiniteSets

CONSTANTS
  Holders,      \* the PathLocation variables of the processes
  Ids,          \* ids of directed edges
  Edges,        \* the edges callers correlate
  Vertices,     \* the points of the graph callers correlate
  NoVertex,     \* the vertex of a new location
  One,          \* 1.0, the end of an edge, in units of distance
  Epsilon,      \* what midgard::equal takes for equal, in the same units
  ApproximatelyEqual,   \* pairs of points that midgard takes for equal
  MaxEdges,     \* bound: the edges of one location
  MaxIndex      \* bound: the indexes of locations

NONE  == 0
LEFT  == 1
RIGHT == 2
SideOfStreet == {NONE, LEFT, RIGHT}

ASSUME EdgeTypes ==
  /\ One \in Nat /\ One > 0 /\ Epsilon \in Nat /\ MaxEdges \in Nat
  /\ Edges \subseteq [id : Ids, dist : 0 .. One, sos : SideOfStreet]
  /\ MaxIndex \in Nat

\* Points within a tolerance of each other, which need not be transitive.
ASSUME PointsCompare ==
  /\ \A v \in Vertices \cup {NoVertex} : <<v, v>> \in ApproximatelyEqual
  /\ \A v, w \in Vertices \cup {NoVertex} :
       <<v, w>> \in ApproximatelyEqual => <<w, v>> \in ApproximatelyEqual

VARIABLES
  location,     \* the path location each holder has
  ptree         \* the trees written and not yet replaced, at most one

path_vars == <<location, ptree>>

Locations == [node : BOOLEAN, edges : Seq(Edges), vertex : Vertices \cup {NoVertex}]
-----------------------------------------------------------------------------
(* The class.                                                              *)

\* PathLocation(const Location&)
Uncorrelated(node) == [node |-> node, edges |-> <<>>, vertex |-> NoVertex]

AtEnd(dist) == dist = 0 \/ dist = One

\* Mutant of Correlated: the flag is that of the last edge.
CorrelatedByLast(p, edge) ==
  [node |-> AtEnd(edge.dist), edges |-> Append(p.edges, edge), vertex |-> p.vertex]

Correlated(p, edge) ==
  [node   |-> (p.node \/ p.edges = <<>>) /\ AtEnd(edge.dist),
   edges  |-> Append(p.edges, edge),
   vertex |-> p.vertex]

Cleared(p) == [p EXCEPT !.edges = <<>>]

Close(x, y) == x - y <= Epsilon /\ y - x <= Epsilon
SameEdge(e, f) == e.id = f.id /\ e.sos = f.sos /\ Close(e.dist, f.dist)

\* Mutant of Equal: only the first edge is looked for.
EqualOnFirst(p, q) ==
  /\ p.node = q.node
  /\ <<p.vertex, q.vertex>> \in ApproximatelyEqual
  /\ p.edges # <<>> =>
       \E j \in DOMAIN q.edges : SameEdge(p.edges[1], q.edges[j])

\* operator==, the outer loop over this location's edges only.
Equal(p, q) ==
  /\ p.node = q.node
  /\ <<p.vertex, q.vertex>> \in ApproximatelyEqual
  /\ \A i \in DOMAIN p.edges : \E j \in DOMAIN q.edges : SameEdge(p.edges[i], q.edges[j])
-----------------------------------------------------------------------------
(* The tree.  Numbers are written with the digits that read back the same  *)
(* number; the side of the street is written as its number.                *)

ToPtree(p, index) ==
  [is_node |-> p.node, vertex |-> p.vertex, location_index |-> index,
   edges   |-> [i \in DOMAIN p.edges |->
                  <<p.edges[i].id, p.edges[i].dist, p.edges[i].sos>>]]

\* Mutant of FromPtree: the flag is left as the constructor sets it.
FromPtreeNoFlag(t) ==
  [node   |-> FALSE,
   vertex |-> t.vertex,
   edges  |-> [i \in DOMAIN t.edges |->
                 [id |-> t.edges[i][1], dist |-> t.edges[i][2], sos |-> t.edges[i][3]]]]

FromPtree(t) ==
  [node   |-> t.is_node,
   vertex |-> t.vertex,
   edges  |-> [i \in DOMAIN t.edges |->
                 [id |-> t.edges[i][1], dist |-> t.edges[i][2], sos |-> t.edges[i][3]]]]
-----------------------------------------------------------------------------
PathInit ==
  /\ location \in [Holders -> {Uncorrelated(node) : node \in BOOLEAN}]
  /\ ptree = {}

\* From a Location, or with an inherited constructor of Location, which does
\* not initialize node_.
Construct(h) ==
  /\ \E node \in BOOLEAN : location' = [location EXCEPT ![h] = Uncorrelated(node)]
  /\ UNCHANGED ptree

CorrelateEdge(h, edge) ==
  /\ Len(location[h].edges) < MaxEdges
  /\ location' = [location EXCEPT ![h] = Correlated(@, edge)]
  /\ UNCHANGED ptree

CorrelateVertex(h, vertex) ==
  /\ location' = [location EXCEPT ![h].vertex = vertex]
  /\ UNCHANGED ptree

ClearEdges(h) ==
  /\ location' = [location EXCEPT ![h] = Cleared(@)]
  /\ UNCHANGED ptree

Write(h) ==
  /\ \E index \in 0 .. MaxIndex : ptree' = {ToPtree(location[h], index)}
  /\ UNCHANGED location

\* The same tree may be read by several processes, and again.  The index is not
\* tested: reading beyond the end of locations is undefined, and what lies
\* there is copied, or the process dies and begins again.
Read(h) ==
  /\ \E t \in ptree, locations \in 0 .. MaxIndex + 1 :
       \/ location' = [location EXCEPT ![h] = FromPtree(t)]
       \/ /\ t.location_index >= locations
          /\ \E node \in BOOLEAN :
               location' = [location EXCEPT ![h] = Uncorrelated(node)]
  /\ UNCHANGED ptree

PathNext ==
  \E h \in Holders :
    \/ Construct(h)
    \/ \E edge \in Edges : CorrelateEdge(h, edge)
    \/ \E vertex \in Vertices : CorrelateVertex(h, vertex)
    \/ ClearEdges(h)
    \/ Write(h)
    \/ Read(h)

PathSpec == PathInit /\ [][PathNext]_path_vars
-----------------------------------------------------------------------------
\* Every holder has a path location of edges callers correlated.
PathTypeOK ==
  /\ location \in [Holders -> Locations]
  /\ \A h \in Holders : Len(location[h].edges) <= MaxEdges
  /\ \A t \in ptree : /\ FromPtree(t) \in Locations
                      /\ Len(FromPtree(t).edges) <= MaxEdges

\* pathlocation.h:58: a location with edges is on a node exactly if it lies at
\* an end of each of them, whatever was correlated, cleared, written or read
\* before.  The flag is updated edge by edge, and is stale once they are
\* cleared.
NodeFlag(p) ==
  p.edges # <<>> => (p.node <=> \A i \in DOMAIN p.edges : AtEnd(p.edges[i].dist))
NodeIsAtEnds ==
  /\ \A h \in Holders : NodeFlag(location[h])
  /\ \A t \in ptree : NodeFlag(FromPtree(t))

\* A location written and read back is equal to what it was, asked either way.
RoundTripIsEqual ==
  \A h \in Holders :
    LET p == location[h]
        q == FromPtree(ToPtree(p, 0))
    IN  Equal(p, q) /\ Equal(q, p)

\* operator== looks for the edges of one side only.  For locations with as many
\* edges, no edge twice, it is symmetric all the same.
Distinct(p) == \A i, j \in DOMAIN p.edges : p.edges[i].id = p.edges[j].id => i = j
EqualIsSymmetric ==
  \A g, h \in Holders :
    LET p == location[g]
        q == location[h]
    IN  /\ Distinct(p) /\ Distinct(q)
        /\ Len(p.edges) = Len(q.edges)
        /\ Equal(p, q)
        => Equal(q, p)
=============================================================================
