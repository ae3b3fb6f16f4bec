-------------------------- MODULE EdgeByEdgeProofs --------------------------
(***************************************************************************)
(* The two values a caller builds up edge by edge.                         *)
(*                                                                         *)
(* PathLocation: for any edges, distances and tolerance, the node flag of  *)
(* a correlated location is right, trees read back what was written, and   *)
(* operator== is symmetric between locations with as many different edges. *)
(*                                                                         *)
(* StreetNames: for any words, directions and lists of names, narrowing    *)
(* down edge by edge gives what all edges share.  The invariant NamesInv   *)
(* says what is left of the first edge's names after every edge; that one  *)
(* edge more keeps it comes from how Kept, the loop over a list, composes  *)
(* with itself (KeptTwice) and with exchanging names (KeptOfExchanged).    *)
(***************************************************************************)
EXTENDS PathLocation, StreetNames, SequenceTheorems, FiniteSetTheorems,
        WellFoundedInduction, TLAPS

USE EdgeTypes

LEMMA EdgeIsRecord ==
  ASSUME NEW e \in Edges
  PROVE  /\ e = [id |-> e.id, dist |-> e.dist, sos |-> e.sos]
         /\ e.dist \in Int
  OBVIOUS

\* Writing and reading back is the identity on path locations.
LEMMA ReadBack ==
  ASSUME NEW p \in Locations, NEW index
  PROVE  FromPtree(ToPtree(p, index)) = p
<1>1. p = [node |-> p.node, edges |-> p.edges, vertex |-> p.vertex]
  BY DEF Locations
<1>2. p.edges \in Seq(Edges)
  BY DEF Locations
<1> DEFINE t == ToPtree(p, index)
<1>3. /\ t.is_node = p.node
      /\ t.vertex = p.vertex
      /\ DOMAIN t.edges = DOMAIN p.edges
  BY DEF ToPtree
<1>4. \A i \in DOMAIN p.edges :
         t.edges[i] = <<p.edges[i].id, p.edges[i].dist, p.edges[i].sos>>
  BY DEF ToPtree
<1>5. \A i \in DOMAIN p.edges :
         [id |-> t.edges[i][1], dist |-> t.edges[i][2], sos |-> t.edges[i][3]] = p.edges[i]
  BY <1>2, <1>4, EdgeIsRecord, ElementOfSeq
<1>6. [i \in DOMAIN t.edges |->
         [id |-> t.edges[i][1], dist |-> t.edges[i][2], sos |-> t.edges[i][3]]] = p.edges
  <2>1. p.edges = [i \in DOMAIN p.edges |-> p.edges[i]]
    BY <1>2
  <2> QED
    BY <1>3, <1>5, <2>1
<1> QED
  BY <1>1, <1>3, <1>6 DEF FromPtree

\* An edge more keeps a location one, and the flag right.
LEMMA CorrelatedIsLocation ==
  ASSUME NEW p \in Locations, NEW e \in Edges
  PROVE  /\ Correlated(p, e) \in Locations
         /\ Len(Correlated(p, e).edges) = Len(p.edges) + 1
         /\ NodeFlag(p) => NodeFlag(Correlated(p, e))
<1>1. p.edges \in Seq(Edges) /\ p.node \in BOOLEAN
  BY DEF Locations
<1> DEFINE q == Correlated(p, e)
<1>2. /\ q.node <=> (p.node \/ p.edges = <<>>) /\ AtEnd(e.dist)
      /\ q.node \in BOOLEAN
      /\ q.edges = Append(p.edges, e)
      /\ q.vertex = p.vertex
      /\ q = [node |-> q.node, edges |-> q.edges, vertex |-> q.vertex]
  BY DEF Correlated
<1>3. q.edges \in Seq(Edges) /\ Len(q.edges) = Len(p.edges) + 1
  BY <1>1, <1>2, AppendProperties
<1>4. q \in Locations
  BY <1>2, <1>3 DEF Locations
<1>5. ASSUME NodeFlag(p) PROVE NodeFlag(q)
  <2>1. /\ DOMAIN q.edges = 1 .. Len(p.edges) + 1
        /\ \A i \in 1 .. Len(p.edges) : q.edges[i] = p.edges[i]
        /\ q.edges[Len(p.edges) + 1] = e
        /\ DOMAIN p.edges = 1 .. Len(p.edges)
        /\ Len(p.edges) \in Nat
    BY <1>1, <1>2, <1>3, AppendProperties, LenProperties
  <2>2. (\A i \in DOMAIN q.edges : AtEnd(q.edges[i].dist))
          <=> AtEnd(e.dist) /\ \A i \in DOMAIN p.edges : AtEnd(p.edges[i].dist)
    <3> DEFINE n == Len(p.edges)
    <3>1. \A i : i \in 1 .. n + 1 <=> i \in 1 .. n \/ i = n + 1
      BY <2>1
    <3> HIDE DEF q, n
    <3> QED
      BY <2>1, <3>1, Zenon DEF n
  <2>3. (p.node \/ p.edges = <<>>) /\ AtEnd(e.dist)
          <=> \A i \in DOMAIN q.edges : AtEnd(q.edges[i].dist)
    <3>1. CASE p.edges = <<>>
      BY <2>1, <2>2, <3>1
    <3>2. CASE p.edges # <<>>
      BY <1>5, <2>2, <3>2, Zenon DEF NodeFlag
    <3> QED
      BY <3>1, <3>2
  <2> HIDE DEF q
  <2> QED
    BY <1>2, <2>3, Zenon DEF NodeFlag
<1> QED
  BY <1>3, <1>4, <1>5

\* A location without edges has the flag right, whatever it is.
LEMMA NoEdges ==
  ASSUME NEW node \in BOOLEAN
  PROVE  /\ Uncorrelated(node) \in Locations
         /\ Uncorrelated(node).edges = <<>>
         /\ NodeFlag(Uncorrelated(node))
  BY EmptySeq DEF Uncorrelated, Locations, NodeFlag
-----------------------------------------------------------------------------
IInv == PathTypeOK /\ NodeIsAtEnds

\* What every step has to keep of a holder's location.
Good(p) == p \in Locations /\ Len(p.edges) <= MaxEdges /\ NodeFlag(p)

LEMMA InitIInv == PathInit => IInv
<1> SUFFICES ASSUME PathInit PROVE IInv
  OBVIOUS
<1>1. \A h \in Holders : \E node \in BOOLEAN : location[h] = Uncorrelated(node)
  BY DEF PathInit
<1>2. \A h \in Holders : /\ location[h] \in Locations
                         /\ location[h].edges = <<>>
                         /\ NodeFlag(location[h])
  BY <1>1, NoEdges
<1>3. \A h \in Holders : Len(location[h].edges) <= MaxEdges
  BY <1>2, EmptySeq
<1>4. location \in [Holders -> Locations]
  BY <1>2 DEF PathInit
<1> QED
  BY <1>2, <1>3, <1>4 DEF PathInit, IInv, PathTypeOK, NodeIsAtEnds

\* Construct, CorrelateEdge, CorrelateVertex, ClearEdges and Read give one
\* holder a location, a good one, and leave the tree.
LEMMA OneHolderChanges ==
  ASSUME IInv, NEW h \in Holders, NEW p, Good(p), UNCHANGED ptree,
         location' = [location EXCEPT ![h] = p]
  PROVE  IInv'
<1>1. location' \in [Holders -> Locations]
  BY DEF IInv, PathTypeOK, Good
<1>2. \A g \in Holders : Good(location'[g])
  BY DEF IInv, PathTypeOK, NodeIsAtEnds, Good
<1>3. \A t \in ptree' : Good(FromPtree(t))
  BY DEF Good, IInv, PathTypeOK, NodeIsAtEnds
<1>4. PathTypeOK'
  BY <1>1, <1>2, <1>3 DEF PathTypeOK, Good
<1>5. NodeIsAtEnds'
  BY <1>2, <1>3 DEF NodeIsAtEnds, Good
<1> QED
  BY <1>4, <1>5 DEF IInv

LEMMA StepIInv == IInv /\ [PathNext]_path_vars => IInv'
<1> SUFFICES ASSUME IInv, [PathNext]_path_vars PROVE IInv'
  OBVIOUS
<1>1. CASE UNCHANGED path_vars
  BY <1>1 DEF path_vars, IInv, PathTypeOK, NodeIsAtEnds
<1>2. ASSUME NEW h \in Holders, Construct(h) PROVE IInv'
  <2>1. PICK node \in BOOLEAN : location' = [location EXCEPT ![h] = Uncorrelated(node)]
    BY <1>2 DEF Construct
  <2>2. Good(Uncorrelated(node))
    BY NoEdges, EmptySeq DEF Good
  <2> QED
    BY <1>2, <2>1, <2>2, OneHolderChanges DEF Construct
<1>3. ASSUME NEW h \in Holders, NEW edge \in Edges, CorrelateEdge(h, edge) PROVE IInv'
  <2>1. location[h] \in Locations /\ NodeFlag(location[h])
    BY DEF IInv, PathTypeOK, NodeIsAtEnds
  <2>2. Len(location[h].edges) \in Nat /\ Len(location[h].edges) < MaxEdges
    BY <1>3, <2>1, LenProperties DEF CorrelateEdge, Locations
  <2>3. Good(Correlated(location[h], edge))
    BY <2>1, <2>2, CorrelatedIsLocation DEF Good
  <2>4. location' = [location EXCEPT ![h] = Correlated(location[h], edge)]
    BY <1>3 DEF CorrelateEdge
  <2> QED
    BY <1>3, <2>3, <2>4, OneHolderChanges DEF CorrelateEdge
<1>4. ASSUME NEW h \in Holders, NEW vertex \in Vertices, CorrelateVertex(h, vertex)
      PROVE IInv'
  <2> DEFINE p == [location[h] EXCEPT !.vertex = vertex]
  <2>1. location[h] \in Locations /\ Good(location[h])
    BY DEF IInv, PathTypeOK, NodeIsAtEnds, Good
  <2>2. Good(p)
    <3>1. p \in Locations /\ p.edges = location[h].edges /\ p.node = location[h].node
      BY <2>1 DEF Locations
    <3> QED
      BY <2>1, <3>1 DEF Good, NodeFlag
  <2>3. location' = [location EXCEPT ![h] = p]
    BY <1>4 DEF CorrelateVertex
  <2> HIDE DEF p
  <2> QED
    BY <1>4, <2>2, <2>3, OneHolderChanges DEF CorrelateVertex
<1>5. ASSUME NEW h \in Holders, ClearEdges(h) PROVE IInv'
  <2> DEFINE p == Cleared(location[h])
  <2>1. location[h] \in Locations
    BY DEF IInv, PathTypeOK
  <2>2. Good(p)
    <3>1. p.edges = <<>> /\ p \in Locations
      BY <2>1, EmptySeq DEF Cleared, Locations
    <3> QED
      BY <3>1, EmptySeq DEF Good, NodeFlag
  <2>3. location' = [location EXCEPT ![h] = p]
    BY <1>5 DEF ClearEdges
  <2> HIDE DEF p
  <2> QED
    BY <1>5, <2>2, <2>3, OneHolderChanges DEF ClearEdges
<1>6. ASSUME NEW h \in Holders, Write(h) PROVE IInv'
  <2>1. Good(location[h]) /\ location[h] \in Locations
    BY DEF IInv, PathTypeOK, NodeIsAtEnds, Good
  <2>2. PICK index : ptree' = {ToPtree(location[h], index)} /\ location' = location
    BY <1>6 DEF Write
  <2>3. \A t \in ptree' : Good(FromPtree(t))
    BY <2>1, <2>2, ReadBack
  <2> QED
    BY <2>2, <2>3 DEF IInv, PathTypeOK, NodeIsAtEnds, Good
<1>7. ASSUME NEW h \in Holders, Read(h) PROVE IInv'
  <2>1. \/ \E t \in ptree : location' = [location EXCEPT ![h] = FromPtree(t)]
        \/ \E node \in BOOLEAN : location' = [location EXCEPT ![h] = Uncorrelated(node)]
    BY <1>7 DEF Read
  <2>2. /\ \A t \in ptree : Good(FromPtree(t))
        /\ \A node \in BOOLEAN : Good(Uncorrelated(node))
    BY NoEdges, EmptySeq DEF IInv, PathTypeOK, NodeIsAtEnds, Good
  <2> QED
    BY <1>7, <2>1, <2>2, OneHolderChanges DEF Read
<1> QED
  BY <1>1, <1>2, <1>3, <1>4, <1>5, <1>6, <1>7 DEF PathNext

LEMMA InvariantHolds == PathSpec => []IInv
  BY InitIInv, StepIInv, PTL DEF PathSpec
-----------------------------------------------------------------------------
\* Every holder has a path location, of no more edges than the bound, and a
\* tree is always one of a path location.
THEOREM TypesKept == PathSpec => []PathTypeOK
  BY InvariantHolds, PTL DEF IInv

\* CorrelateEdge's flag, updated edge by edge, is that of all the edges, also
\* after ClearEdges and in trees written and read again.
THEOREM NodeFlagIsRight == PathSpec => []NodeIsAtEnds
  BY InvariantHolds, PTL DEF IInv
-----------------------------------------------------------------------------
\* operator== takes a location for equal to itself.
LEMMA EqualToItself ==
  ASSUME NEW p \in Locations
  PROVE  Equal(p, p)
<1>1. \A i \in DOMAIN p.edges : p.edges[i] \in Edges
  BY ElementOfSeq DEF Locations
<1>2. \A i \in DOMAIN p.edges : SameEdge(p.edges[i], p.edges[i])
  BY <1>1, EdgeIsRecord DEF SameEdge, Close
<1>3. <<p.vertex, p.vertex>> \in ApproximatelyEqual
  BY PointsCompare DEF Locations
<1> QED
  BY <1>2, <1>3 DEF Equal

\* What ToPtree writes, FromPtree reads as a location equal to the one written.
THEOREM TreesReadBackEqual == PathSpec => []RoundTripIsEqual
<1>1. IInv => RoundTripIsEqual
  BY ReadBack, EqualToItself DEF IInv, PathTypeOK, RoundTripIsEqual
<1> QED
  BY <1>1, InvariantHolds, PTL

\* Finding an edge for each of the other's is an injection between the indexes,
\* so with as many edges each of this location's is found.
LEMMA SymmetricForSameCount ==
  ASSUME NEW p \in Locations, NEW q \in Locations,
         Distinct(p), Len(p.edges) = Len(q.edges), Equal(p, q)
  PROVE  Equal(q, p)
<1> DEFINE D == 1 .. Len(p.edges)
           f == [i \in D |-> CHOOSE j \in D : SameEdge(p.edges[i], q.edges[j])]
<1>1. /\ p.edges \in Seq(Edges) /\ q.edges \in Seq(Edges)
      /\ DOMAIN p.edges = D /\ DOMAIN q.edges = D
      /\ Len(p.edges) \in Nat
  BY LenProperties DEF Locations
<1>2. \A i \in D : \E j \in D : SameEdge(p.edges[i], q.edges[j])
  BY <1>1 DEF Equal
<1>3. \A i \in D : f[i] \in D /\ SameEdge(p.edges[i], q.edges[f[i]])
  BY <1>2
<1>4. f \in Injection(D, D)
  <2>1. \A i, k \in D : f[i] = f[k] => p.edges[i].id = p.edges[k].id
    <3>1. \A i \in D : p.edges[i].id = q.edges[f[i]].id
      BY <1>3, Zenon DEF SameEdge
    <3> HIDE DEF f, D
    <3> QED
      BY <3>1
  <2>2. \A i, k \in D : f[i] = f[k] => i = k
    BY <1>1, <2>1 DEF Distinct
  <2>3. f \in [D -> D]
    BY <1>3
  <2> QED
    BY <2>2, <2>3 DEF Injection, IsInjective
<1>5. IsFiniteSet(D)
  BY <1>1, FS_Interval
<1>6. f \in Surjection(D, D)
  BY <1>4, <1>5, FS_Injection
<1>7. \A j \in D : \E i \in D : f[i] = j
  BY <1>6 DEF Surjection
<1>8. \A j \in D : \E i \in D : SameEdge(p.edges[i], q.edges[j])
  BY <1>3, <1>7
<1>9. \A i, j \in D : SameEdge(p.edges[i], q.edges[j]) => SameEdge(q.edges[j], p.edges[i])
  <2>1. \A i \in D : p.edges[i] \in Edges /\ q.edges[i] \in Edges
    BY <1>1, ElementOfSeq
  <2> QED
    BY <2>1, EdgeIsRecord DEF SameEdge, Close
<1>10. <<q.vertex, p.vertex>> \in ApproximatelyEqual
  BY PointsCompare DEF Locations, Equal
<1> QED
  BY <1>1, <1>8, <1>9, <1>10 DEF Equal

\* operator== looks for this location's edges only, and is symmetric between
\* locations of as many edges, none twice.
THEOREM EqualityIsSymmetric == PathSpec => []EqualIsSymmetric
<1>1. IInv => EqualIsSymmetric
  BY SymmetricForSameCount DEF IInv, PathTypeOK, EqualIsSymmetric
<1> QED
  BY <1>1, InvariantHolds, PTL
-----------------------------------------------------------------------------
(* The names of a stretch of road.                                         *)

LEMMA LeastNumber ==
  ASSUME NEW T, T \subseteq Nat, T # {}
  PROVE  \E x \in T : \A y \in T : x <= y
<1> DEFINE R == {ss \in Nat \X Nat : ss[1] < ss[2]}
<1>1. R = OpToRel(<, Nat)
  BY DEF OpToRel
<1>2. IsWellFoundedOn(R, Nat)
  BY <1>1, NatLessThanWellFounded
<1> HIDE DEF R
<1>3. PICK x \in T : \A y \in T : ~ (<<y, x>> \in R)
  BY <1>2, WFMin, Zenon
<1>4. \A y \in T : ~ (y < x)
  BY <1>3 DEF R
<1> QED
  BY <1>4

\* A set of sequences with the empty one, and with a sequence each longer by
\* one element, has all of them.
LEMMA AllSequences ==
  ASSUME NEW N, NEW G, <<>> \in G,
         \A s \in Seq(N), x \in N : s \in G => Append(s, x) \in G
  PROVE  Seq(N) \subseteq G
<1> DEFINE T == {Len(s) : s \in Seq(N) \ G}
<1>1. SUFFICES ASSUME T # {} PROVE FALSE
  OBVIOUS
<1>2. PICK l \in T : \A k \in T : l <= k
  <2>1. T \subseteq Nat
    BY LenProperties
  <2> HIDE DEF T
  <2> QED
    BY <1>1, <2>1, LeastNumber
<1>3. PICK s \in Seq(N) \ G : Len(s) = l
  BY <1>2
<1>4. s # <<>> /\ l \in Nat /\ l # 0
  BY <1>3, EmptySeq
<1> DEFINE f == SubSeq(s, 1, l - 1)
<1>5. f \in Seq(N) /\ Len(f) = l - 1 /\ s[l] \in N /\ s = Append(f, s[l])
  BY <1>3, <1>4
<1>6. f \in G
  <2>1. l - 1 \notin T
    BY <1>2, <1>4
  <2> QED
    BY <1>5, <2>1
<1> QED
  BY <1>3, <1>5, <1>6
-----------------------------------------------------------------------------
\* c[i] has those of the first i elements of s that are in S.
CopiesOf(c, s, S) ==
  /\ DOMAIN c = 0 .. Len(s)
  /\ c[0] = <<>>
  /\ \A i \in 1 .. Len(s) :
       c[i] = IF s[i] \in S THEN Append(c[i - 1], s[i]) ELSE c[i - 1]

LEMMA LongerCopies ==
  ASSUME NEW N, NEW s \in Seq(N), NEW x \in N, NEW S, NEW c, CopiesOf(c, s, S)
  PROVE  CopiesOf([i \in 0 .. Len(s) + 1 |->
                     IF i <= Len(s) THEN c[i]
                     ELSE IF x \in S THEN Append(c[Len(s)], x) ELSE c[Len(s)]],
                  Append(s, x), S)
<1> DEFINE l == Len(s)
           t == Append(s, x)
           d == [i \in 0 .. l + 1 |->
                   IF i <= l THEN c[i]
                   ELSE IF x \in S THEN Append(c[l], x) ELSE c[l]]
<1>1. /\ l \in Nat /\ Len(t) = l + 1 /\ t[l + 1] = x
      /\ \A i \in 1 .. l : t[i] = s[i]
  OBVIOUS
<1>2. /\ DOMAIN d = 0 .. l + 1 /\ \A i \in 0 .. l : d[i] = c[i]
      /\ d[l + 1] = IF x \in S THEN Append(c[l], x) ELSE c[l]
  BY <1>1
<1>3. c[0] = <<>> /\ \A i \in 1 .. l :
        c[i] = IF s[i] \in S THEN Append(c[i - 1], s[i]) ELSE c[i - 1]
  BY DEF CopiesOf
<1> HIDE DEF d, t, l
<1>4. ASSUME NEW i \in 1 .. l + 1
      PROVE  d[i] = IF t[i] \in S THEN Append(d[i - 1], t[i]) ELSE d[i - 1]
  <2>1. CASE i = l + 1
    BY <1>1, <1>2, <2>1
  <2>2. CASE i # l + 1
    <3>1. i \in 1 .. l /\ i \in 0 .. l /\ i - 1 \in 0 .. l
      BY <1>1, <1>4, <2>2
    <3> QED
      BY <1>1, <1>2, <1>3, <3>1
  <2> QED
    BY <2>1, <2>2
<1>5. d[0] = <<>>
  BY <1>1, <1>2, <1>3
<1>6. CopiesOf(d, t, S)
  BY <1>1, <1>2, <1>4, <1>5 DEF CopiesOf
<1> QED
  BY <1>6 DEF d, t, l

LEMMA CopiesExist ==
  ASSUME NEW N, NEW S, NEW s \in Seq(N)
  PROVE  \E c : CopiesOf(c, s, S)
<1> DEFINE G == {q \in Seq(N) : \E c : CopiesOf(c, q, S)}
<1>1. <<>> \in G
  <2>1. CopiesOf([i \in 0 .. 0 |-> <<>>], <<>>, S)
    BY DEF CopiesOf
  <2> QED
    BY <2>1
<1>2. ASSUME NEW q \in Seq(N), NEW x \in N, q \in G PROVE Append(q, x) \in G
  <2>1. PICK c : CopiesOf(c, q, S)
    BY <1>2
  <2>2. \E d : CopiesOf(d, Append(q, x), S)
    BY <2>1, LongerCopies
  <2> QED
    BY <2>2
<1> HIDE DEF G
<1>3. Seq(N) \subseteq G
  BY <1>1, <1>2, AllSequences
<1> QED
  BY <1>3 DEF G

LEMMA OneCopy ==
  ASSUME NEW N, NEW S, NEW s \in Seq(N), NEW c, NEW d,
         CopiesOf(c, s, S), CopiesOf(d, s, S)
  PROVE  c[Len(s)] = d[Len(s)]
<1> DEFINE T == {i \in 0 .. Len(s) : c[i] # d[i]}
<1>1. T = {}
  <2>1. SUFFICES ASSUME T # {} PROVE FALSE
    OBVIOUS
  <2>2. PICK i \in T : \A j \in T : i <= j
    <3>1. T \subseteq Nat
      OBVIOUS
    <3> HIDE DEF T
    <3> QED
      BY <2>1, <3>1, LeastNumber
  <2>3. i \in 0 .. Len(s) /\ c[i] # d[i]
    BY <2>2
  <2>4. i # 0
    BY <2>3 DEF CopiesOf
  <2>5. i \in 1 .. Len(s) /\ i - 1 \in 0 .. Len(s) /\ i - 1 \notin T
    BY <2>2, <2>3, <2>4
  <2>6. c[i - 1] = d[i - 1]
    BY <2>5
  <2> QED
    BY <2>3, <2>5, <2>6 DEF CopiesOf
<1> QED
  <2>1. Len(s) \in 0 .. Len(s)
    BY LenProperties
  <2> QED
    BY <1>1, <2>1

\* What Kept computes, from its recursive function.
LEMMA KeptIsCopied ==
  ASSUME NEW N, NEW S, NEW s \in Seq(N), NEW c, CopiesOf(c, s, S)
  PROVE  Kept(s, S) = c[Len(s)]
<1> DEFINE Eq(f) == f = [i \in 0 .. Len(s) |->
                           IF i = 0 THEN <<>>
                           ELSE IF s[i] \in S THEN Append(f[i - 1], s[i])
                           ELSE f[i - 1]]
           e == [i \in 0 .. Len(s) |-> c[i]]
<1>1. Len(s) \in Nat
  BY LenProperties
<1>2. Eq(e)
  <2>1. ASSUME NEW i \in 0 .. Len(s)
        PROVE  c[i] = IF i = 0 THEN <<>>
                      ELSE IF s[i] \in S THEN Append(e[i - 1], s[i])
                      ELSE e[i - 1]
    <3>1. CASE i = 0
      BY <3>1 DEF CopiesOf
    <3>2. CASE i # 0
      <4>1. i \in 1 .. Len(s) /\ i - 1 \in 0 .. Len(s) /\ e[i - 1] = c[i - 1]
        BY <1>1, <2>1, <3>2
      <4> HIDE DEF e
      <4> QED
        BY <3>2, <4>1 DEF CopiesOf
    <3> QED
      BY <3>1, <3>2
  <2> QED
    BY <2>1
<1>3. Kept(s, S) = (CHOOSE f : Eq(f))[Len(s)]
  BY DEF Kept
<1> DEFINE g == CHOOSE f : Eq(f)
<1>4. Eq(g)
  <2> HIDE DEF Eq, e
  <2> QED
    BY <1>2
<1> HIDE DEF g
<1>5. CopiesOf(g, s, S)
  <2>1. DOMAIN g = 0 .. Len(s)
    BY <1>4
  <2>2. g[0] = <<>>
    BY <1>1, <1>4
  <2>3. ASSUME NEW i \in 1 .. Len(s)
        PROVE  g[i] = IF s[i] \in S THEN Append(g[i - 1], s[i]) ELSE g[i - 1]
    <3>1. i \in 0 .. Len(s) /\ i # 0
      BY <1>1, <2>3
    <3> QED
      BY <1>4, <3>1
  <2> QED
    BY <2>1, <2>2, <2>3 DEF CopiesOf
<1>6. g[Len(s)] = c[Len(s)]
  BY <1>5, OneCopy
<1> QED
  BY <1>3, <1>6 DEF g

LEMMA KeptOfNone ==
  ASSUME NEW S
  PROVE  Kept(<<>>, S) = <<>>
<1>1. CopiesOf([i \in 0 .. 0 |-> <<>>], <<>>, S)
  BY DEF CopiesOf
<1>2. <<>> \in Seq({}) /\ Len(<<>>) = 0
  OBVIOUS
<1> DEFINE c == [i \in 0 .. 0 |-> <<>>]
<1>3. c[0] = <<>>
  OBVIOUS
<1> HIDE DEF c
<1> QED
  BY <1>1, <1>2, <1>3, KeptIsCopied DEF c

LEMMA KeptOfOneMore ==
  ASSUME NEW N, NEW s \in Seq(N), NEW x \in N, NEW S
  PROVE  Kept(Append(s, x), S)
           = IF x \in S THEN Append(Kept(s, S), x) ELSE Kept(s, S)
<1>1. PICK c : CopiesOf(c, s, S)
  BY CopiesExist
<1> DEFINE d == [i \in 0 .. Len(s) + 1 |->
                   IF i <= Len(s) THEN c[i]
                   ELSE IF x \in S THEN Append(c[Len(s)], x) ELSE c[Len(s)]]
<1>2. CopiesOf(d, Append(s, x), S)
  BY <1>1, LongerCopies
<1>3. /\ Append(s, x) \in Seq(N) /\ Len(Append(s, x)) = Len(s) + 1
      /\ Len(s) \in Nat
  BY AppendProperties, LenProperties
<1>4. d[Len(s) + 1] = IF x \in S THEN Append(c[Len(s)], x) ELSE c[Len(s)]
  BY <1>3
<1> HIDE DEF d
<1>5. Kept(Append(s, x), S) = d[Len(s) + 1]
  BY <1>2, <1>3, KeptIsCopied
<1>6. Kept(s, S) = c[Len(s)]
  BY <1>1, KeptIsCopied
<1> QED
  BY <1>4, <1>5, <1>6
-----------------------------------------------------------------------------
LEMMA KeptInSeq ==
  ASSUME NEW N, NEW s \in Seq(N), NEW S
  PROVE  Kept(s, S) \in Seq(N) /\ Kept(s, S) \in Seq(N \cap S)
<1> DEFINE G == {q \in Seq(N) : Kept(q, S) \in Seq(N \cap S)}
<1>1. <<>> \in G
  BY KeptOfNone, EmptySeq
<1>2. ASSUME NEW q \in Seq(N), NEW x \in N, q \in G PROVE Append(q, x) \in G
  <2>1. Append(q, x) \in Seq(N) /\ Kept(q, S) \in Seq(N \cap S)
    BY <1>2, AppendProperties
  <2>2. Kept(Append(q, x), S) = IF x \in S THEN Append(Kept(q, S), x) ELSE Kept(q, S)
    BY KeptOfOneMore
  <2> HIDE DEF G
  <2>3. Kept(Append(q, x), S) \in Seq(N \cap S)
    <3>1. CASE x \in S
      <4>1. x \in N \cap S
        BY <3>1
      <4> QED
        BY <2>1, <2>2, <3>1, <4>1, AppendProperties
    <3> QED
      BY <2>1, <2>2, <3>1
  <2> QED
    BY <2>1, <2>3 DEF G
<1> HIDE DEF G
<1>3. Seq(N) \subseteq G
  BY <1>1, <1>2, AllSequences
<1>4. Kept(s, S) \in Seq(N \cap S)
  BY <1>3 DEF G
<1> QED
  BY <1>4

\* Narrowing down twice is narrowing down to what both leave.
LEMMA KeptTwice ==
  ASSUME NEW N, NEW s \in Seq(N), NEW P, NEW Q
  PROVE  Kept(Kept(s, P), Q) = Kept(s, P \cap Q)
<1> DEFINE G == {q \in Seq(N) : Kept(Kept(q, P), Q) = Kept(q, P \cap Q)}
<1>1. <<>> \in G
  BY KeptOfNone, EmptySeq
<1>2. ASSUME NEW q \in Seq(N), NEW x \in N, q \in G PROVE Append(q, x) \in G
  <2>1. Kept(Kept(q, P), Q) = Kept(q, P \cap Q) /\ Append(q, x) \in Seq(N)
    BY <1>2, AppendProperties
  <2>2. Kept(q, P) \in Seq(N)
    BY KeptInSeq
  <2>3. Kept(Append(q, x), P)
          = IF x \in P THEN Append(Kept(q, P), x) ELSE Kept(q, P)
    BY KeptOfOneMore
  <2>4. Kept(Append(q, x), P \cap Q)
          = IF x \in P \cap Q THEN Append(Kept(q, P \cap Q), x) ELSE Kept(q, P \cap Q)
    BY KeptOfOneMore
  <2>5. Kept(Append(Kept(q, P), x), Q)
          = IF x \in Q THEN Append(Kept(Kept(q, P), Q), x) ELSE Kept(Kept(q, P), Q)
    BY <2>2, KeptOfOneMore
  <2>6. Kept(Kept(Append(q, x), P), Q) = Kept(Append(q, x), P \cap Q)
    <3> HIDE DEF G
    <3>1. CASE x \in P /\ x \in Q
      BY <2>1, <2>3, <2>4, <2>5, <3>1
    <3>2. CASE x \in P /\ x \notin Q
      BY <2>1, <2>3, <2>4, <2>5, <3>2
    <3>3. CASE x \notin P
      BY <2>1, <2>3, <2>4, <3>3
    <3> QED
      BY <3>1, <3>2, <3>3
  <2> QED
    BY <2>1, <2>6
<1> HIDE DEF G
<1>3. Seq(N) \subseteq G
  BY <1>1, <1>2, AllSequences
<1> QED
  BY <1>3 DEF G

LEMMA AllKept ==
  ASSUME NEW N, NEW s \in Seq(N), NEW S, \A i \in DOMAIN s : s[i] \in S
  PROVE  Kept(s, S) = s
<1> DEFINE G == {q \in Seq(N) : (\A i \in DOMAIN q : q[i] \in S) => Kept(q, S) = q}
<1>1. <<>> \in G
  BY KeptOfNone, EmptySeq
<1>2. ASSUME NEW q \in Seq(N), NEW x \in N, q \in G PROVE Append(q, x) \in G
  <2>1. Append(q, x) \in Seq(N)
    BY AppendProperties
  <2>2. ASSUME \A i \in DOMAIN Append(q, x) : Append(q, x)[i] \in S
        PROVE  Kept(Append(q, x), S) = Append(q, x)
    <3>0. /\ DOMAIN Append(q, x) = 1 .. Len(q) + 1 /\ DOMAIN q = 1 .. Len(q)
          /\ Len(q) \in Nat /\ Append(q, x)[Len(q) + 1] = x
          /\ \A i \in 1 .. Len(q) : Append(q, x)[i] = q[i]
      BY AppendProperties, LenProperties
    <3> HIDE DEF G
    <3>1. x \in S /\ \A i \in DOMAIN q : q[i] \in S
      <4>1. Append(q, x)[Len(q) + 1] \in S
        BY <2>2, <3>0
      <4>2. \A i \in 1 .. Len(q) : Append(q, x)[i] \in S
        BY <2>2, <3>0
      <4> QED
        BY <3>0, <4>1, <4>2
    <3>2. Kept(q, S) = q
      BY <1>2, <3>1 DEF G
    <3> QED
      BY <3>1, <3>2, KeptOfOneMore
  <2> QED
    BY <2>1, <2>2
<1> HIDE DEF G
<1>3. Seq(N) \subseteq G
  BY <1>1, <1>2, AllSequences
<1> QED
  BY <1>3 DEF G

\* Only what S says of the elements themselves matters.
LEMMA KeptAlike ==
  ASSUME NEW N, NEW s \in Seq(N), NEW P, NEW Q,
         \A i \in DOMAIN s : s[i] \in P <=> s[i] \in Q
  PROVE  Kept(s, P) = Kept(s, Q)
<1> DEFINE G == {q \in Seq(N) :
                   (\A i \in DOMAIN q : q[i] \in P <=> q[i] \in Q) => Kept(q, P) = Kept(q, Q)}
<1>1. <<>> \in G
  BY KeptOfNone, EmptySeq
<1>2. ASSUME NEW q \in Seq(N), NEW x \in N, q \in G PROVE Append(q, x) \in G
  <2>1. Append(q, x) \in Seq(N)
    BY AppendProperties
  <2>2. ASSUME \A i \in DOMAIN Append(q, x) : Append(q, x)[i] \in P <=> Append(q, x)[i] \in Q
        PROVE  Kept(Append(q, x), P) = Kept(Append(q, x), Q)
    <3>0. /\ DOMAIN Append(q, x) = 1 .. Len(q) + 1 /\ DOMAIN q = 1 .. Len(q)
          /\ Len(q) \in Nat /\ Append(q, x)[Len(q) + 1] = x
          /\ \A i \in 1 .. Len(q) : Append(q, x)[i] = q[i]
      BY AppendProperties, LenProperties
    <3> HIDE DEF G
    <3>1. (x \in P <=> x \in Q) /\ \A i \in DOMAIN q : q[i] \in P <=> q[i] \in Q
      <4>1. Append(q, x)[Len(q) + 1] \in P <=> Append(q, x)[Len(q) + 1] \in Q
        BY <2>2, <3>0
      <4>2. \A i \in 1 .. Len(q) : Append(q, x)[i] \in P <=> Append(q, x)[i] \in Q
        BY <2>2, <3>0
      <4> QED
        BY <3>0, <4>1, <4>2
    <3>2. Kept(q, P) = Kept(q, Q)
      BY <1>2, <3>1 DEF G
    <3>3. Kept(Append(q, x), P) = IF x \in P THEN Append(Kept(q, P), x) ELSE Kept(q, P)
      BY KeptOfOneMore
    <3>4. Kept(Append(q, x), Q) = IF x \in Q THEN Append(Kept(q, Q), x) ELSE Kept(q, Q)
      BY KeptOfOneMore
    <3> QED
      BY <3>1, <3>2, <3>3, <3>4
  <2> QED
    BY <2>1, <2>2
<1> HIDE DEF G
<1>3. Seq(N) \subseteq G
  BY <1>1, <1>2, AllSequences
<1> QED
  BY <1>3 DEF G

\* The sequence with each element exchanged.
Exchanged(s, d) == [i \in DOMAIN s |-> d[s[i]]]

LEMMA ExchangedOneMore ==
  ASSUME NEW N, NEW d \in [N -> N], NEW s \in Seq(N), NEW x \in N
  PROVE  /\ Exchanged(s, d) \in Seq(N)
         /\ Exchanged(Append(s, x), d) = Append(Exchanged(s, d), d[x])
<1>1. Exchanged(s, d) \in Seq(N) /\ Len(Exchanged(s, d)) = Len(s)
  BY DEF Exchanged
<1>2. Append(s, x) \in Seq(N) /\ Len(Append(s, x)) = Len(s) + 1
  OBVIOUS
<1>3. Exchanged(Append(s, x), d) \in Seq(N)
  BY <1>2 DEF Exchanged
<1>4. Append(Exchanged(s, d), d[x]) \in Seq(N)
  BY <1>1
<1>5. Len(Exchanged(Append(s, x), d)) = Len(Append(Exchanged(s, d), d[x]))
  BY <1>1, <1>2 DEF Exchanged
<1>6. ASSUME NEW i \in 1 .. Len(s) + 1
      PROVE  Exchanged(Append(s, x), d)[i] = Append(Exchanged(s, d), d[x])[i]
  <2>1. CASE i = Len(s) + 1
    BY <1>1, <1>2, <2>1 DEF Exchanged
  <2>2. CASE i # Len(s) + 1
    BY <1>1, <1>2, <2>2 DEF Exchanged
  <2> QED
    BY <2>1, <2>2
<1> QED
  BY <1>1, <1>2, <1>3, <1>4, <1>5, <1>6, SeqEqual

\* The elements that are exchanged for one in Q.
ExchangedInto(N, d, Q) == {n \in N : d[n] \in Q}

\* Narrowing down what was exchanged is exchanging what is left by it.
LEMMA KeptOfExchanged ==
  ASSUME NEW N, NEW d \in [N -> N], NEW s \in Seq(N), NEW Q
  PROVE  Kept(Exchanged(s, d), Q) = Exchanged(Kept(s, ExchangedInto(N, d, Q)), d)
<1> DEFINE P == ExchangedInto(N, d, Q)
           G == {q \in Seq(N) : Kept(Exchanged(q, d), Q) = Exchanged(Kept(q, P), d)}
<1>1. <<>> \in G
  <2>1. Exchanged(<<>>, d) = <<>>
    BY DEF Exchanged
  <2> QED
    BY <2>1, KeptOfNone, EmptySeq
<1>2. ASSUME NEW q \in Seq(N), NEW x \in N, q \in G PROVE Append(q, x) \in G
  <2>1. Kept(Exchanged(q, d), Q) = Exchanged(Kept(q, P), d) /\ Append(q, x) \in Seq(N)
    BY <1>2, AppendProperties
  <2>2. x \in P <=> d[x] \in Q
    BY DEF ExchangedInto
  <2> HIDE DEF P, G
  <2>3. Kept(q, P) \in Seq(N) /\ Exchanged(q, d) \in Seq(N) /\ d[x] \in N
    BY KeptInSeq, ExchangedOneMore
  <2>4. Exchanged(Append(q, x), d) = Append(Exchanged(q, d), d[x])
    BY ExchangedOneMore
  <2>5. Kept(Append(Exchanged(q, d), d[x]), Q)
          = IF d[x] \in Q THEN Append(Kept(Exchanged(q, d), Q), d[x])
            ELSE Kept(Exchanged(q, d), Q)
    BY <2>3, KeptOfOneMore
  <2>6. Kept(Append(q, x), P) = IF x \in P THEN Append(Kept(q, P), x) ELSE Kept(q, P)
    BY KeptOfOneMore
  <2>7. Exchanged(Append(Kept(q, P), x), d) = Append(Exchanged(Kept(q, P), d), d[x])
    BY <2>3, ExchangedOneMore
  <2>8. Kept(Exchanged(Append(q, x), d), Q) = Exchanged(Kept(Append(q, x), P), d)
    BY <2>1, <2>2, <2>4, <2>5, <2>6, <2>7
  <2> QED
    BY <2>1, <2>8 DEF G
<1> HIDE DEF G
<1>3. Seq(N) \subseteq G
  BY <1>1, <1>2, AllSequences
<1> QED
  BY <1>3 DEF G
-----------------------------------------------------------------------------
Names     == Seq(Words)
NameLists == [us : BOOLEAN, names : Seq(Names)]

\* The first name of b with the base of n, if it has one.
LEMMA MatchesAreBases ==
  ASSUME NEW a \in NameLists, NEW b \in NameLists, NEW n
  PROVE  Matches(a, n, b) # {} <=> GetBaseName(a.us, n) \in BasesOf(b)
  BY DEF Matches, BasesOf, NamesOf

LEMMA FirstMatchMatches ==
  ASSUME NEW a \in NameLists, NEW b \in NameLists, NEW n, Matches(a, n, b) # {}
  PROVE  /\ FirstMatch(a, n, b) \in NamesOf(b)
         /\ FirstMatch(a, n, b) \in Names
         /\ GetBaseName(b.us, FirstMatch(a, n, b)) = GetBaseName(a.us, n)
<1> DEFINE M == Matches(a, n, b)
           First(j) == j \in M /\ \A k \in M : j <= k
           f == CHOOSE j \in M : \A k \in M : j <= k
<1>1. b.names \in Seq(Names)
  BY DEF NameLists
<1>2. M \subseteq Nat /\ M \subseteq DOMAIN b.names
  BY <1>1, LenProperties DEF Matches
<1>3. f \in M
  <2> HIDE DEF M
  <2>1. \E j \in M : \A k \in M : j <= k
    BY <1>2, LeastNumber DEF M
  <2> QED
    BY <2>1
<1>4. FirstMatch(a, n, b) = b.names[f]
  BY DEF FirstMatch
<1> HIDE DEF f
<1>5. GetBaseName(b.us, b.names[f]) = GetBaseName(a.us, n) /\ f \in DOMAIN b.names
  BY <1>3 DEF Matches
<1>6. b.names[f] \in Names
  BY <1>1, <1>5, ElementOfSeq, LenProperties
<1> QED
  BY <1>4, <1>5, <1>6 DEF NamesOf

LEMMA PreferredIsName ==
  ASSUME NEW a \in NameLists, NEW b \in NameLists, NEW n \in Names, Matches(a, n, b) # {}
  PROVE  /\ Preferred(a, n, b) \in Names
         /\ Preferred(a, n, b) \in {n} \cup NamesOf(b)
  BY FirstMatchMatches DEF Preferred

LEMMA NamesAreNames ==
  ASSUME NEW a \in NameLists
  PROVE  NamesOf(a) \subseteq Names /\ a.names \in Seq(NamesOf(a))
<1>1. a.names \in Seq(Names)
  BY DEF NameLists
<1>2. \A i \in DOMAIN a.names : a.names[i] \in Names /\ a.names[i] \in NamesOf(a)
  BY <1>1, ElementOfSeq, LenProperties DEF NamesOf
<1>3. a.names \in Seq(NamesOf(a))
  <2>1. Len(a.names) \in Nat /\ DOMAIN a.names = 1 .. Len(a.names)
        /\ a.names = [i \in 1 .. Len(a.names) |-> a.names[i]]
    BY <1>1
  <2> QED
    BY <1>2, <2>1, IsASeq
<1> QED
  BY <1>2, <1>3 DEF NamesOf

\* What is left of a list without exchanging, and what it is exchanged for.
Found(a, b) == Kept(a.names, {n \in NamesOf(a) : Matches(a, n, b) # {}})

LEMMA FoundNames ==
  ASSUME NEW a \in NameLists, NEW b \in NameLists
  PROVE  /\ Found(a, b) \in Seq(Names)
         /\ \A i \in DOMAIN Found(a, b) :
              Found(a, b)[i] \in NamesOf(a) /\ Matches(a, Found(a, b)[i], b) # {}
<1> DEFINE S == {n \in NamesOf(a) : Matches(a, n, b) # {}}
<1>1. a.names \in Seq(Names) /\ a.names \in Seq(NamesOf(a)) /\ NamesOf(a) \subseteq Names
  BY NamesAreNames DEF NameLists
<1>2. Kept(a.names, S) \in Seq(NamesOf(a) \cap S) /\ Kept(a.names, S) \in Seq(Names)
  <2> HIDE DEF S
  <2> QED
    BY <1>1, KeptInSeq
<1>3. Found(a, b) = Kept(a.names, S)
  BY DEF Found
<1>4. \A i \in DOMAIN Kept(a.names, S) : Kept(a.names, S)[i] \in S
  <2> HIDE DEF S
  <2> QED
    BY <1>2, ElementOfSeq, LenProperties
<1> QED
  BY <1>2, <1>3, <1>4

LEMMA CommonBasesList ==
  ASSUME NEW a \in NameLists, NEW b \in NameLists
  PROVE  /\ FindCommonBaseNames(a, b) \in NameLists
         /\ FindCommonBaseNames(a, b).us = a.us
         /\ FindCommonBaseNames(a, b).names
              = [i \in DOMAIN Found(a, b) |-> Preferred(a, Found(a, b)[i], b)]
         /\ NamesOf(FindCommonBaseNames(a, b)) \subseteq NamesOf(a) \cup NamesOf(b)
<1> DEFINE f == Found(a, b)
           g == [i \in DOMAIN f |-> Preferred(a, f[i], b)]
<1>1. FindCommonBaseNames(a, b) = [us |-> a.us, names |-> g]
  BY DEF FindCommonBaseNames, Found
<1>2. f \in Seq(Names)
      /\ \A i \in DOMAIN f : f[i] \in NamesOf(a) /\ Matches(a, f[i], b) # {}
  BY FoundNames
<1> HIDE DEF f
<1>3. \A i \in DOMAIN f : f[i] \in Names
  BY <1>2, NamesAreNames
<1>4. \A i \in DOMAIN f : /\ Preferred(a, f[i], b) \in Names
                          /\ Preferred(a, f[i], b) \in {f[i]} \cup NamesOf(b)
  BY <1>2, <1>3, PreferredIsName
<1>5. Len(f) \in Nat /\ DOMAIN f = 1 .. Len(f)
  BY <1>2, LenProperties
<1>6. g \in Seq(Names)
  BY <1>4, <1>5, IsASeq
<1>7. DOMAIN g = DOMAIN f /\ \A i \in DOMAIN g : g[i] \in NamesOf(a) \cup NamesOf(b)
  BY <1>2, <1>4
<1> HIDE DEF g
<1>8. a.us \in BOOLEAN
  BY DEF NameLists
<1>9. [us |-> a.us, names |-> g] \in NameLists
  BY <1>6, <1>8 DEF NameLists
<1>10. NamesOf([us |-> a.us, names |-> g]) \subseteq NamesOf(a) \cup NamesOf(b)
  BY <1>7 DEF NamesOf
<1> QED
  BY <1>1, <1>9, <1>10 DEF g, f
-----------------------------------------------------------------------------
\* The edges of a stretch, all on one side of a border.
Stretches == {es \in Seq(NameLists) : es # <<>> /\ \A i \in DOMAIN es : es[i].us = es[1].us}

LEMMA OneMoreEdge ==
  ASSUME NEW es \in Seq(NameLists), es # <<>>, NEW e \in NameLists
  PROVE  /\ Append(es, e) \in Seq(NameLists) /\ Append(es, e) # <<>>
         /\ Len(es) \in Nat /\ Len(es) >= 1 /\ 1 \in DOMAIN es
         /\ DOMAIN es = 1 .. Len(es)
         /\ Append(es, e)[1] = es[1]
         /\ es[1] \in NameLists
         /\ DOMAIN Append(es, e) = DOMAIN es \cup {Len(es) + 1}
         /\ Len(es) + 1 \notin DOMAIN es
         /\ Append(es, e)[Len(es) + 1] = e
         /\ \A i \in DOMAIN es : Append(es, e)[i] = es[i]
<1>1. Len(es) \in Nat /\ Len(es) # 0
  BY EmptySeq, LenProperties
<1>2. DOMAIN es = 1 .. Len(es) /\ 1 \in 1 .. Len(es)
  BY <1>1
<1>3. /\ Append(es, e) \in Seq(NameLists) /\ Append(es, e) # <<>>
      /\ DOMAIN Append(es, e) = 1 .. Len(es) + 1
      /\ Append(es, e)[Len(es) + 1] = e
      /\ \A i \in 1 .. Len(es) : Append(es, e)[i] = es[i]
  BY AppendProperties, LenProperties
<1>4. es[1] \in NameLists
  BY <1>2, ElementOfSeq
<1> QED
  BY <1>1, <1>2, <1>3, <1>4

LEMMA StretchGrows ==
  ASSUME NEW es \in Seq(NameLists), es # <<>>, NEW e \in NameLists,
         Append(es, e) \in Stretches
  PROVE  es \in Stretches /\ e.us = es[1].us
<1> DEFINE fs == Append(es, e)
<1>1. /\ DOMAIN fs = DOMAIN es \cup {Len(es) + 1} /\ fs[Len(es) + 1] = e
      /\ \A i \in DOMAIN es : fs[i] = es[i]
      /\ fs[1] = es[1]
  BY OneMoreEdge
<1>2. \A i \in DOMAIN fs : fs[i].us = fs[1].us
  BY DEF Stretches
<1> HIDE DEF fs
<1>3. e.us = es[1].us /\ \A i \in DOMAIN es : es[i].us = es[1].us
  BY <1>1, <1>2
<1> QED
  BY <1>3 DEF Stretches

LEMMA HadByOneMore ==
  ASSUME NEW es \in Seq(NameLists), es # <<>>, NEW e \in NameLists
  PROVE  HadByAll(Append(es, e)) = HadByAll(es) \cap NamesOf(e)
<1> DEFINE fs == Append(es, e)
<1>1. /\ DOMAIN fs = DOMAIN es \cup {Len(es) + 1} /\ fs[Len(es) + 1] = e
      /\ \A i \in DOMAIN es : fs[i] = es[i]
      /\ fs[1] = es[1]
  BY OneMoreEdge
<1> HIDE DEF fs
<1>2. ASSUME NEW n
      PROVE  (\A i \in DOMAIN fs : n \in NamesOf(fs[i]))
               <=> (\A i \in DOMAIN es : n \in NamesOf(es[i])) /\ n \in NamesOf(e)
  BY <1>1
<1>3. HadByAll(fs) = HadByAll(es) \cap NamesOf(e)
  BY <1>1, <1>2 DEF HadByAll
<1> QED
  BY <1>3 DEF fs

LEMMA BaseHadByOneMore ==
  ASSUME NEW es \in Seq(NameLists), es # <<>>, NEW e \in NameLists
  PROVE  BaseHadByAll(Append(es, e))
           = {n \in BaseHadByAll(es) : GetBaseName(es[1].us, n) \in BasesOf(e)}
<1> DEFINE fs == Append(es, e)
<1>1. /\ DOMAIN fs = DOMAIN es \cup {Len(es) + 1} /\ fs[Len(es) + 1] = e
      /\ \A i \in DOMAIN es : fs[i] = es[i]
      /\ fs[1] = es[1]
  BY OneMoreEdge
<1> HIDE DEF fs
<1>2. ASSUME NEW b
      PROVE  (\A i \in DOMAIN fs : b \in BasesOf(fs[i]))
               <=> (\A i \in DOMAIN es : b \in BasesOf(es[i])) /\ b \in BasesOf(e)
  BY <1>1
<1>3. BaseHadByAll(fs)
        = {n \in BaseHadByAll(es) : GetBaseName(es[1].us, n) \in BasesOf(e)}
  BY <1>1, <1>2 DEF BaseHadByAll
<1> QED
  BY <1>3 DEF fs

\* What is met for a name that no edge loses.
LEMMA MetHasTheBase ==
  ASSUME NEW es \in Stretches, NEW n \in BaseHadByAll(es), NEW i \in DOMAIN es
  PROVE  /\ Met(es, n, i) \in Names
         /\ GetBaseName(es[1].us, Met(es, n, i)) = GetBaseName(es[1].us, n)
<1>1. es \in Seq(NameLists) /\ es # <<>> /\ es[i].us = es[1].us
  BY DEF Stretches
<1>2. es[1] \in NameLists /\ es[i] \in NameLists
  <2>1. Len(es) \in Nat /\ Len(es) # 0 /\ DOMAIN es = 1 .. Len(es)
    BY <1>1, EmptySeq, LenProperties
  <2> QED
    BY <1>1, <2>1, ElementOfSeq
<1>3. /\ n \in NamesOf(es[1])
      /\ GetBaseName(es[1].us, n) \in BasesOf(es[i])
  BY DEF BaseHadByAll
<1>4. CASE i = 1
  BY <1>2, <1>3, <1>4, NamesAreNames DEF Met
<1>5. CASE i # 1
  <2>1. Matches(es[1], n, es[i]) # {}
    BY <1>2, <1>3, MatchesAreBases
  <2> QED
    BY <1>1, <1>2, <1>5, <2>1, FirstMatchMatches DEF Met
<1> QED
  BY <1>4, <1>5

IsFirst(T, i) == i \in T /\ \A j \in T : i <= j

LEMMA FirstDirected ==
  ASSUME NEW es \in Stretches, NEW n, Directed(es, n) # {}
  PROVE  \E i : /\ IsFirst(Directed(es, n), i)
                /\ ComesOutAs(es, n) = Met(es, n, i)
<1> DEFINE T == Directed(es, n)
           f == CHOOSE i \in T : \A j \in T : i <= j
<1>1. T \subseteq Nat
  BY LenProperties DEF Directed, Stretches
<1>2. ComesOutAs(es, n) = Met(es, n, f)
  BY DEF ComesOutAs
<1> HIDE DEF T
<1>3. \E i \in T : \A j \in T : i <= j
  BY <1>1, LeastNumber DEF T
<1>4. f \in T /\ \A j \in T : f <= j
  BY <1>3
<1> QED
  BY <1>2, <1>4 DEF IsFirst, T

LEMMA ComesOutWithBase ==
  ASSUME NEW es \in Stretches, NEW n \in BaseHadByAll(es)
  PROVE  /\ ComesOutAs(es, n) \in Names
         /\ GetBaseName(es[1].us, ComesOutAs(es, n)) = GetBaseName(es[1].us, n)
         /\ HasPostCardinalDir(es[1].us, ComesOutAs(es, n)) <=> Directed(es, n) # {}
<1>1. 1 \in DOMAIN es /\ Met(es, n, 1) = n
  BY LenProperties, EmptySeq DEF Met, Stretches
<1>2. CASE Directed(es, n) = {}
  <2>1. ComesOutAs(es, n) = n
    BY <1>2 DEF ComesOutAs
  <2>2. ~ HasPostCardinalDir(es[1].us, n)
    BY <1>1, <1>2 DEF Directed
  <2> QED
    BY <1>1, <1>2, <2>1, <2>2, MetHasTheBase
<1>3. CASE Directed(es, n) # {}
  <2>1. PICK i : i \in Directed(es, n) /\ ComesOutAs(es, n) = Met(es, n, i)
    BY <1>3, FirstDirected DEF IsFirst
  <2>2. i \in DOMAIN es /\ HasPostCardinalDir(es[1].us, Met(es, n, i))
    BY <2>1 DEF Directed
  <2> QED
    BY <1>3, <2>1, <2>2, MetHasTheBase
<1> QED
  BY <1>2, <1>3

\* One edge more exchanges a name once at most.
LEMMA ComesOutOneMore ==
  ASSUME NEW es \in Seq(NameLists), es # <<>>, NEW e \in NameLists,
         Append(es, e) \in Stretches, NEW n \in BaseHadByAll(Append(es, e)),
         NEW b \in NameLists, b.us = es[1].us
  PROVE  Preferred(b, ComesOutAs(es, n), e) = ComesOutAs(Append(es, e), n)
<1> DEFINE fs == Append(es, e)
           l  == Len(es) + 1
           us == es[1].us
           m  == FirstMatch(es[1], n, e)
<1>1. es \in Stretches /\ e.us = us /\ n \in BaseHadByAll(es)
  BY StretchGrows, BaseHadByOneMore
<1>2. /\ DOMAIN fs = DOMAIN es \cup {l} /\ fs[l] = e /\ l # 1 /\ l \notin DOMAIN es
      /\ \A i \in DOMAIN es : fs[i] = es[i] /\ i < l
      /\ fs[1] = es[1]
      /\ l \in Nat /\ DOMAIN es \subseteq Nat
  BY OneMoreEdge
<1>3. Met(fs, n, l) = m /\ \A i \in DOMAIN es : Met(fs, n, i) = Met(es, n, i)
  BY <1>2 DEF Met
<1>4. Directed(fs, n) = Directed(es, n) \cup (IF HasPostCardinalDir(us, m) THEN {l} ELSE {})
  <2> HIDE DEF fs, l, m
  <2>1. ASSUME NEW i
        PROVE  i \in Directed(fs, n)
                 <=> i \in Directed(es, n) \/ (i = l /\ HasPostCardinalDir(us, m))
    <3>1. CASE i \in DOMAIN es
      BY <1>2, <1>3, <3>1 DEF Directed
    <3>2. CASE i = l
      BY <1>2, <1>3, <3>2 DEF Directed
    <3>3. CASE i \notin DOMAIN es /\ i # l
      BY <1>2, <3>3 DEF Directed
    <3> QED
      BY <3>1, <3>2, <3>3
  <2> QED
    BY <2>1
<1>5. /\ GetBaseName(us, ComesOutAs(es, n)) = GetBaseName(us, n)
      /\ HasPostCardinalDir(us, ComesOutAs(es, n)) <=> Directed(es, n) # {}
  BY <1>1, ComesOutWithBase
<1>6. FirstMatch(b, ComesOutAs(es, n), e) = m
  <2> HIDE DEF fs, l
  <2>1. GetBaseName(b.us, ComesOutAs(es, n)) = GetBaseName(es[1].us, n)
    BY <1>5
  <2>2. Matches(b, ComesOutAs(es, n), e) = Matches(es[1], n, e)
    BY <2>1 DEF Matches
  <2> QED
    BY <2>2 DEF FirstMatch
<1>7. Preferred(b, ComesOutAs(es, n), e)
        = IF Directed(es, n) = {} /\ HasPostCardinalDir(us, m) THEN m
          ELSE ComesOutAs(es, n)
  <2> HIDE DEF m, us
  <2> QED
    BY <1>1, <1>5, <1>6 DEF Preferred, us
<1> HIDE DEF fs, l, m
<1>8. CASE Directed(es, n) # {}
  <2>1. PICK i : IsFirst(Directed(es, n), i) /\ ComesOutAs(es, n) = Met(es, n, i)
    BY <1>1, <1>8, FirstDirected
  <2>2. Directed(fs, n) # {}
    BY <1>4, <1>8
  <2>3. PICK j : IsFirst(Directed(fs, n), j) /\ ComesOutAs(fs, n) = Met(fs, n, j)
    BY <2>2, FirstDirected DEF fs
  <2>4. i \in DOMAIN es
    BY <2>1 DEF IsFirst, Directed
  <2>5. i = j
    <3>1. j \in DOMAIN fs /\ j \in Nat /\ i \in Nat /\ i < l
      BY <1>2, <2>3, <2>4 DEF IsFirst, Directed
    <3>2. j <= i
      BY <1>4, <2>1, <2>3 DEF IsFirst
    <3>3. j \in Directed(es, n)
      BY <1>2, <1>4, <2>3, <3>1, <3>2 DEF IsFirst
    <3>4. i <= j
      BY <2>1, <3>3 DEF IsFirst
    <3> QED
      BY <3>1, <3>2, <3>4
  <2> QED
    BY <1>3, <1>7, <1>8, <2>1, <2>3, <2>4, <2>5 DEF fs
<1>9. CASE Directed(es, n) = {} /\ HasPostCardinalDir(us, m)
  <2>1. Directed(fs, n) = {l}
    BY <1>4, <1>9
  <2>2. PICK j : IsFirst(Directed(fs, n), j) /\ ComesOutAs(fs, n) = Met(fs, n, j)
    BY <2>1, FirstDirected DEF fs
  <2>3. j = l
    BY <2>1, <2>2 DEF IsFirst
  <2> QED
    BY <1>3, <1>7, <1>9, <2>2, <2>3 DEF fs
<1>10. CASE Directed(es, n) = {} /\ ~ HasPostCardinalDir(us, m)
  <2>1. Directed(fs, n) = {}
    BY <1>4, <1>10
  <2> QED
    BY <1>7, <1>10, <2>1 DEF ComesOutAs, fs
<1> QED
  BY <1>8, <1>9, <1>10

\* The names that are left are exchanged for what they come out as.
LEMMA BasesOfOneMore ==
  ASSUME NEW es \in Seq(NameLists), es # <<>>, NEW e \in NameLists,
         Append(es, e) \in Stretches,
         NEW b \in NameLists, b.us = es[1].us,
         NEW kept, kept = Kept(es[1].names, BaseHadByAll(es)),
         b.names = [k \in DOMAIN kept |-> ComesOutAs(es, kept[k])],
         NEW left, left = Kept(es[1].names, BaseHadByAll(Append(es, e)))
  PROVE  FindCommonBaseNames(b, e).names
           = [k \in DOMAIN left |-> ComesOutAs(Append(es, e), left[k])]
<1> DEFINE s  == es[1].names
           us == es[1].us
           B  == BaseHadByAll(es)
           C  == BaseHadByAll(Append(es, e))
           d  == [n \in Names |-> IF n \in B THEN ComesOutAs(es, n) ELSE n]
           Q  == {m \in Names : Matches(b, m, e) # {}}
           P  == ExchangedInto(Names, d, Q)
<1>1. es \in Stretches /\ es[1] \in NameLists /\ s \in Seq(Names)
  BY OneMoreEdge, StretchGrows DEF NameLists
<1>2. /\ B \subseteq Names /\ C \subseteq B
      /\ \A n \in B : n \in C <=> GetBaseName(us, n) \in BasesOf(e)
  <2>1. B \subseteq Names
    BY <1>1, NamesAreNames DEF BaseHadByAll
  <2> QED
    BY <2>1, BaseHadByOneMore
<1>3. /\ d \in [Names -> Names]
      /\ \A n \in B : /\ d[n] = ComesOutAs(es, n) /\ d[n] \in Names
                      /\ GetBaseName(us, d[n]) = GetBaseName(us, n)
  <2>1. \A n \in B : /\ ComesOutAs(es, n) \in Names
                    /\ GetBaseName(us, ComesOutAs(es, n)) = GetBaseName(us, n)
    BY <1>1, ComesOutWithBase
  <2> HIDE DEF B, us
  <2> QED
    BY <1>2, <2>1
<1>4. B \cap P = C
  <2>1. ASSUME NEW n \in B PROVE n \in P <=> n \in C
    <3>1. Matches(b, d[n], e) # {} <=> GetBaseName(us, d[n]) \in BasesOf(e)
      BY MatchesAreBases
    <3> HIDE DEF d, B, C, us
    <3> QED
      BY <1>2, <1>3, <2>1, <3>1 DEF ExchangedInto
  <2> HIDE DEF P, B, C
  <2> QED
    BY <1>2, <2>1
<1>5. /\ kept \in Seq(Names) /\ \A k \in DOMAIN kept : kept[k] \in B
  <2> HIDE DEF B
  <2>1. kept \in Seq(Names) /\ kept \in Seq(Names \cap B)
    BY <1>1, KeptInSeq DEF B
  <2> QED
    BY <2>1, ElementOfSeq, LenProperties
<1>6. b.names = Exchanged(kept, d)
  <2> HIDE DEF d, B
  <2>1. \A k \in DOMAIN kept : ComesOutAs(es, kept[k]) = d[kept[k]]
    BY <1>3, <1>5
  <2> QED
    BY <2>1 DEF Exchanged
<1> HIDE DEF d
<1>7. Found(b, e) = Kept(b.names, Q)
  <2>1. b.names \in Seq(Names)
    BY DEF NameLists
  <2>2. \A i \in DOMAIN b.names : b.names[i] \in Names /\ b.names[i] \in NamesOf(b)
    BY <2>1, ElementOfSeq, LenProperties DEF NamesOf
  <2> DEFINE R == {n \in NamesOf(b) : Matches(b, n, e) # {}}
  <2>3. \A i \in DOMAIN b.names : b.names[i] \in R <=> b.names[i] \in Q
    BY <2>2
  <2> HIDE DEF Q
  <2>4. Found(b, e) = Kept(b.names, R)
    BY DEF Found
  <2> HIDE DEF R
  <2> QED
    BY <2>1, <2>3, <2>4, KeptAlike
<1>8. Kept(b.names, Q) = Exchanged(left, d)
  <2> HIDE DEF Q
  <2>1. Kept(Exchanged(kept, d), Q) = Exchanged(Kept(kept, P), d)
    <3>1. d \in [Names -> Names] /\ kept \in Seq(Names)
      BY <1>3, <1>5
    <3> HIDE DEF B, C
    <3> QED
      BY <3>1, KeptOfExchanged
  <2> HIDE DEF P, B, C
  <2>2. Kept(kept, P) = Kept(s, B \cap P)
    BY <1>1, KeptTwice DEF B
  <2>3. left = Kept(s, C)
    BY DEF C
  <2> QED
    BY <1>4, <1>6, <2>1, <2>2, <2>3
<1>9. \A k \in DOMAIN left : left[k] \in C
  <2> HIDE DEF C
  <2>1. left \in Seq(Names \cap C)
    BY <1>1, KeptInSeq DEF C
  <2> QED
    BY <2>1, ElementOfSeq, LenProperties
<1>10. Found(b, e) = Exchanged(left, d)
  BY <1>7, <1>8
<1>11. /\ DOMAIN Found(b, e) = DOMAIN left
       /\ \A k \in DOMAIN left : Found(b, e)[k] = ComesOutAs(es, left[k])
  <2> HIDE DEF B, C
  <2> QED
    BY <1>2, <1>3, <1>9, <1>10 DEF Exchanged
<1>12. \A k \in DOMAIN left :
         Preferred(b, Found(b, e)[k], e) = ComesOutAs(Append(es, e), left[k])
  BY <1>9, <1>11, ComesOutOneMore
<1> QED
  BY <1>11, <1>12, CommonBasesList
-----------------------------------------------------------------------------
NamesTyped ==
  /\ edges \in Seq(NameLists)
  /\ common \in NameLists
  /\ base \in NameLists

\* A list that is narrowed down stays on the side of the border of the first.
NamesInv ==
  /\ NamesTyped
  /\ edges # <<>> => base.us = edges[1].us
  /\ CommonNamesAreShared
  /\ BaseNamesAreShared

LEMMA CreatedIsList ==
  ASSUME NEW us \in BOOLEAN, NEW names \in Lists
  PROVE  Create(us, names) \in NameLists
  BY NameTypes DEF Create, NameLists, Names

LEMMA InitNamesInv == NamesInit => NamesInv
<1> SUFFICES ASSUME NamesInit PROVE NamesInv
  OBVIOUS
<1>1. edges = <<>> /\ common = Nothing /\ base = Nothing
  BY DEF NamesInit
<1>2. Nothing = [us |-> FALSE, names |-> <<>>] /\ Nothing \in NameLists
  BY EmptySeq DEF Nothing, Create, NameLists
<1>3. NamesOf(base) = {}
  BY <1>1, <1>2 DEF NamesOf
<1> QED
  BY <1>1, <1>2, <1>3, EmptySeq
  DEF NamesInv, NamesTyped, CommonNamesAreShared, BaseNamesAreShared

\* The lists of a stretch of one edge are those of the edge.
LEMMA OneEdge ==
  ASSUME NEW e \in NameLists, NEW es, es = <<e>>
  PROVE  /\ es \in Seq(NameLists) /\ es # <<>> /\ es[1] = e /\ DOMAIN es = {1}
         /\ Kept(e.names, HadByAll(es)) = e.names
         /\ Kept(e.names, BaseHadByAll(es)) = e.names
         /\ \A n : ComesOutAs(es, n) = n
<1>1. es \in Seq(NameLists) /\ es # <<>> /\ es[1] = e /\ DOMAIN es = {1}
  OBVIOUS
<1>2. e.names \in Seq(Names) /\ e.names = es[1].names
  BY <1>1 DEF NameLists
<1>3. /\ \A k \in DOMAIN e.names : e.names[k] \in HadByAll(es)
      /\ \A k \in DOMAIN e.names : e.names[k] \in BaseHadByAll(es)
  BY <1>1 DEF HadByAll, BaseHadByAll, BasesOf, NamesOf
<1>4. ASSUME NEW n PROVE ComesOutAs(es, n) = n
  <2>1. Met(es, n, 1) = n
    BY DEF Met
  <2>2. CASE Directed(es, n) = {}
    BY <2>2 DEF ComesOutAs
  <2>3. CASE Directed(es, n) # {}
    <3>1. Directed(es, n) = {1}
      BY <1>1, <2>3 DEF Directed
    <3>2. (CHOOSE i \in {1} : \A j \in {1} : i <= j) = 1
      OBVIOUS
    <3> QED
      BY <2>1, <2>3, <3>1, <3>2 DEF ComesOutAs
  <2> QED
    BY <2>2, <2>3
<1> QED
  BY <1>1, <1>2, <1>3, <1>4, AllKept

LEMMA FirstEdgeKeeps ==
  ASSUME NamesInv, NEW us \in BOOLEAN, NEW names \in Lists, FirstEdge(us, names)
  PROVE  NamesInv'
<1> DEFINE e == Create(us, names)
<1>1. edges' = <<e>> /\ common' = e /\ base' = e
  BY DEF FirstEdge
<1>2. e \in NameLists
  BY CreatedIsList
<1> HIDE DEF e
<1>3. /\ edges' \in Seq(NameLists) /\ edges' # <<>> /\ edges'[1] = e
      /\ DOMAIN edges' = {1}
      /\ Kept(e.names, HadByAll(edges')) = e.names
      /\ Kept(e.names, BaseHadByAll(edges')) = e.names
      /\ \A n : ComesOutAs(edges', n) = n
  BY <1>1, <1>2, OneEdge
<1>4. CommonNamesAreShared'
  BY <1>1, <1>3 DEF CommonNamesAreShared
<1>5. BaseNamesAreShared'
  <2>1. NamesOf(e) \subseteq UNION {NamesOf(edges'[i]) : i \in DOMAIN edges'}
    BY <1>3
  <2>2. e.names = [k \in DOMAIN e.names |-> e.names[k]]
    BY <1>2 DEF NameLists
  <2>3. e.names = [k \in DOMAIN e.names |-> ComesOutAs(edges', e.names[k])]
    BY <1>3, <2>2
  <2> QED
    BY <1>1, <1>3, <2>1, <2>3 DEF BaseNamesAreShared
<1> QED
  BY <1>1, <1>2, <1>3, <1>4, <1>5 DEF NamesInv, NamesTyped

LEMMA CommonList ==
  ASSUME NEW a \in NameLists, NEW b
  PROVE  FindCommonStreetNames(a, b) \in NameLists
<1>1. a.us \in BOOLEAN /\ a.names \in Seq(Names)
  BY DEF NameLists
<1>2. Kept(a.names, NamesOf(b)) \in Seq(Names)
  BY <1>1, KeptInSeq
<1> QED
  BY <1>1, <1>2 DEF FindCommonStreetNames, NameLists

LEMMA NextEdgeKeeps ==
  ASSUME NamesInv, NEW us \in BOOLEAN, NEW names \in Lists, NextEdge(us, names)
  PROVE  NamesInv'
<1> DEFINE e == Create(us, names)
<1>1. /\ edges' = Append(edges, e) /\ common' = FindCommonStreetNames(common, e)
      /\ base' = FindCommonBaseNames(base, e)
      /\ edges # <<>>
  BY DEF NextEdge
<1>2. e \in NameLists
  BY CreatedIsList
<1> HIDE DEF e
<1>3. /\ edges \in Seq(NameLists) /\ common \in NameLists /\ base \in NameLists
      /\ base.us = edges[1].us
  BY <1>1 DEF NamesInv, NamesTyped
<1>4. /\ edges' \in Seq(NameLists) /\ edges' # <<>> /\ edges'[1] = edges[1]
      /\ edges[1] \in NameLists
      /\ DOMAIN edges' = DOMAIN edges \cup {Len(edges) + 1}
      /\ edges'[Len(edges) + 1] = e
      /\ \A i \in DOMAIN edges : edges'[i] = edges[i]
  BY <1>1, <1>2, <1>3, OneMoreEdge
<1>5. /\ base' \in NameLists /\ base'.us = base.us
      /\ NamesOf(base') \subseteq NamesOf(base) \cup NamesOf(e)
  BY <1>1, <1>2, <1>3, CommonBasesList
<1>6. common' \in NameLists
  BY <1>1, <1>3, CommonList
<1>7. CommonNamesAreShared'
  <2>1. common'.names = Kept(common.names, NamesOf(e))
    BY <1>1 DEF FindCommonStreetNames
  <2>2. common.names = Kept(edges[1].names, HadByAll(edges))
    BY <1>1 DEF NamesInv, CommonNamesAreShared
  <2>3. edges[1].names \in Seq(Names)
    BY <1>4 DEF NameLists
  <2>4. common'.names = Kept(edges[1].names, HadByAll(edges) \cap NamesOf(e))
    BY <2>1, <2>2, <2>3, KeptTwice
  <2>5. HadByAll(edges') = HadByAll(edges) \cap NamesOf(e)
    BY <1>1, <1>2, <1>3, HadByOneMore
  <2> QED
    BY <1>4, <2>4, <2>5 DEF CommonNamesAreShared
<1>8. BaseNamesAreShared'
  <2>1. NamesOf(base') \subseteq UNION {NamesOf(edges'[i]) : i \in DOMAIN edges'}
    <3>1. NamesOf(base) \subseteq UNION {NamesOf(edges[i]) : i \in DOMAIN edges}
      BY DEF NamesInv, BaseNamesAreShared
    <3>2. ASSUME NEW n \in NamesOf(base')
          PROVE  \E i \in DOMAIN edges' : n \in NamesOf(edges'[i])
      <4>1. CASE n \in NamesOf(e)
        BY <1>4, <4>1
      <4>2. CASE n \in NamesOf(base)
        <5>1. PICK i \in DOMAIN edges : n \in NamesOf(edges[i])
          BY <3>1, <4>2
        <5> QED
          BY <1>4, <5>1
      <4> QED
        BY <1>5, <3>2, <4>1, <4>2
    <3> QED
      BY <3>2
  <2>2. ASSUME OneKind'
        PROVE  LET left == Kept(edges'[1].names, BaseHadByAll(edges'))
               IN  base'.names = [k \in DOMAIN left |-> ComesOutAs(edges', left[k])]
    <3>1. edges' \in Stretches
      BY <1>4, <2>2 DEF OneKind, Stretches
    <3>2. edges \in Stretches
      BY <1>1, <1>2, <1>3, <3>1, StretchGrows
    <3>3. OneKind
      BY <3>2 DEF OneKind, Stretches
    <3> DEFINE kept == Kept(edges[1].names, BaseHadByAll(edges))
               left == Kept(edges[1].names, BaseHadByAll(Append(edges, e)))
    <3>4. base.names = [k \in DOMAIN kept |-> ComesOutAs(edges, kept[k])]
      BY <1>1, <3>3 DEF NamesInv, BaseNamesAreShared
    <3> HIDE DEF kept, left
    <3>5. FindCommonBaseNames(base, e).names
            = [k \in DOMAIN left |-> ComesOutAs(Append(edges, e), left[k])]
      BY <1>1, <1>2, <1>3, <3>1, <3>4, BasesOfOneMore DEF kept, left
    <3> QED
      BY <1>1, <1>4, <3>5 DEF left
  <2> QED
    BY <2>1, <2>2 DEF BaseNamesAreShared
<1> QED
  BY <1>3, <1>4, <1>5, <1>6, <1>7, <1>8 DEF NamesInv, NamesTyped

LEMMA StepNamesInv == NamesInv /\ [NamesNext]_names_vars => NamesInv'
<1> SUFFICES ASSUME NamesInv, [NamesNext]_names_vars PROVE NamesInv'
  OBVIOUS
<1>1. CASE NamesNext
  BY <1>1, FirstEdgeKeeps, NextEdgeKeeps DEF NamesNext
<1>2. CASE UNCHANGED names_vars
  BY <1>2 DEF names_vars, NamesInv, NamesTyped, CommonNamesAreShared, BaseNamesAreShared, OneKind
<1> QED
  BY <1>1, <1>2

LEMMA NamesInvHolds == NamesSpec => []NamesInv
  BY InitNamesInv, StepNamesInv, PTL DEF NamesSpec

\* After any number of edges, with any names, the common names are those of
\* the first edge that every edge has, in the first one's order
\* (streetnames.cc:77-92).
THEOREM CommonNamesAreThose == NamesSpec => []CommonNamesAreShared
<1>1. NamesInv => CommonNamesAreShared
  BY DEF NamesInv
<1> QED
  BY <1>1, NamesInvHolds, PTL

\* After any number of edges, with any names and whatever words are directions,
\* no name whose base every edge has is lost by being exchanged for another
\* with a direction, and each comes out with the first direction met
\* (streetnames_us.cc:52-77).
THEOREM BaseNamesAreThose == NamesSpec => []BaseNamesAreShared
<1>1. NamesInv => BaseNamesAreShared
  BY DEF NamesInv
<1> QED
  BY <1>1, NamesInvHolds, PTL
=============================================================================
