---------------------------- MODULE MCGraphReader ----------------------------
(***************************************************************************)
(* Tiles A = 0/0/0 and B = 0/1/0 in two complete builds that number nodes  *)
(* and edges differently.  C = 0/2/0 is outside the extract, and level 1,  *)
(* where a ramp leads, is not configured.                                  *)
(***************************************************************************)
EXTENDS GraphReader, TLC

A == [tileid |-> 0, level |-> 0, id |-> 0]
B == [tileid |-> 1, level |-> 0, id |-> 0]
C == [tileid |-> 2, level |-> 0, id |-> 0]
Ramp == [tileid |-> 0, level |-> 1, id |-> 0]
In(tile, i) == [tile EXCEPT !.id = i]

N(edge_index, edge_count, density) ==
  [edge_index |-> edge_index, edge_count |-> edge_count, density |-> density]
E(endnode, leaves_tile, opp_index) ==
  [endnode |-> endnode, leaves_tile |-> leaves_tile, opp_index |-> opp_index]
T(size, nodes, edges) ==
  [size |-> size,
   nodecount |-> Cardinality(DOMAIN nodes), nodes |-> nodes,
   directededgecount |-> Cardinality(DOMAIN edges), edges |-> edges]

AFull ==
  T(2, (0 :> N(0, 3, 5)) @@ (1 :> N(3, 2, 6)),
       (0 :> E(In(B, 0), TRUE, 0)) @@ (1 :> E(In(A, 1), FALSE, 0))
         @@ (2 :> E(Ramp, TRUE, 0))
         @@ (3 :> E(In(A, 0), FALSE, 1)) @@ (4 :> E(In(B, 0), TRUE, 1)))
BFull ==
  T(1, 0 :> N(0, 2, 7),
       (0 :> E(In(A, 0), TRUE, 0)) @@ (1 :> E(In(A, 1), TRUE, 1)))

ALater ==
  T(2, (0 :> N(0, 1, 4)) @@ (1 :> N(1, 3, 5)) @@ (2 :> N(4, 2, 6)),
       (0 :> E(Ramp, TRUE, 0))
         @@ (1 :> E(In(A, 2), FALSE, 0)) @@ (2 :> E(C, TRUE, 0))
         @@ (3 :> E(In(B, 1), TRUE, 0))
         @@ (4 :> E(In(A, 1), FALSE, 0)) @@ (5 :> E(In(B, 0), TRUE, 0)))
BLater ==
  T(3, (0 :> N(0, 1, 7)) @@ (1 :> N(1, 1, 8)),
       (0 :> E(In(A, 2), TRUE, 1)) @@ (1 :> E(In(A, 1), TRUE, 2)))

Empty == [size |-> 0, nodecount |-> 0, nodes |-> <<>>,
          directededgecount |-> 0, edges |-> <<>>]

\* "region" lacks B; in "failed" the files were created and not written.
MCBuild ==
  [full   |-> (A :> AFull)  @@ (B :> BFull)  @@ (C :> NoFile),
   later  |-> (A :> ALater) @@ (B :> BLater) @@ (C :> NoFile),
   region |-> (A :> AFull)  @@ (B :> NoFile) @@ (C :> NoFile),
   failed |-> (A :> Empty)  @@ (B :> Empty)  @@ (C :> NoFile)]

\* Edges of both tiles, an edge and a level that do not exist, the invalid id.
MCQueryIds == {In(A, i) : i \in {0, 2, 3, 4, 6}} \cup {In(B, i) : i \in 0 .. 2}
              \cup {Ramp, Invalid}
=============================================================================
