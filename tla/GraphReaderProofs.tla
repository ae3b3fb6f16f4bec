-------------------------- MODULE GraphReaderProofs --------------------------
(***************************************************************************)
(* Theorems about GraphReader, for every hierarchy, every collection of    *)
(* builds and every size limit.                                            *)
(***************************************************************************)
EXTENDS GraphReader, TLAPS, FiniteSetTheorems

LEMMA InvalidIsAnId == Invalid \in GraphIds
  BY GraphIdLimits DEF Invalid, GraphIds, IdFieldSize

\* Tile_Base stays in the ranges of the fields.
LEMMA TileBaseIsAnId ==
  ASSUME NEW g \in GraphIds
  PROVE  Tile_Base(g) \in GraphIds /\ Canonical(Tile_Base(g))
  BY GraphIdLimits DEF Tile_Base, Set, Canonical, GraphIds, IdFieldSize

\* Every content of a file is a tile.
LEMMA ContentsAreTiles ==
  ASSUME NEW c \in Contents
  PROVE  IsTile(c)
<1>1. PICK k \in Builds, f \in Files : c = Build[k][f] /\ c # NoFile
  BY DEF Contents
<1>2. \A g \in Files : Build[k][g] = NoFile \/ IsTile(Build[k][g])
  BY ConstantTypes
<1> QED BY <1>1, <1>2

LEMMA IdFieldIsNat ==
  ASSUME NEW g \in GraphIds
  PROVE  g.id \in Nat
<1>1. IdFieldSize - 1 \in Nat
  BY GraphIdLimits DEF IdFieldSize
<1>2. g.id \in 0 .. IdFieldSize - 1
  BY DEF GraphIds
<1> QED BY <1>1, <1>2

\* The bounds tests of GraphTile::node and GraphTile::directededge suffice.
LEMMA NodeInTile ==
  ASSUME NEW tile, IsTile(tile), NEW n \in Nat, n < tile.nodecount
  PROVE  tile.nodes[n] \in Node
<1>1. n \in 0 .. tile.nodecount - 1
  BY DEF IsTile
<1> QED BY <1>1 DEF IsTile

LEMMA EdgeInTile ==
  ASSUME NEW tile, IsTile(tile), NEW n \in Nat, n < tile.directededgecount
  PROVE  tile.edges[n] \in Edge /\ tile.edges[n].endnode \in GraphIds
<1>1. n \in 0 .. tile.directededgecount - 1
  BY DEF IsTile
<1>2. tile.edges[n] \in Edge
  BY <1>1 DEF IsTile
<1> QED BY <1>2 DEF Edge

\* What a GetGraphTile does to the cache, and that its pointer is good.
LEMMA LoadStep ==
  ASSUME TypeOK, NEW id \in GraphIds, Load(id)
  PROVE  /\ DOMAIN cache_' \subseteq Files
         /\ cache_' \in [DOMAIN cache_' -> Contents]
         /\ cache_size_' \in Nat
         /\ \A f \in DOMAIN cache_ : f \in DOMAIN cache_' /\ cache_'[f] = cache_[f]
         /\ HasTile(id) => /\ Tile_Base(id) \in DOMAIN cache_'
                           /\ cache_'[Tile_Base(id)] = TileOf(id)
                           /\ IsTile(TileOf(id))
<1>1. CASE ~Cached(id) /\ Loadable(id)
  <2> DEFINE b == Tile_Base(id)
  <2>1. /\ b \in Files /\ disk[b] \in Contents /\ b \notin DOMAIN cache_
        /\ IsTile(disk[b])
    BY <1>1, ContentsAreTiles DEF Cached, Loadable, TypeOK, DiskType
  <2>2. /\ cache_' = [f \in DOMAIN cache_ \cup {b} |->
                        IF f = b THEN disk[f] ELSE cache_[f]]
        /\ cache_size_' = cache_size_ + disk[b].size
    BY <1>1 DEF Load
  <2>3. cache_size_' \in Nat
    BY <2>1, <2>2 DEF TypeOK, CacheType, IsTile
  <2>4. TileOf(id) = disk[b]
    BY <1>1 DEF TileOf
  <2> QED BY <2>1, <2>2, <2>3, <2>4 DEF TypeOK, CacheType
<1>2. CASE ~(~Cached(id) /\ Loadable(id))
  <2>1. UNCHANGED <<cache_, cache_size_>>
    BY <1>2 DEF Load
  <2>2. HasTile(id) => Cached(id)
    BY <1>2 DEF HasTile
  <2>3. Cached(id) => /\ TileOf(id) = cache_[Tile_Base(id)]
                      /\ IsTile(TileOf(id))
    BY ContentsAreTiles DEF TileOf, Cached, TypeOK, CacheType
  <2> QED BY <2>1, <2>2, <2>3 DEF TypeOK, CacheType, Cached
<1> QED BY <1>1, <1>2

-----------------------------------------------------------------------------
(* The type invariant.                                                     *)

\* Ending a call leaves well typed call and last.
LEMMA ReturnType ==
  ASSUME NEW op, NEW arg \in GraphIds, NEW val, Return(op, arg, val)
  PROVE  CallType' /\ LastType'
  BY InvalidIsAnId DEF Return, Idle, Result, CallType, LastType

LEMMA SegfaultType ==
  ASSUME NEW op, NEW arg \in GraphIds, Segfault(op, arg)
  PROVE  CallType' /\ LastType'
  BY InvalidIsAnId DEF Segfault, Crashed, Result, CallType, LastType

\* The last part of a call, whatever tile it runs in.
LEMMA AtEndNodeType ==
  ASSUME LastType,
         NEW op \in {"GetOpposingEdgeId", "GetOpposingEdge", "GetEdgeDensity"},
         NEW edgeid \in GraphIds, NEW edge \in Edge,
         NEW tile, IsTile(tile), NEW id \in GraphIds,
         AtEndNode(op, edgeid, edge, tile, id)
  PROVE  CallType' /\ LastType'
<1>1. CASE Return(op, edgeid, Thrown)
  BY <1>1, ReturnType
<1>2. CASE /\ id.id < tile.nodecount
           /\ AfterOpposingEdgeId(op, edgeid, tile,
                WithId(id, tile.nodes[id.id].edge_index + edge.opp_index))
  <2> DEFINE opp == WithId(id, tile.nodes[id.id].edge_index + edge.opp_index)
  <2>1. opp.id \in Nat
    <3>1. tile.nodes[id.id] \in Node
      BY <1>2, IdFieldIsNat, NodeInTile
    <3>2. tile.nodes[id.id].edge_index \in Nat /\ edge.opp_index \in Nat
      BY <3>1 DEF Node, Edge
    <3> QED BY <3>2 DEF WithId
  <2>2. opp.id < tile.directededgecount => tile.edges[opp.id].endnode \in GraphIds
    BY <2>1, EdgeInTile
  <2> HIDE DEF opp
  <2>3. CASE Return(op, edgeid, opp) \/ Return(op, edgeid, Thrown)
    BY <2>3, ReturnType
  <2>4. CASE /\ opp.id < tile.directededgecount
             /\ call' = [pc |-> "density", op |-> op, edge |-> edgeid,
                         id |-> tile.edges[opp.id].endnode]
             /\ UNCHANGED last
    BY <2>2, <2>4 DEF CallType, LastType
  <2> QED BY <1>2, <2>3, <2>4 DEF AfterOpposingEdgeId, opp
<1> QED BY <1>1, <1>2 DEF AtEndNode

LEMMA FindEdgeType ==
  ASSUME TypeOK, NEW id \in GraphIds,
         NEW op \in {"GetOpposingEdgeId", "GetOpposingEdge", "GetEdgeDensity"},
         FindEdge(op, id)
  PROVE  CallType' /\ LastType'
<1>1. Load(id) /\ LastType
  BY DEF FindEdge, TypeOK
<1>2. CASE Return(op, id, Thrown) \/ Segfault(op, id)
  BY <1>2, ReturnType, SegfaultType
<1>3. CASE /\ HasTile(id)
           /\ id.id < TileOf(id).directededgecount
           /\ LET edge == TileOf(id).edges[id.id] IN
              \/ /\ edge.leaves_tile
                 /\ call' = [pc |-> "endnode", op |-> op, edge |-> id,
                             id |-> edge.endnode]
                 /\ UNCHANGED last
              \/ /\ ~edge.leaves_tile
                 /\ AtEndNode(op, id, edge, TileOf(id), edge.endnode)
  <2> DEFINE edge == TileOf(id).edges[id.id]
  <2>1. IsTile(TileOf(id))
    BY <1>1, <1>3, LoadStep
  <2>2. edge \in Edge /\ edge.endnode \in GraphIds
    BY <1>3, <2>1, IdFieldIsNat, EdgeInTile
  <2> HIDE DEF edge
  <2>3. CASE /\ call' = [pc |-> "endnode", op |-> op, edge |-> id,
                         id |-> edge.endnode]
             /\ UNCHANGED last
    BY <1>1, <2>2, <2>3 DEF CallType, LastType
  <2>4. CASE AtEndNode(op, id, edge, TileOf(id), edge.endnode)
    BY <1>1, <2>1, <2>2, <2>4, AtEndNodeType
  <2> QED BY <1>3, <2>3, <2>4 DEF edge
<1> QED BY <1>2, <1>3 DEF FindEdge

LEMMA FindEndNodeType ==
  ASSUME TypeOK, HeldPointersLive, FindEndNode
  PROVE  CallType' /\ LastType'
<1>1. /\ Load(call.id) /\ LastType /\ call.id \in GraphIds /\ call.edge \in GraphIds
      /\ call.op \in {"none", "GetOpposingEdgeId", "GetOpposingEdge", "GetEdgeDensity"}
  BY DEF FindEndNode, TypeOK, CallType, LastType
<1>2. CASE \/ Return(call.op, call.edge, Thrown) \/ Segfault(call.op, call.edge)
           \/ WithoutOpposingEdgeId(call.op, call.edge)
  BY <1>1, <1>2, ReturnType, SegfaultType DEF WithoutOpposingEdgeId
<1>3. CASE /\ HasTile(call.id)
           /\ AtEndNode(call.op, call.edge, HeldEdge, TileOf(call.id), call.id)
  <2>1. IsTile(TileOf(call.id))
    BY <1>1, <1>3, LoadStep
  <2>2. IsTile(cache_[Tile_Base(call.edge)])
    BY ContentsAreTiles DEF FindEndNode, HeldPointersLive, TypeOK, CacheType
  <2>3. HeldEdge \in Edge
    BY <1>1, <2>2, IdFieldIsNat, EdgeInTile
    DEF HeldEdge, FindEndNode, HeldPointersLive
  <2>4. CASE call.op # "none"
    BY <1>1, <1>3, <2>1, <2>3, <2>4, AtEndNodeType
  <2>5. CASE call.op = "none"
    BY <1>1, <1>3, <2>5, ReturnType
    DEF AtEndNode, AfterOpposingEdgeId
  <2> QED BY <2>4, <2>5
<1> QED BY <1>2, <1>3 DEF FindEndNode

LEMMA FindDensityType ==
  ASSUME TypeOK, FindDensity
  PROVE  CallType' /\ LastType'
  BY ReturnType, SegfaultType DEF FindDensity, TypeOK, CallType

-----------------------------------------------------------------------------
(* The inductive invariant: a call between two reads still finds its edge  *)
(* in the cache, which its type correctness needs.                         *)

IInv == TypeOK /\ HeldPointersLive

\* How the actions change the cache.
LEMMA LoadOps ==
  ASSUME TypeOK, NEW id \in GraphIds, Load(id), UNCHANGED disk
  PROVE  CacheType' /\ DiskType'
  BY LoadStep DEF CacheType, DiskType, TypeOK

LEMMA ClearedCache ==
  ASSUME cache_' = [f \in {} |-> NoFile], cache_size_' = 0
  PROVE  CacheType'
  BY DEF CacheType

LEMMA InitInv == Init => IInv
<1> SUFFICES ASSUME Init PROVE IInv
  OBVIOUS
<1>1. DiskType
  <2>1. PICK k \in Builds : disk = Build[k]
    BY DEF Init
  <2>2. \A f \in Files : Build[k][f] \in Contents \cup {NoFile}
    BY DEF Contents
  <2> QED BY <2>1, <2>2, ConstantTypes DEF DiskType
<1>2. CacheType
  BY DEF Init, CacheType
<1>3. CallType /\ LastType /\ HeldPointersLive
  BY InvalidIsAnId DEF Init, CallType, LastType, Idle, Result, HeldPointersLive
<1> QED BY <1>1, <1>2, <1>3 DEF IInv, TypeOK

\* A finished or crashed call holds nothing.
LEMMA DoneHoldsNothing ==
  ASSUME NEW op, NEW arg, NEW val,
         Return(op, arg, val) \/ Segfault(op, arg)
  PROVE  HeldPointersLive'
  BY DEF Return, Segfault, Idle, Crashed, HeldPointersLive

LEMMA AtEndNodeHoldsNothing ==
  ASSUME NEW op, NEW edgeid, NEW edge, NEW tile, NEW id,
         AtEndNode(op, edgeid, edge, tile, id)
  PROVE  HeldPointersLive'
<1>1. PICK val : \/ Return(op, edgeid, val)
                 \/ call' = [pc |-> "density", op |-> op, edge |-> edgeid, id |-> val]
  <2>1. CASE Return(op, edgeid, Thrown)
    BY <2>1
  <2>2. CASE AfterOpposingEdgeId(op, edgeid, tile,
               WithId(id, tile.nodes[id.id].edge_index + edge.opp_index))
    BY <2>2 DEF AfterOpposingEdgeId
  <2> QED BY <2>1, <2>2 DEF AtEndNode
<1>2. CASE Return(op, edgeid, val)
  BY <1>2, DoneHoldsNothing
<1>3. CASE call' = [pc |-> "density", op |-> op, edge |-> edgeid, id |-> val]
  BY <1>3 DEF HeldPointersLive
<1> QED BY <1>1, <1>2, <1>3

LEMMA FindEdgeHolds ==
  ASSUME TypeOK, NEW op, NEW id \in GraphIds, FindEdge(op, id)
  PROVE  HeldPointersLive'
<1>1. Load(id) /\ call = Idle
  BY DEF FindEdge
<1>2. CASE Return(op, id, Thrown) \/ Segfault(op, id)
  BY <1>2, DoneHoldsNothing
<1>3. CASE /\ HasTile(id)
           /\ id.id < TileOf(id).directededgecount
           /\ TileOf(id).edges[id.id].leaves_tile
           /\ call' = [pc |-> "endnode", op |-> op, edge |-> id,
                       id |-> TileOf(id).edges[id.id].endnode]
  BY <1>1, <1>3, LoadStep DEF HeldPointersLive
<1>4. CASE AtEndNode(op, id, TileOf(id).edges[id.id], TileOf(id),
                     TileOf(id).edges[id.id].endnode)
  BY <1>4, AtEndNodeHoldsNothing
<1> QED BY <1>2, <1>3, <1>4 DEF FindEdge

LEMMA FindEndNodeHolds ==
  ASSUME TypeOK, FindEndNode
  PROVE  HeldPointersLive'
<1>1. CASE \/ Return(call.op, call.edge, Thrown) \/ Segfault(call.op, call.edge)
           \/ WithoutOpposingEdgeId(call.op, call.edge)
  BY <1>1, DoneHoldsNothing DEF WithoutOpposingEdgeId
<1>2. CASE AtEndNode(call.op, call.edge, HeldEdge, TileOf(call.id), call.id)
  BY <1>2, AtEndNodeHoldsNothing
<1> QED BY <1>1, <1>2 DEF FindEndNode

LEMMA StepInv == IInv /\ [Next]_vars => IInv'
<1> SUFFICES ASSUME IInv, [Next]_vars
             PROVE  IInv'
  OBVIOUS
<1>1. TypeOK /\ HeldPointersLive
  BY DEF IInv
<1>2. ASSUME NEW id \in QueryIds, GetGraphTile(id)
      PROVE  IInv'
  <2>1. id \in GraphIds /\ Load(id)
    BY <1>2, ConstantTypes DEF GetGraphTile
  <2>2. CacheType' /\ DiskType'
    BY <1>1, <1>2, <2>1, LoadOps DEF GetGraphTile
  <2>3. \/ \E val : Return("GetGraphTile", id, val)
        \/ Segfault("GetGraphTile", id)
    BY <1>2 DEF GetGraphTile
  <2>4. CallType' /\ LastType' /\ HeldPointersLive'
    BY <2>1, <2>3, ReturnType, SegfaultType, DoneHoldsNothing
  <2> QED BY <2>2, <2>4 DEF IInv, TypeOK
<1>3. ASSUME NEW id \in QueryIds, DoesTileExist(id)
      PROVE  IInv'
  <2>1. id \in GraphIds /\ UNCHANGED <<disk, cache_, cache_size_>>
    BY <1>3, ConstantTypes DEF DoesTileExist
  <2>2. PICK val : Return("DoesTileExist", id, val)
    BY <1>3 DEF DoesTileExist
  <2> QED BY <1>1, <2>1, <2>2, ReturnType, DoneHoldsNothing
          DEF IInv, TypeOK, CacheType, DiskType
<1>4. ASSUME NEW id \in QueryIds,
             NEW op \in {"GetOpposingEdgeId", "GetOpposingEdge", "GetEdgeDensity"},
             FindEdge(op, id)
      PROVE  IInv'
  <2>1. id \in GraphIds /\ Load(id) /\ UNCHANGED disk
    BY <1>4, ConstantTypes DEF FindEdge
  <2> QED BY <1>1, <1>4, <2>1, LoadOps, FindEdgeType, FindEdgeHolds DEF IInv, TypeOK
<1>5. CASE FindEndNode
  <2>1. call.id \in GraphIds /\ Load(call.id) /\ UNCHANGED disk
    BY <1>1, <1>5 DEF FindEndNode, TypeOK, CallType
  <2> QED BY <1>1, <1>5, <2>1, LoadOps, FindEndNodeType, FindEndNodeHolds
          DEF IInv, TypeOK
<1>6. CASE FindDensity
  <2>1. call.id \in GraphIds /\ Load(call.id) /\ UNCHANGED disk
    BY <1>1, <1>6 DEF FindDensity, TypeOK, CallType
  <2>2. HeldPointersLive'
    BY <1>6, DoneHoldsNothing DEF FindDensity
  <2> QED BY <1>1, <1>6, <2>1, <2>2, LoadOps, FindDensityType DEF IInv, TypeOK
<1>7. CASE Clear
  BY <1>1, <1>7, ClearedCache, ReturnType, InvalidIsAnId, DoneHoldsNothing
  DEF TypeOK, DiskType, Clear, IInv
<1>8. CASE OverCommitted
  <2>1. UNCHANGED <<disk, cache_, cache_size_>>
    BY <1>8 DEF OverCommitted
  <2>2. PICK val : Return("OverCommitted", Invalid, val)
    BY <1>8 DEF OverCommitted
  <2> QED BY <1>1, <2>1, <2>2, ReturnType, InvalidIsAnId, DoneHoldsNothing
          DEF IInv, TypeOK, CacheType, DiskType
<1>9. ASSUME NEW k \in Builds, NEW f \in Files, Publish(k, f)
      PROVE  IInv'
  <2>1. Build[k][f] \in Contents \cup {NoFile}
    BY DEF Contents
  <2>2. DiskType'
    BY <1>1, <1>9, <2>1 DEF Publish, TypeOK, DiskType
  <2> QED BY <1>1, <1>9, <2>2
          DEF TypeOK, DiskType, Publish, IInv, CacheType, CallType, LastType, HeldPointersLive
<1>10. CASE Restart
  <2>1. CallType' /\ LastType' /\ HeldPointersLive'
    BY <1>10, InvalidIsAnId
    DEF Restart, Idle, Result, CallType, LastType, HeldPointersLive
  <2> QED BY <1>1, <1>10, <2>1, ClearedCache DEF TypeOK, DiskType, Restart, IInv
<1>11. CASE UNCHANGED vars
  BY <1>1, <1>11 DEF vars, IInv, TypeOK, DiskType, CacheType, CallType, LastType, HeldPointersLive
<1> QED BY <1>2, <1>3, <1>4, <1>5, <1>6, <1>7, <1>8, <1>9, <1>10, <1>11
        DEF Next, GetOpposingEdgeId, GetOpposingEdge, GetEdgeDensity

LEMMA InvHolds == Spec => []IInv
  BY InitInv, StepInv, PTL DEF Spec

(***************************************************************************)
(* Every variable keeps its type: the cache maps tile files to contents of *)
(* some build, and what a call remembers between reads is an edge and a    *)
(* node id (GraphReader, graphreader.h:114-125).                           *)
(***************************************************************************)
THEOREM TypeCorrect == Spec => []TypeOK
<1>1. IInv => TypeOK
  BY DEF IInv
<1> QED BY <1>1, InvHolds, PTL

(***************************************************************************)
(* The pointers a call keeps while it reads a second file stay good        *)
(* (graphreader.cc:104-111).                                               *)
(***************************************************************************)
THEOREM PointersHeldAreLive == Spec => []HeldPointersLive
<1>1. IInv => HeldPointersLive
  BY DEF IInv
<1> QED BY <1>1, InvHolds, PTL

-----------------------------------------------------------------------------
(* The cache as a store of snapshots.                                      *)

\* Every step leaves the cache alone, empties it, or loads one tile.
LEMMA CacheStep ==
  ASSUME IInv, [Next]_vars
  PROVE  \/ UNCHANGED <<cache_, cache_size_>>
         \/ /\ cache_' = [f \in {} |-> NoFile] /\ cache_size_' = 0
            /\ UNCHANGED disk
         \/ /\ \E id \in GraphIds : Load(id)
            /\ UNCHANGED disk
<1>1. \A id \in QueryIds : id \in GraphIds
  BY ConstantTypes
<1>2. call.id \in GraphIds
  BY DEF IInv, TypeOK, CallType
<1> QED BY <1>1, <1>2
        DEF Next, vars, GetGraphTile, DoesTileExist, Clear, OverCommitted, Publish,
            Restart, GetOpposingEdgeId, GetOpposingEdge, GetEdgeDensity,
            FindEdge, FindEndNode, FindDensity

(***************************************************************************)
(* A GraphTile* handed out stays good until the whole cache goes           *)
(* (graphreader.cc:57, 67, 85-88).                                         *)
(***************************************************************************)
THEOREM TilePointersAreStable == Spec => PointersStable
<1>1. IInv /\ [Next]_vars =>
        [ \/ \A f \in DOMAIN cache_ : f \in DOMAIN cache_' /\ cache_'[f] = cache_[f]
          \/ cache_' = [f \in {} |-> NoFile] ]_vars
  BY CacheStep, LoadStep DEF IInv
<1> QED BY <1>1, InvHolds, PTL DEF Spec, PointersStable

(***************************************************************************)
(* Only files with contents are cached and cache_size_ is at least the     *)
(* size of each, 0 for the empty cache (graphreader.cc:62-66, 86-87).      *)
(***************************************************************************)
THEOREM CacheSizeIsCover == Spec => []CacheSizeCovers
<1>1. Init => CacheSizeCovers
  BY DEF Init, CacheSizeCovers
<1>2. IInv /\ CacheSizeCovers /\ [Next]_vars => CacheSizeCovers'
  <2> SUFFICES ASSUME IInv, CacheSizeCovers, [Next]_vars
               PROVE  CacheSizeCovers'
    OBVIOUS
  <2>1. CASE UNCHANGED <<cache_, cache_size_>>
    BY <2>1 DEF CacheSizeCovers
  <2>2. CASE cache_' = [f \in {} |-> NoFile] /\ cache_size_' = 0
    BY <2>2 DEF CacheSizeCovers
  <2>3. ASSUME NEW id \in GraphIds, ~Cached(id), Loadable(id), Load(id)
        PROVE  CacheSizeCovers'
    <3> DEFINE b == Tile_Base(id)
    <3>1. /\ disk[b].size \in Nat \ {0}
          /\ cache_size_ \in Nat
          /\ \A f \in DOMAIN cache_ : cache_[f].size \in Nat \ {0}
                                     /\ cache_[f].size <= cache_size_
      BY <2>3, ContentsAreTiles
      DEF Loadable, IInv, TypeOK, DiskType, CacheType, IsTile, CacheSizeCovers
    <3>2. /\ cache_' = [f \in DOMAIN cache_ \cup {b} |->
                          IF f = b THEN disk[f] ELSE cache_[f]]
          /\ cache_size_' = cache_size_ + disk[b].size
      BY <2>3 DEF Load
    <3>3. \A f \in DOMAIN cache_' : cache_'[f].size # 0 /\ cache_'[f].size <= cache_size_'
      BY <3>1, <3>2
    <3> QED BY <3>2, <3>3 DEF CacheSizeCovers
  <2>4. ASSUME NEW id \in GraphIds, ~(~Cached(id) /\ Loadable(id)), Load(id)
        PROVE  CacheSizeCovers'
    BY <2>4 DEF Load, CacheSizeCovers
  <2> QED BY <2>1, <2>2, <2>3, <2>4, CacheStep
<1> QED BY <1>1, <1>2, InvHolds, PTL DEF Spec

\* The bytes of one more tile.
LEMMA OneMoreTile ==
  ASSUME TypeOK, IsFiniteSet(CachedBytes), NEW id \in GraphIds,
         ~Cached(id), Loadable(id), Load(id)
  PROVE  /\ IsFiniteSet(CachedBytes')
         /\ Cardinality(CachedBytes') =
              Cardinality(CachedBytes) + disk[Tile_Base(id)].size
<1> DEFINE b == Tile_Base(id)
           n == disk[b].size
           new == {b} \X (1 .. n)
<1>1. n \in Nat
  BY ContentsAreTiles DEF Loadable, TypeOK, DiskType, IsTile
<1>2. cache_' = [f \in DOMAIN cache_ \cup {b} |-> IF f = b THEN disk[f] ELSE cache_[f]]
  BY DEF Load
<1>3. b \notin DOMAIN cache_
  BY DEF Cached
<1>4. CachedBytes' = CachedBytes \cup new
  <2>1. CachedBytes' = UNION {{f} \X (1 .. cache_'[f].size) : f \in DOMAIN cache_'}
    BY DEF CachedBytes
  <2>2. /\ DOMAIN cache_' = DOMAIN cache_ \cup {b} /\ cache_'[b].size = n
        /\ \A f \in DOMAIN cache_ : cache_'[f].size = cache_[f].size
    <3> HIDE DEF b
    <3>1. cache_'[b] = disk[b] /\ \A f \in DOMAIN cache_ : cache_'[f] = cache_[f]
      BY <1>2, <1>3
    <3> QED
      BY <1>2, <3>1
  <2> HIDE DEF n, b
  <2>3. ASSUME NEW x
        PROVE  x \in CachedBytes' <=> x \in CachedBytes \/ x \in new
    <3>1. x \in CachedBytes' <=> \E f \in DOMAIN cache_' : x \in {f} \X (1 .. cache_'[f].size)
      BY <2>1
    <3>2. x \in CachedBytes <=> \E f \in DOMAIN cache_ : x \in {f} \X (1 .. cache_[f].size)
      BY DEF CachedBytes
    <3> HIDE DEF new
    <3>3. x \in new <=> x \in {b} \X (1 .. n)
      BY DEF new
    <3> QED
      BY <2>2, <3>1, <3>2, <3>3
  <2> QED
    BY <2>3
<1>5. IsFiniteSet(new) /\ Cardinality(new) = n
  <2>1. IsFiniteSet({b}) /\ Cardinality({b}) = 1
    BY FS_Singleton
  <2>2. IsFiniteSet(1 .. n) /\ Cardinality(1 .. n) = n
    <3>1. /\ IsFiniteSet(1 .. n)
          /\ Cardinality(1 .. n) = IF 1 > n THEN 0 ELSE n - 1 + 1
      BY <1>1, FS_Interval
    <3> QED
      BY <1>1, <3>1
  <2> HIDE DEF n, b
  <2>3. IsFiniteSet(new) /\ Cardinality(new) = Cardinality({b}) * Cardinality(1 .. n)
    BY <2>1, <2>2, FS_Product
  <2> QED
    BY <1>1, <2>1, <2>2, <2>3
<1>6. CachedBytes \cap new = {}
  <2> HIDE DEF n, b
  <2> QED
    BY <1>3 DEF CachedBytes
<1> HIDE DEF new, n
<1>7. /\ IsFiniteSet(CachedBytes \cup new)
      /\ Cardinality(CachedBytes \cup new) =
           Cardinality(CachedBytes) + Cardinality(new) - Cardinality(CachedBytes \cap new)
  BY <1>5, FS_Union
<1>8. Cardinality(CachedBytes \cap new) = 0 /\ Cardinality(CachedBytes) \in Nat
  BY <1>6, FS_EmptySet, FS_CardinalityType
<1> QED
  BY <1>1, <1>4, <1>5, <1>7, <1>8 DEF n

(***************************************************************************)
(* cache_size_ counts each byte of the cached tiles once, whatever loads,  *)
(* hits, failed loads and Clears came before (graphreader.cc:62-66, 86).   *)
(***************************************************************************)
THEOREM CacheSizeIsExact == Spec => []CacheSizeExact
<1> DEFINE Exact == IsFiniteSet(CachedBytes) /\ CacheSizeExact
<1>1. cache_ = [g \in {} |-> NoFile] => CachedBytes = {}
  BY DEF CachedBytes
<1>2. Init => Exact
  BY <1>1, FS_EmptySet DEF Init, CacheSizeExact
<1>3. IInv /\ Exact /\ [Next]_vars => Exact'
  <2> SUFFICES ASSUME IInv, Exact, [Next]_vars
               PROVE  Exact'
    OBVIOUS
  <2>1. CASE UNCHANGED <<cache_, cache_size_>>
    BY <2>1 DEF CachedBytes, CacheSizeExact
  <2>2. CASE cache_' = [f \in {} |-> NoFile] /\ cache_size_' = 0
    <3>1. CachedBytes' = {}
      BY <2>2 DEF CachedBytes
    <3> QED
      BY <2>2, <3>1, FS_EmptySet DEF CacheSizeExact
  <2>3. ASSUME NEW id \in GraphIds, ~Cached(id), Loadable(id), Load(id)
        PROVE  Exact'
    <3>1. cache_size_' = cache_size_ + disk[Tile_Base(id)].size
      BY <2>3 DEF Load
    <3> QED
      BY <2>3, <3>1, OneMoreTile DEF IInv, CacheSizeExact
  <2>4. ASSUME NEW id \in GraphIds, ~(~Cached(id) /\ Loadable(id)), Load(id)
        PROVE  Exact'
    BY <2>4 DEF Load, CachedBytes, CacheSizeExact
  <2> QED
    BY <2>1, <2>2, <2>3, <2>4, CacheStep
<1> QED
  BY <1>2, <1>3, InvHolds, PTL DEF Spec

(***************************************************************************)
(* The reader implements TileStore: whatever calls are made, in whatever   *)
(* state of the directory, each tile is read once per Clear, as a whole    *)
(* and from the disk of that moment.                                       *)
(***************************************************************************)
THEOREM ReaderIsTileStore == Spec => ImplementsTileStore
<1>1. Init => Store!Init
  <2> SUFFICES ASSUME Init PROVE Store!Init
    OBVIOUS
  <2>1. DiskType
    BY InitInv DEF IInv, TypeOK
  <2> QED BY <2>1 DEF Init, DiskType, Store!Init
<1>2. IInv /\ [Next]_vars => [Store!Next]_(Store!vars)
  <2> SUFFICES ASSUME IInv, [Next]_vars
               PROVE  Store!Next \/ UNCHANGED <<disk, cache_>>
    BY DEF Store!vars
  <2>1. CASE UNCHANGED <<cache_, cache_size_>> /\ UNCHANGED disk
    BY <2>1
  <2>2. CASE cache_' = [f \in {} |-> NoFile] /\ UNCHANGED disk
    BY <2>2 DEF Store!Next, Store!Forget
  <2>3. ASSUME NEW id \in GraphIds, Load(id), UNCHANGED disk
        PROVE  Store!Next \/ UNCHANGED <<disk, cache_>>
    <3>1. CASE ~Cached(id) /\ Loadable(id)
      <4>1. Tile_Base(id) \in Files /\ disk[Tile_Base(id)] \in Contents
        BY <3>1 DEF Loadable, IInv, TypeOK, DiskType
      <4>2. Store!Snapshot(Tile_Base(id))
        BY <2>3, <3>1, <4>1 DEF Load, Cached, Store!Snapshot
      <4> QED BY <4>1, <4>2 DEF Store!Next
    <3>2. CASE ~(~Cached(id) /\ Loadable(id))
      BY <2>3, <3>2 DEF Load
    <3> QED BY <3>1, <3>2
  <2>4. ASSUME NEW k \in Builds, NEW f \in Files, Publish(k, f)
        PROVE  Store!Next
    <3>1. Build[k][f] \in Contents \cup {NoFile}
      BY DEF Contents
    <3> QED BY <2>4, <3>1 DEF Publish, Store!Next, Store!Replace
  <2>5. \/ UNCHANGED disk
        \/ \E k \in Builds, f \in Files : Publish(k, f)
    BY DEF Next, vars, GetGraphTile, DoesTileExist, Clear, OverCommitted,
           Restart, GetOpposingEdgeId, GetOpposingEdge, GetEdgeDensity,
           FindEdge, FindEndNode, FindDensity
  <2> QED BY <2>1, <2>2, <2>3, <2>4, <2>5, CacheStep
<1> QED BY <1>1, <1>2, InvHolds, PTL DEF Spec, ImplementsTileStore, Store!Spec

-----------------------------------------------------------------------------
(* The answers of GetOpposingEdgeId, GetOpposingEdge and GetEdgeDensity.   *)

\* What the last answer says of build k.
Answer(k) ==
  /\ last.op \in {"GetOpposingEdgeId", "GetOpposingEdge"}
       /\ last.val \notin {Invalid, Nullptr, Thrown}
     => Opposite(k, last.arg, last.val)
  /\ last.op \in {"GetOpposingEdgeId", "GetOpposingEdge", "GetEdgeDensity"}
       /\ last.val = Thrown
     => ~IsEdge(k, last.arg) \/ ~IsNode(k, EdgeOf(k, last.arg).endnode)
  /\ last.op = "GetEdgeDensity" /\ last.val \notin {Nullptr, Thrown}
     => \E n \in GraphIds : Begins(k, last.arg, n) /\ last.val = NodeOf(k, n).density

\* Before its last read GetEdgeDensity is at the end of the opposing edge.
OnCourse(k) ==
  call.pc = "density" => \E o \in GraphIds : /\ Opposite(k, call.edge, o)
                                             /\ call.id = EdgeOf(k, o).endnode

Lookups == {"GetOpposingEdgeId", "GetOpposingEdge", "GetEdgeDensity"}

OnLookup == /\ call.pc = "endnode" => call.op \in Lookups
            /\ call.pc = "density" => call.op = "GetEdgeDensity"

EdgeStaysCached == call.pc = "density" => Tile_Base(call.edge) \in DOMAIN cache_

AInv == /\ EdgeStaysCached /\ OnLookup
        /\ \A k \in Builds : SingleBuild(k) => Answer(k) /\ OnCourse(k)

\* A load that leaves the cache within build k found it there.
LEMMA SingleBuildBefore ==
  ASSUME NEW k, SingleBuild(k)',
         \A f \in DOMAIN cache_ : f \in DOMAIN cache_' /\ cache_'[f] = cache_[f]
  PROVE  SingleBuild(k)
  BY DEF SingleBuild

\* opp_index leads to an opposite edge when the end node is in the build.
LEMMA OppositeOf ==
  ASSUME NEW k \in Builds, NEW e \in GraphIds, IsEdge(k, e),
         IsNode(k, EdgeOf(k, e).endnode)
  PROVE  LET edge == EdgeOf(k, e)
             opp  == WithId(edge.endnode,
                            NodeOf(k, edge.endnode).edge_index + edge.opp_index)
         IN  opp \in GraphIds /\ Opposite(k, e, opp)
<1> DEFINE edge == EdgeOf(k, e)
           at   == NodeOf(k, edge.endnode).edge_index + edge.opp_index
<1>1. at < IdFieldSize /\ Opposite(k, e, WithId(edge.endnode, at))
  BY BuildsAreConsistent
<1>2. IsTile(Build[k][Tile_Base(e)]) /\ IsTile(Build[k][Tile_Base(edge.endnode)])
  BY ConstantTypes DEF IsEdge, IsNode
<1>3. edge \in Edge /\ edge.endnode \in GraphIds
  BY <1>2, IdFieldIsNat, EdgeInTile DEF IsEdge, EdgeOf
<1>4. NodeOf(k, edge.endnode) \in Node
  BY <1>2, <1>3, IdFieldIsNat, NodeInTile DEF IsNode, NodeOf
<1>5. at \in 0 .. IdFieldSize - 1
  <2>1. at \in Nat /\ IdFieldSize \in Nat
    BY <1>3, <1>4, GraphIdLimits DEF Node, Edge, IdFieldSize
  <2> QED BY <1>1, <2>1
<1>6. WithId(edge.endnode, at) \in GraphIds
  BY <1>3, <1>5 DEF WithId, GraphIds
<1> QED BY <1>1, <1>6

\* The end of a call, in the tile of build k that holds the end node.
LEMMA AtEndNodeAnswers ==
  ASSUME NEW k \in Builds, NEW e \in GraphIds, IsEdge(k, e),
         NEW op \in Lookups,
         Tile_Base(EdgeOf(k, e).endnode) \in Files,
         Build[k][Tile_Base(EdgeOf(k, e).endnode)] # NoFile,
         AtEndNode(op, e, EdgeOf(k, e), Build[k][Tile_Base(EdgeOf(k, e).endnode)],
                   EdgeOf(k, e).endnode)
  PROVE  \/ Return(op, e, Thrown) /\ ~IsNode(k, EdgeOf(k, e).endnode)
         \/ /\ op # "GetEdgeDensity"
            /\ \E o \in GraphIds : Return(op, e, o) /\ Opposite(k, e, o)
         \/ /\ op = "GetEdgeDensity"
            /\ UNCHANGED last
            /\ \E o \in GraphIds :
                 /\ Opposite(k, e, o)
                 /\ call' = [pc |-> "density", op |-> op, edge |-> e,
                             id |-> EdgeOf(k, o).endnode]
<1> DEFINE edge == EdgeOf(k, e)
           tile == Build[k][Tile_Base(edge.endnode)]
           opp  == WithId(edge.endnode,
                          NodeOf(k, edge.endnode).edge_index + edge.opp_index)
<1>1. CASE edge.endnode.id >= tile.nodecount /\ Return(op, e, Thrown)
  <2>1. edge.endnode.id \in Nat /\ tile.nodecount \in Nat
    <3>1. IsTile(Build[k][Tile_Base(e)]) /\ IsTile(tile)
      BY ConstantTypes DEF IsEdge
    <3>2. edge.endnode \in GraphIds
      BY <3>1, IdFieldIsNat, EdgeInTile DEF IsEdge, EdgeOf
    <3> QED BY <3>1, <3>2, IdFieldIsNat DEF IsTile
  <2>2. ~(edge.endnode.id < tile.nodecount)
    BY <1>1, <2>1
  <2> QED BY <1>1, <2>2 DEF IsNode
<1>2. CASE /\ edge.endnode.id < tile.nodecount
           /\ AfterOpposingEdgeId(op, e, tile, opp)
  <2>1. IsNode(k, edge.endnode)
    BY <1>2 DEF IsNode
  <2>2. opp \in GraphIds /\ Opposite(k, e, opp)
    BY <2>1, OppositeOf
  <2>3. /\ Tile_Base(opp) = Tile_Base(edge.endnode)
        /\ IsEdge(k, opp)
    BY <2>2 DEF Opposite, WithId, Tile_Base
  <2>4. opp.id < tile.directededgecount /\ tile.edges[opp.id] = EdgeOf(k, opp)
    BY <2>3 DEF IsEdge, EdgeOf
  <2>5. ~(opp.id >= tile.directededgecount)
    <3>1. opp.id \in Nat /\ tile.directededgecount \in Nat
      BY <2>2, IdFieldIsNat, ConstantTypes DEF IsTile
    <3> QED BY <2>4, <3>1
  <2> HIDE DEF opp, tile
  <2> QED BY <1>2, <2>2, <2>4, <2>5 DEF AfterOpposingEdgeId, Lookups
<1> QED BY <1>1, <1>2 DEF AtEndNode, NodeOf

\* The three outcomes above keep the invariant for build k.
LEMMA OutcomeAnswers ==
  ASSUME NEW k \in Builds, Answer(k), NEW e \in GraphIds, IsEdge(k, e),
         NEW op \in Lookups,
         \/ Return(op, e, Thrown) /\ ~IsNode(k, EdgeOf(k, e).endnode)
         \/ /\ op # "GetEdgeDensity"
            /\ \E o \in GraphIds : Return(op, e, o) /\ Opposite(k, e, o)
         \/ /\ op = "GetEdgeDensity"
            /\ UNCHANGED last
            /\ \E o \in GraphIds :
                 /\ Opposite(k, e, o)
                 /\ call' = [pc |-> "density", op |-> op, edge |-> e,
                             id |-> EdgeOf(k, o).endnode]
  PROVE  Answer(k)' /\ OnCourse(k)'
<1>1. CASE Return(op, e, Thrown) /\ ~IsNode(k, EdgeOf(k, e).endnode)
  BY <1>1 DEF Return, Idle, Result, Answer, OnCourse, Lookups
<1>2. ASSUME op # "GetEdgeDensity", NEW o \in GraphIds, Return(op, e, o), Opposite(k, e, o)
      PROVE  Answer(k)' /\ OnCourse(k)'
  <2>1. o # Thrown
    BY ConstantTypes
  <2> QED BY <1>2, <2>1 DEF Return, Idle, Result, Answer, OnCourse, Lookups
<1>3. ASSUME UNCHANGED last, NEW o \in GraphIds, Opposite(k, e, o),
             call' = [pc |-> "density", op |-> op, edge |-> e,
                      id |-> EdgeOf(k, o).endnode]
      PROVE  Answer(k)' /\ OnCourse(k)'
  BY <1>3 DEF Answer, OnCourse, Lookups
<1> QED BY <1>1, <1>2, <1>3

\* A step that ends a call otherwise.
LEMMA OtherResultAnswers ==
  ASSUME NEW k, NEW op, NEW arg, NEW val,
         Return(op, arg, val) \/ (Segfault(op, arg) /\ val = Nullptr),
         op \notin Lookups \/ val = Nullptr \/ (val = Invalid /\ op = "GetOpposingEdgeId")
  PROVE  Answer(k)' /\ OnCourse(k)'
<1>1. Invalid # Thrown /\ Nullptr # Thrown
  BY ConstantTypes, InvalidIsAnId
<1> QED BY <1>1 DEF Return, Segfault, Idle, Crashed, Result, Answer, OnCourse, Lookups

LEMMA FindEdgeAnswers ==
  ASSUME TypeOK, NEW k \in Builds, SingleBuild(k)', Answer(k),
         NEW op \in Lookups, NEW e \in GraphIds, FindEdge(op, e)
  PROVE  Answer(k)' /\ OnCourse(k)'
<1>1. Load(e) /\ call = Idle
  BY DEF FindEdge
<1>2. HasTile(e) => /\ Tile_Base(e) \in Files
                    /\ TileOf(e) = Build[k][Tile_Base(e)]
                    /\ TileOf(e) # NoFile
                    /\ IsTile(TileOf(e))
  BY <1>1, LoadStep, ConstantTypes DEF SingleBuild
<1>3. CASE LoadThrows(e) /\ Return(op, e, Thrown)
  BY <1>3 DEF LoadThrows, IsEdge, Return, Idle, Result, Answer, OnCourse
<1>4. CASE Segfault(op, e)
  BY <1>4, OtherResultAnswers
<1>5. CASE /\ HasTile(e) /\ e.id >= TileOf(e).directededgecount
           /\ Return(op, e, Thrown)
  <2>1. ~(e.id < TileOf(e).directededgecount)
    BY <1>2, <1>5, IdFieldIsNat DEF IsTile
  <2> QED BY <1>2, <1>5, <2>1 DEF IsEdge, Return, Idle, Result, Answer, OnCourse
<1>6. CASE /\ call' = [pc |-> "endnode", op |-> op, edge |-> e,
                       id |-> TileOf(e).edges[e.id].endnode]
           /\ UNCHANGED last
  BY <1>6 DEF Answer, OnCourse
<1>7. CASE /\ HasTile(e) /\ e.id < TileOf(e).directededgecount
           /\ ~TileOf(e).edges[e.id].leaves_tile
           /\ AtEndNode(op, e, TileOf(e).edges[e.id], TileOf(e),
                        TileOf(e).edges[e.id].endnode)
  <2>1. IsEdge(k, e) /\ EdgeOf(k, e) = TileOf(e).edges[e.id]
    BY <1>2, <1>7 DEF IsEdge, EdgeOf
  <2>2. EdgeOf(k, e).leaves_tile <=> Tile_Base(EdgeOf(k, e).endnode) # Tile_Base(e)
    BY <2>1, BuildsAreConsistent
  <2>3. Tile_Base(EdgeOf(k, e).endnode) = Tile_Base(e)
    BY <1>7, <2>1, <2>2
  <2> QED BY <1>2, <1>7, <2>1, <2>3, AtEndNodeAnswers, OutcomeAnswers
<1> QED BY <1>3, <1>4, <1>5, <1>6, <1>7 DEF FindEdge

LEMMA FindEndNodeAnswers ==
  ASSUME TypeOK, HeldPointersLive, OnLookup,
         NEW k \in Builds, SingleBuild(k)', SingleBuild(k), Answer(k), FindEndNode
  PROVE  Answer(k)' /\ OnCourse(k)'
<1> DEFINE e == call.edge
<1>1. /\ Load(call.id) /\ call.id \in GraphIds /\ e \in GraphIds
      /\ call.op \in Lookups
  BY DEF FindEndNode, TypeOK, CallType, OnLookup
<1>2. IsEdge(k, e) /\ HeldEdge = EdgeOf(k, e) /\ EdgeOf(k, e).endnode = call.id
  <2>1. /\ Tile_Base(e) \in DOMAIN cache_ /\ Tile_Base(e) \in Files
        /\ cache_[Tile_Base(e)] = Build[k][Tile_Base(e)]
        /\ cache_[Tile_Base(e)] # NoFile
    BY ConstantTypes
    DEF FindEndNode, HeldPointersLive, TypeOK, CacheType, SingleBuild
  <2> QED BY <2>1 DEF FindEndNode, HeldPointersLive, IsEdge, EdgeOf, HeldEdge
<1>3. HasTile(call.id) => /\ Tile_Base(call.id) \in Files
                          /\ TileOf(call.id) = Build[k][Tile_Base(call.id)]
                          /\ TileOf(call.id) # NoFile
  BY <1>1, LoadStep, ConstantTypes DEF SingleBuild
<1>4. CASE LoadThrows(call.id) /\ Return(call.op, e, Thrown)
  BY <1>2, <1>4 DEF LoadThrows, IsNode, Return, Idle, Result, Answer, OnCourse
<1>5. CASE WithoutOpposingEdgeId(call.op, e) \/ Segfault(call.op, e)
  BY <1>5, OtherResultAnswers DEF WithoutOpposingEdgeId
<1>6. CASE HasTile(call.id) /\ AtEndNode(call.op, e, HeldEdge, TileOf(call.id), call.id)
  BY <1>1, <1>2, <1>3, <1>6, AtEndNodeAnswers, OutcomeAnswers
<1> QED BY <1>4, <1>5, <1>6 DEF FindEndNode

LEMMA FindDensityAnswers ==
  ASSUME TypeOK, EdgeStaysCached, OnLookup,
         NEW k \in Builds, SingleBuild(k)', OnCourse(k), FindDensity
  PROVE  Answer(k)' /\ OnCourse(k)'
<1> DEFINE e == call.edge
           n == call.id
<1>1. /\ Load(n) /\ n \in GraphIds /\ e \in GraphIds
      /\ call.op = "GetEdgeDensity"
  BY DEF FindDensity, TypeOK, CallType, OnLookup
<1>2. Begins(k, e, n)
  BY DEF FindDensity, OnCourse, Opposite
<1>3. Cached(n) /\ HasTile(n)
  BY <1>2 DEF FindDensity, EdgeStaysCached, Begins, Cached, HasTile
<1>4. TileOf(n) = Build[k][Tile_Base(n)] /\ IsTile(TileOf(n))
  BY <1>1, <1>3, LoadStep DEF SingleBuild
<1>5. n.id < TileOf(n).nodecount /\ TileOf(n).nodes[n.id] = NodeOf(k, n)
  BY <1>2, <1>4 DEF Begins, IsNode, NodeOf
<1>6. ~(n.id >= TileOf(n).nodecount) /\ TileOf(n).nodes[n.id].density \in Nat
  BY <1>1, <1>4, <1>5, IdFieldIsNat, NodeInTile DEF IsTile, Node
<1>7. Return(call.op, e, NodeOf(k, n).density)
  BY <1>3, <1>5, <1>6 DEF FindDensity, LoadThrows, Overruns
<1>8. NodeOf(k, n).density # Thrown
  BY <1>5, <1>6, ConstantTypes
<1> HIDE DEF e, n
<1> QED BY <1>1, <1>2, <1>7, <1>8
        DEF Return, Idle, Result, Answer, OnCourse, Lookups

\* The parts of AInv that do not depend on a build.
LEMMA CourseStep ==
  ASSUME IInv, EdgeStaysCached, OnLookup, [Next]_vars
  PROVE  EdgeStaysCached' /\ OnLookup'
<1>1. ASSUME NEW op, NEW arg, NEW val, Return(op, arg, val) \/ Segfault(op, arg)
      PROVE  EdgeStaysCached' /\ OnLookup'
  BY <1>1 DEF Return, Segfault, Idle, Crashed, EdgeStaysCached, OnLookup
<1>2. ASSUME NEW op \in Lookups, NEW e, NEW edge, NEW tile, NEW id,
             AtEndNode(op, e, edge, tile, id), Tile_Base(e) \in DOMAIN cache_'
      PROVE  EdgeStaysCached' /\ OnLookup'
  <2>1. PICK val : \/ Return(op, e, val)
                   \/ /\ op = "GetEdgeDensity"
                      /\ call' = [pc |-> "density", op |-> op, edge |-> e, id |-> val]
    <3>1. CASE Return(op, e, Thrown)
      BY <3>1
    <3>2. CASE AfterOpposingEdgeId(op, e, tile,
                 WithId(id, tile.nodes[id.id].edge_index + edge.opp_index))
      BY <3>2 DEF AfterOpposingEdgeId
    <3> QED BY <1>2, <3>1, <3>2 DEF AtEndNode
  <2> QED BY <1>1, <1>2, <2>1 DEF EdgeStaysCached, OnLookup
<1>3. ASSUME NEW e \in QueryIds, NEW op \in Lookups, FindEdge(op, e)
      PROVE  EdgeStaysCached' /\ OnLookup'
  <2>1. HasTile(e) => Tile_Base(e) \in DOMAIN cache_'
    BY <1>3, LoadStep, ConstantTypes DEF FindEdge, IInv
  <2>2. CASE call' = [pc |-> "endnode", op |-> op, edge |-> e,
                      id |-> TileOf(e).edges[e.id].endnode]
    BY <2>2 DEF EdgeStaysCached, OnLookup
  <2>3. CASE HasTile(e) /\ AtEndNode(op, e, TileOf(e).edges[e.id], TileOf(e),
                                     TileOf(e).edges[e.id].endnode)
    BY <1>2, <2>1, <2>3
  <2> QED BY <1>1, <1>3, <2>2, <2>3 DEF FindEdge
<1>4. CASE FindEndNode
  <2>1. Tile_Base(call.edge) \in DOMAIN cache_' /\ call.op \in Lookups
    BY <1>4, LoadStep
    DEF FindEndNode, IInv, TypeOK, CallType, HeldPointersLive, OnLookup
  <2>2. CASE WithoutOpposingEdgeId(call.op, call.edge)
    BY <1>1, <2>2 DEF WithoutOpposingEdgeId
  <2>3. CASE AtEndNode(call.op, call.edge, HeldEdge, TileOf(call.id), call.id)
    BY <1>2, <2>1, <2>3
  <2> QED BY <1>1, <1>4, <2>2, <2>3 DEF FindEndNode
<1>5. CASE FindDensity
  BY <1>1, <1>5 DEF FindDensity
<1>6. ASSUME NEW id \in QueryIds, GetGraphTile(id) \/ DoesTileExist(id)
      PROVE  EdgeStaysCached' /\ OnLookup'
  <2>1. PICK op, val : Return(op, id, val) \/ Segfault(op, id)
    BY <1>6 DEF GetGraphTile, DoesTileExist
  <2> QED BY <1>1, <2>1
<1>7. CASE Clear \/ OverCommitted
  <2>1. PICK op, val : Return(op, Invalid, val)
    BY <1>7 DEF Clear, OverCommitted
  <2> QED BY <1>1, <2>1
<1>8. CASE Restart
  BY <1>8 DEF Restart, Idle, EdgeStaysCached, OnLookup
<1>9. CASE UNCHANGED <<cache_, call>>
  BY <1>9 DEF EdgeStaysCached, OnLookup
<1> QED BY <1>3, <1>4, <1>5, <1>6, <1>7, <1>8, <1>9
        DEF Next, vars, Publish, GetOpposingEdgeId, GetOpposingEdge, GetEdgeDensity,
            Lookups

\* The answers with respect to one build.
LEMMA AnswerStep ==
  ASSUME IInv, AInv, [Next]_vars, NEW k \in Builds, SingleBuild(k)'
  PROVE  Answer(k)' /\ OnCourse(k)'
<1>1. TypeOK /\ HeldPointersLive /\ EdgeStaysCached /\ OnLookup
  BY DEF IInv, AInv
<1>2. ASSUME NEW id \in GraphIds, Load(id)
      PROVE  SingleBuild(k) /\ Answer(k) /\ OnCourse(k)
  BY <1>1, <1>2, LoadStep, SingleBuildBefore DEF AInv
<1>3. ASSUME NEW id \in QueryIds, GetGraphTile(id) \/ DoesTileExist(id)
      PROVE  Answer(k)' /\ OnCourse(k)'
  <2>1. PICK op, val : /\ Return(op, id, val) \/ (Segfault(op, id) /\ val = Nullptr)
                       /\ op \in {"GetGraphTile", "DoesTileExist"}
    BY <1>3 DEF GetGraphTile, DoesTileExist
  <2> QED BY <2>1, OtherResultAnswers DEF Lookups
<1>4. CASE Clear \/ OverCommitted
  <2>1. PICK op, val : Return(op, Invalid, val) /\ op \in {"Clear", "OverCommitted"}
    BY <1>4 DEF Clear, OverCommitted
  <2> QED BY <2>1, OtherResultAnswers DEF Lookups
<1>5. ASSUME NEW e \in QueryIds, NEW op \in Lookups, FindEdge(op, e)
      PROVE  Answer(k)' /\ OnCourse(k)'
  <2>1. e \in GraphIds /\ Load(e)
    BY <1>5, ConstantTypes DEF FindEdge
  <2> QED BY <1>1, <1>2, <1>5, <2>1, FindEdgeAnswers
<1>6. CASE FindEndNode
  <2>1. call.id \in GraphIds /\ Load(call.id)
    BY <1>1, <1>6 DEF FindEndNode, TypeOK, CallType
  <2> QED BY <1>1, <1>2, <1>6, <2>1, FindEndNodeAnswers
<1>7. CASE FindDensity
  <2>1. call.id \in GraphIds /\ Load(call.id)
    BY <1>1, <1>7 DEF FindDensity, TypeOK, CallType
  <2> QED BY <1>1, <1>2, <1>7, <2>1, FindDensityAnswers
<1>8. CASE Restart
  BY <1>8 DEF Restart, Idle, Result, Answer, OnCourse
<1>9. CASE UNCHANGED <<cache_, call, last>>
  <2>1. SingleBuild(k)
    BY <1>9 DEF SingleBuild
  <2> QED BY <1>9, <2>1 DEF AInv, Answer, OnCourse
<1> QED BY <1>3, <1>4, <1>5, <1>6, <1>7, <1>8, <1>9
        DEF Next, vars, Publish, GetOpposingEdgeId, GetOpposingEdge, GetEdgeDensity,
            Lookups

LEMMA AnswersHold == Spec => []AInv
<1>1. Init => AInv
  BY DEF Init, Idle, Result, AInv, EdgeStaysCached, OnLookup, Answer, OnCourse
<1>2. IInv /\ AInv /\ [Next]_vars => AInv'
  BY CourseStep, AnswerStep DEF AInv
<1> QED BY <1>1, <1>2, InvHolds, PTL DEF Spec

(***************************************************************************)
(* The opposing edge found in tiles of one build begins where the edge     *)
(* ends and ends where it begins (graphreader.cc:98-125).                  *)
(***************************************************************************)
THEOREM OpposingEdgeIsOpposite == Spec => []OppositeIsMutual
<1>1. AInv => OppositeIsMutual
  BY DEF AInv, Answer, OppositeIsMutual
<1> QED BY <1>1, AnswersHold, PTL

(***************************************************************************)
(* With tiles of one build the lookups do not run out of a tile's bounds   *)
(* (graphreader.cc:98-135, graphtile.cc:253-283).                          *)
(***************************************************************************)
THEOREM OneBuildDoesNotThrow == Spec => []OnlyMixedBuildsThrow
<1>1. AInv => OnlyMixedBuildsThrow
  BY DEF AInv, Answer, OnlyMixedBuildsThrow
<1> QED BY <1>1, AnswersHold, PTL

(***************************************************************************)
(* With tiles of one build GetEdgeDensity answers the density of the node  *)
(* the edge begins at (graphreader.cc:129-135).                            *)
(***************************************************************************)
THEOREM DensityIsOfBeginNode == Spec => []DensityOfBeginNode
<1>1. AInv => DensityOfBeginNode
  BY DEF AInv, Answer, DensityOfBeginNode
<1> QED BY <1>1, AnswersHold, PTL
=============================================================================
