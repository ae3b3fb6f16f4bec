----------------------------- MODULE GraphReader -----------------------------
(***************************************************************************)
(* baldr/graphreader.{h,cc}: the tile cache and the lookups built on it.   *)
(*                                                                         *)
(* One thread uses a reader ("It is NOT thread-safe!", graphreader.h:16),  *)
(* so calls do not overlap; but a call that needs several tiles reads      *)
(* several files, and the tile directory may be rebuilt between two reads. *)
(* Each read of a file is a step, so GetOpposingEdgeId takes one or two    *)
(* steps and GetEdgeDensity two or three.                                  *)
(*                                                                         *)
(* A GraphTile* is the key of the cache entry it points to, a DirectedEdge**)
(* is the id of the edge; reading through a pointer kept across a step     *)
(* reads the cache entry again.                                            *)
(***************************************************************************)
EXTENDS GraphId, FiniteSets

CONSTANTS
  Levels,           \* the levels TileHierarchy was configured with
  Builds,           \* names of the tile sets that get published
  Build,            \* Build[k][f]: tile file f in build k, or NoFile
  QueryIds,         \* the ids callers ask for
  max_cache_size_,
  NoFile, Nullptr, Thrown   \* no file; a null pointer; a C++ exception

\* Every file FileSuffix can name: one per tile of a configured level.
Files == [tileid : 0 .. kMaxGraphTileId - 1, level : Levels, id : {0}]

\* The files of all builds.
Contents == {Build[k][f] : k \in Builds, f \in Files} \ {NoFile}

-----------------------------------------------------------------------------
(* Tile files.  nodes and edges are arrays: functions on 0 .. n-1.         *)

Node == [edge_index : Nat, edge_count : Nat, density : Nat]
Edge == [endnode : GraphIds, leaves_tile : BOOLEAN, opp_index : Nat]
IsTile(c) ==
  /\ c = [size |-> c.size, nodecount |-> c.nodecount, nodes |-> c.nodes,
          directededgecount |-> c.directededgecount, edges |-> c.edges]
  /\ c.size \in Nat
  /\ c.nodecount \in Nat
  /\ c.nodes \in [0 .. c.nodecount - 1 -> Node]
  /\ c.directededgecount \in Nat
  /\ c.edges \in [0 .. c.directededgecount - 1 -> Edge]

ASSUME ConstantTypes ==
  /\ Levels \subseteq 0 .. kMaxGraphHierarchy - 1
  /\ Levels # {}
  /\ \A k \in Builds :
       /\ Build[k] = [f \in Files |-> Build[k][f]]
       /\ \A f \in Files : Build[k][f] = NoFile \/ IsTile(Build[k][f])
  /\ QueryIds \subseteq GraphIds
  /\ max_cache_size_ \in Nat
  /\ NoFile \notin Contents
  /\ Nullptr \notin Contents \cup GraphIds
  /\ Thrown \notin GraphIds \cup Nat
  /\ Nullptr # Thrown

(***************************************************************************)
(* What the graph builder guarantees of one complete build.  Edge e begins *)
(* at node n when it is among n's outbound edges; o is an opposite of e    *)
(* when each begins where the other ends.                                  *)
(***************************************************************************)
IsNode(k, n) ==
  /\ Tile_Base(n) \in Files
  /\ Build[k][Tile_Base(n)] # NoFile
  /\ n.id < Build[k][Tile_Base(n)].nodecount
NodeOf(k, n) == Build[k][Tile_Base(n)].nodes[n.id]

IsEdge(k, e) ==
  /\ Tile_Base(e) \in Files
  /\ Build[k][Tile_Base(e)] # NoFile
  /\ e.id < Build[k][Tile_Base(e)].directededgecount
EdgeOf(k, e) == Build[k][Tile_Base(e)].edges[e.id]

Begins(k, e, n) ==
  /\ IsNode(k, n)
  /\ Tile_Base(e) = Tile_Base(n)
  /\ e.id >= NodeOf(k, n).edge_index
  /\ e.id < NodeOf(k, n).edge_index + NodeOf(k, n).edge_count

Opposite(k, e, o) ==
  /\ IsEdge(k, e) /\ IsEdge(k, o)
  /\ Begins(k, o, EdgeOf(k, e).endnode)
  /\ Begins(k, e, EdgeOf(k, o).endnode)

\* directededge.h: opp_index is the "Opposing directed edge index at the end
\* node", leaves_tile "True if the end node of this directed edge is in a
\* different tile".  A build may lack the tile of the end node.
ASSUME BuildsAreConsistent ==
  \A k \in Builds : \A e \in GraphIds : IsEdge(k, e) =>
    LET edge == EdgeOf(k, e) IN
    /\ Canonical(edge.endnode)
    /\ edge.leaves_tile <=> Tile_Base(edge.endnode) # Tile_Base(e)
    /\ IsNode(k, edge.endnode) =>
         LET at == NodeOf(k, edge.endnode).edge_index + edge.opp_index IN
         /\ at < IdFieldSize
         /\ Opposite(k, e, WithId(edge.endnode, at))

-----------------------------------------------------------------------------
VARIABLES
  disk,         \* disk[f]: the contents of file f now, or NoFile
  cache_,       \* the cached GraphTiles by key
  cache_size_,
  call,         \* the call in progress: what it does next, and its locals
  last          \* the last completed call, its argument and its result

vars == <<disk, cache_, cache_size_, call, last>>

\* pc of call: which file read comes next.
Idle    == [pc |-> "idle", op |-> "none", edge |-> Invalid, id |-> Invalid]
Crashed == [pc |-> "crashed", op |-> "none", edge |-> Invalid, id |-> Invalid]
Result(op, arg, val) == [op |-> op, arg |-> arg, val |-> val]

Init ==
  /\ disk \in {Build[k] : k \in Builds}
  /\ cache_ = [f \in {} |-> NoFile]
  /\ cache_size_ = 0
  /\ call = Idle
  /\ last = Result("none", Invalid, Nullptr)

\* The call is over.
Return(op, arg, val) ==
  /\ call' = Idle
  /\ last' = Result(op, arg, val)

\* The process died reading where there is nothing.
Segfault(op, arg) ==
  /\ call' = Crashed
  /\ last' = Result(op, arg, Nullptr)

-----------------------------------------------------------------------------
(* GetGraphTile(id), the part of every lookup that touches the cache.      *)

Cached(id) == Tile_Base(id) \in DOMAIN cache_

\* FileSuffix throws for a level that is not configured.
LoadThrows(id) == /\ ~Cached(id)
                  /\ Is_Valid(id)
                  /\ Tile_Base(id) \notin Files

\* The GraphTile constructor found a file, and it was not empty.
Loadable(id) == /\ Is_Valid(id)
                /\ Tile_Base(id) \in Files
                /\ disk[Tile_Base(id)] # NoFile
                /\ disk[Tile_Base(id)].size # 0

\* The file is empty: the header is read past the end of the buffer, which is
\* undefined. The process dies, or the tile of size 0 is not taken.
Overruns(id) == /\ ~Cached(id)
                /\ Is_Valid(id)
                /\ Tile_Base(id) \in Files
                /\ disk[Tile_Base(id)] # NoFile
                /\ disk[Tile_Base(id)].size = 0

HasTile(id) == Cached(id) \/ Loadable(id)

\* The tile GetGraphTile(id) points to when it does not return nullptr.
TileOf(id) == IF Cached(id) THEN cache_[Tile_Base(id)] ELSE disk[Tile_Base(id)]

\* Mutants of Load: a hit is counted too; a hit is read again; the TODO of
\* line 52, clearing when overcommitted.
LoadCountsHits(id) ==
  /\ cache_' = IF ~Cached(id) /\ Loadable(id)
                 THEN [f \in DOMAIN cache_ \cup {Tile_Base(id)} |->
                         IF f = Tile_Base(id) THEN disk[f] ELSE cache_[f]]
                 ELSE cache_
  /\ cache_size_' = cache_size_ + IF HasTile(id) THEN TileOf(id).size ELSE 0
LoadAlways(id) ==
  IF Loadable(id)
    THEN /\ cache_' = [f \in DOMAIN cache_ \cup {Tile_Base(id)} |->
                         IF f = Tile_Base(id) THEN disk[f] ELSE cache_[f]]
         /\ UNCHANGED cache_size_
    ELSE UNCHANGED <<cache_, cache_size_>>
LoadThenTrim(id) ==
  IF ~Cached(id) /\ Loadable(id)
    THEN IF cache_size_ + disk[Tile_Base(id)].size > max_cache_size_
           THEN /\ cache_' = [f \in {} |-> NoFile]
                /\ cache_size_' = 0
           ELSE /\ cache_' = [f \in DOMAIN cache_ \cup {Tile_Base(id)} |->
                                IF f = Tile_Base(id) THEN disk[f] ELSE cache_[f]]
                /\ cache_size_' = cache_size_ + disk[Tile_Base(id)].size
    ELSE UNCHANGED <<cache_, cache_size_>>

Load(id) ==
  IF ~Cached(id) /\ Loadable(id)
    THEN /\ cache_' = [f \in DOMAIN cache_ \cup {Tile_Base(id)} |->
                         IF f = Tile_Base(id) THEN disk[f] ELSE cache_[f]]
         /\ cache_size_' = cache_size_ + disk[Tile_Base(id)].size
    ELSE UNCHANGED <<cache_, cache_size_>>

GetGraphTile(id) ==
  /\ call = Idle
  /\ Load(id)
  /\ \/ Return("GetGraphTile", id, IF LoadThrows(id) THEN Thrown
                                   ELSE IF HasTile(id) THEN Tile_Base(id)
                                   ELSE Nullptr)
     \/ Overruns(id) /\ Segfault("GetGraphTile", id)
  /\ UNCHANGED disk

\* Asks the file system, not the cache.
DoesTileExist(id) ==
  /\ call = Idle
  /\ Return("DoesTileExist", id,
            IF Tile_Base(id) \notin Files THEN Thrown
            ELSE disk[Tile_Base(id)] # NoFile)
  /\ UNCHANGED <<disk, cache_, cache_size_>>

Clear ==
  /\ call = Idle
  /\ cache_size_' = 0
  /\ cache_' = [f \in {} |-> NoFile]
  /\ Return("Clear", Invalid, Nullptr)
  /\ UNCHANGED disk

\* It only tells: the cache is never emptied but by Clear.
OverCommitted ==
  /\ call = Idle
  /\ Return("OverCommitted", Invalid, max_cache_size_ < cache_size_)
  /\ UNCHANGED <<disk, cache_, cache_size_>>

-----------------------------------------------------------------------------
(* GetOpposingEdgeId, GetOpposingEdge and GetEdgeDensity.                  *)

\* What becomes of the id of the opposing edge; tile holds that edge.
AfterOpposingEdgeId(op, edgeid, tile, opp) ==
  \/ /\ op = "GetOpposingEdgeId"
     /\ Return(op, edgeid, opp)
  \/ /\ op # "GetOpposingEdgeId"
     /\ opp.id >= tile.directededgecount
     /\ Return(op, edgeid, Thrown)
  \/ /\ op = "GetOpposingEdge"
     /\ opp.id < tile.directededgecount
     /\ Return(op, edgeid, opp)
  \/ /\ op = "GetEdgeDensity"
     /\ opp.id < tile.directededgecount
     /\ call' = [pc |-> "density", op |-> op, edge |-> edgeid,
                 id |-> tile.edges[opp.id].endnode]
     /\ UNCHANGED last

\* There is no tile at the end node.
WithoutOpposingEdgeId(op, edgeid) ==
  \/ op = "GetOpposingEdgeId" /\ Return(op, edgeid, Invalid)
  \/ op = "GetOpposingEdge" /\ Return(op, edgeid, Nullptr)
  \/ op = "GetEdgeDensity" /\ Segfault(op, edgeid)

\* Mutants of AtEndNode: the index of the first edge is forgotten; the
\* density is taken at the end node.
AtEndNodeNoBase(op, edgeid, edge, tile, id) ==
  \/ /\ id.id >= tile.nodecount
     /\ Return(op, edgeid, Thrown)
  \/ /\ id.id < tile.nodecount
     /\ AfterOpposingEdgeId(op, edgeid, tile, WithId(id, edge.opp_index))
AtEndNodeDensity(op, edgeid, edge, tile, id) ==
  \/ /\ id.id >= tile.nodecount
     /\ Return(op, edgeid, Thrown)
  \/ /\ id.id < tile.nodecount
     /\ call' = [pc |-> "density", op |-> op, edge |-> edgeid, id |-> id]
     /\ UNCHANGED last

\* tile->node(id)->edge_index() + directededge->opp_index()
AtEndNode(op, edgeid, edge, tile, id) ==
  \/ /\ id.id >= tile.nodecount
     /\ Return(op, edgeid, Thrown)
  \/ /\ id.id < tile.nodecount
     /\ AfterOpposingEdgeId(op, edgeid, tile,
          WithId(id, tile.nodes[id.id].edge_index + edge.opp_index))

\* The first tile is used without a test for nullptr, so that an empty file is
\* as bad as none.
FindEdge(op, edgeid) ==
  /\ call = Idle
  /\ Load(edgeid)
  /\ UNCHANGED disk
  /\ \/ LoadThrows(edgeid) /\ Return(op, edgeid, Thrown)
     \/ ~LoadThrows(edgeid) /\ ~HasTile(edgeid) /\ Segfault(op, edgeid)
     \/ /\ HasTile(edgeid)
        /\ edgeid.id >= TileOf(edgeid).directededgecount
        /\ Return(op, edgeid, Thrown)
     \/ /\ HasTile(edgeid)
        /\ edgeid.id < TileOf(edgeid).directededgecount
        /\ LET edge == TileOf(edgeid).edges[edgeid.id] IN
           \/ /\ edge.leaves_tile
              /\ call' = [pc |-> "endnode", op |-> op, edge |-> edgeid,
                          id |-> edge.endnode]
              /\ UNCHANGED last
           \/ /\ ~edge.leaves_tile
              /\ AtEndNode(op, edgeid, edge, TileOf(edgeid), edge.endnode)

\* The edge is read through the pointer taken before this second load.
HeldEdge == cache_[Tile_Base(call.edge)].edges[call.edge.id]

\* Mutant: the tile of the end node is loaded and the first one used.
FindEndNodeInFirstTile ==
  /\ call.pc = "endnode"
  /\ Load(call.id)
  /\ UNCHANGED disk
  /\ \/ LoadThrows(call.id) /\ Return(call.op, call.edge, Thrown)
     \/ Overruns(call.id) /\ Segfault(call.op, call.edge)
     \/ /\ ~LoadThrows(call.id) /\ ~HasTile(call.id)
        /\ WithoutOpposingEdgeId(call.op, call.edge)
     \/ /\ HasTile(call.id)
        /\ AtEndNode(call.op, call.edge, HeldEdge, TileOf(call.edge), call.id)

FindEndNode ==
  /\ call.pc = "endnode"
  /\ Load(call.id)
  /\ UNCHANGED disk
  /\ \/ LoadThrows(call.id) /\ Return(call.op, call.edge, Thrown)
     \/ Overruns(call.id) /\ Segfault(call.op, call.edge)
     \/ /\ ~LoadThrows(call.id) /\ ~HasTile(call.id)
        /\ WithoutOpposingEdgeId(call.op, call.edge)
     \/ /\ HasTile(call.id)
        /\ AtEndNode(call.op, call.edge, HeldEdge, TileOf(call.id), call.id)

FindDensity ==
  /\ call.pc = "density"
  /\ Load(call.id)
  /\ UNCHANGED disk
  /\ \/ LoadThrows(call.id) /\ Return(call.op, call.edge, Thrown)
     \/ Overruns(call.id) /\ Segfault(call.op, call.edge)
     \/ /\ ~LoadThrows(call.id) /\ ~HasTile(call.id)
        /\ Return(call.op, call.edge, 0)
     \/ /\ HasTile(call.id) /\ call.id.id >= TileOf(call.id).nodecount
        /\ Return(call.op, call.edge, Thrown)
     \/ /\ HasTile(call.id) /\ call.id.id < TileOf(call.id).nodecount
        /\ Return(call.op, call.edge, TileOf(call.id).nodes[call.id.id].density)

GetOpposingEdgeId(edgeid) == FindEdge("GetOpposingEdgeId", edgeid)
GetOpposingEdge(edgeid)   == FindEdge("GetOpposingEdge", edgeid)
GetEdgeDensity(edgeid)    == FindEdge("GetEdgeDensity", edgeid)

-----------------------------------------------------------------------------
(* The environment: somebody copies tiles of some build into tile_dir, one *)
(* file at a time, at any moment; a crashed process is started again.      *)

Publish(k, f) ==
  /\ disk' = [disk EXCEPT ![f] = Build[k][f]]
  /\ UNCHANGED <<cache_, cache_size_, call, last>>

Restart ==
  /\ call.pc = "crashed"
  /\ cache_' = [f \in {} |-> NoFile]
  /\ cache_size_' = 0
  /\ call' = Idle
  /\ last' = Result("none", Invalid, Nullptr)
  /\ UNCHANGED disk

Next ==
  \/ \E id \in QueryIds :
       \/ GetGraphTile(id) \/ DoesTileExist(id)
       \/ GetOpposingEdgeId(id) \/ GetOpposingEdge(id) \/ GetEdgeDensity(id)
  \/ FindEndNode \/ FindDensity
  \/ Clear \/ OverCommitted
  \/ \E k \in Builds, f \in Files : Publish(k, f)
  \/ Restart

Spec == Init /\ [][Next]_vars
-----------------------------------------------------------------------------
DiskType  == disk \in [Files -> Contents \cup {NoFile}]
CacheType == /\ DOMAIN cache_ \subseteq Files
             /\ cache_ \in [DOMAIN cache_ -> Contents]
             /\ cache_size_ \in Nat
CallType ==
  /\ call.pc \in {"idle", "endnode", "density", "crashed"}
  /\ call.op \in {"none", "GetOpposingEdgeId", "GetOpposingEdge", "GetEdgeDensity"}
  /\ call.edge \in GraphIds /\ call.id \in GraphIds
LastType == last.arg \in GraphIds
TypeOK == DiskType /\ CacheType /\ CallType /\ LastType

(***************************************************************************)
(* The pointers that a call keeps while it reads another file stay good:   *)
(* the edge and the tile it was found in are still in the cache when the   *)
(* call goes on (graphreader.cc:104-111 uses directededge after the second *)
(* GetGraphTile).                                                          *)
(***************************************************************************)
HeldPointersLive ==
  call.pc = "endnode" =>
    /\ Tile_Base(call.edge) \in DOMAIN cache_
    /\ call.edge.id < cache_[Tile_Base(call.edge)].directededgecount
    /\ cache_[Tile_Base(call.edge)].edges[call.edge.id].endnode = call.id

(***************************************************************************)
(* A tile handed out stays where it is, with the contents it had, until    *)
(* the whole cache goes: callers keep GraphTile* and DirectedEdge* across  *)
(* calls (graphreader.cc:57, 67).                                          *)
(***************************************************************************)
PointersStable ==
  [][ \/ \A f \in DOMAIN cache_ : f \in DOMAIN cache_' /\ cache_'[f] = cache_[f]
      \/ cache_' = [f \in {} |-> NoFile] ]_vars

(***************************************************************************)
(* Only files with contents are cached, and cache_size_ covers each: an    *)
(* overcommitted cache is never reported as empty, an empty one never as   *)
(* overcommitted (graphreader.cc:62-66, 86-87).                            *)
(***************************************************************************)
CacheSizeCovers ==
  /\ \A f \in DOMAIN cache_ : cache_[f].size # 0 /\ cache_[f].size <= cache_size_
  /\ DOMAIN cache_ = {} => cache_size_ = 0

(***************************************************************************)
(* cache_size_ is the number of the bytes of all cached tiles: nothing is  *)
(* counted twice, forgotten, or left over after Clear (graphreader.cc:65,  *)
(* 86).                                                                    *)
(***************************************************************************)
CachedBytes == UNION {{f} \X (1 .. cache_[f].size) : f \in DOMAIN cache_}
CacheSizeExact == cache_size_ = Cardinality(CachedBytes)

\* All cached tiles come from build k.
SingleBuild(k) == \A f \in DOMAIN cache_ : cache_[f] = Build[k][f]

(***************************************************************************)
(* While the cached tiles belong to one build, the edge returned begins    *)
(* where the given edge ends and ends where it begins, whatever happened   *)
(* to the files on disk before and during the call (graphreader.cc:98-125).*)
(***************************************************************************)
OppositeIsMutual ==
  \A k \in Builds :
    /\ SingleBuild(k)
    /\ last.op \in {"GetOpposingEdgeId", "GetOpposingEdge"}
    /\ last.val \notin {Invalid, Nullptr, Thrown}
    => Opposite(k, last.arg, last.val)

(***************************************************************************)
(* While the cached tiles belong to one build, no such call throws for an  *)
(* edge of that build: the end node and the opposing edge are in range.    *)
(***************************************************************************)
OnlyMixedBuildsThrow ==
  \A k \in Builds :
    /\ SingleBuild(k)
    /\ last.op \in {"GetOpposingEdgeId", "GetOpposingEdge", "GetEdgeDensity"}
    /\ last.val = Thrown
    => ~IsEdge(k, last.arg) \/ ~IsNode(k, EdgeOf(k, last.arg).endnode)

(***************************************************************************)
(* While the cached tiles belong to one build, GetEdgeDensity answers the  *)
(* density of the node the edge begins at, found by way of the opposing    *)
(* edge in up to three tiles (graphreader.cc:129-135).                     *)
(***************************************************************************)
DensityOfBeginNode ==
  \A k \in Builds :
    /\ SingleBuild(k)
    /\ last.op = "GetEdgeDensity"
    /\ last.val \notin {Nullptr, Thrown}
    => \E n \in GraphIds : Begins(k, last.arg, n) /\ last.val = NodeOf(k, n).density

(***************************************************************************)
(* The cache is a store of snapshots (see TileStore).                      *)
(***************************************************************************)
Store == INSTANCE TileStore WITH view <- cache_
ImplementsTileStore == Store!Spec

(***************************************************************************)
(* graphreader.h:97-101 has GetOpposingEdge return nullptr when "the       *)
(* adjacent tile is missing" in "a regional extract"; GetEdgeDensity, a    *)
(* caller of it, survives that too.                                        *)
(***************************************************************************)
DensitySurvivesMissingTile ==
  [][ /\ last' # last /\ last'.op = "GetEdgeDensity" /\ call.pc = "endnode"
      /\ ~ (Tile_Base(call.id) \in Files /\ disk[Tile_Base(call.id)] # NoFile)
      => call'.pc # "crashed" ]_vars
=============================================================================
