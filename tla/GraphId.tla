------------------------------- MODULE GraphId -------------------------------
(***************************************************************************)
(* baldr/graphid.{h,cc}: the identifier of a tile, node or edge.  64 bits  *)
(* hold a tile id (24), a hierarchy level (3) and an id within the tile    *)
(* (37); here a record with those three fields.  The limits are constants  *)
(* so that TLC can run with short fields and the proofs with any.          *)
(***************************************************************************)
EXTENDS Naturals

CONSTANTS
  kMaxGraphTileId,     \* 2^24 - 1, also the largest value of the tileid field
  kMaxGraphHierarchy,  \* 7, also the largest value of the level field
  kMaxGraphId,         \* 2^36 - 1; the id field itself has one bit more
  kInvalidIdBits       \* what value = kInvalidId leaves in the id field (31)

ASSUME GraphIdLimits ==
  /\ kMaxGraphTileId \in Nat \ {0}
  /\ kMaxGraphHierarchy \in Nat \ {0}
  /\ kMaxGraphId \in Nat \ {0}
  /\ kInvalidIdBits \in 0 .. kMaxGraphId - 1

\* Number of values of the id field: 2^37.
IdFieldSize == 2 * (kMaxGraphId + 1)

GraphIds == [tileid : 0 .. kMaxGraphTileId,
             level  : 0 .. kMaxGraphHierarchy,
             id     : 0 .. IdFieldSize - 1]

\* The value of a default constructed GraphId, 0xFFFFFFFF.
Invalid == [tileid |-> kMaxGraphTileId,
            level  |-> kMaxGraphHierarchy,
            id     |-> kInvalidIdBits]

Is_Valid(g) == g # Invalid

\* Mutant of Set: a field at its limit is kept.
SetAtMost(tileid, level, id) ==
  [tileid |-> IF tileid <= kMaxGraphTileId THEN tileid ELSE 0,
   level  |-> IF level <= kMaxGraphHierarchy THEN level ELSE 0,
   id     |-> IF id <= kMaxGraphId THEN id ELSE 0]

\* A field at or above its limit is stored as 0.
Set(tileid, level, id) ==
  [tileid |-> IF tileid < kMaxGraphTileId THEN tileid ELSE 0,
   level  |-> IF level < kMaxGraphHierarchy THEN level ELSE 0,
   id     |-> IF id < kMaxGraphId THEN id ELSE 0]

\* The id of the tile that holds g.  It goes through Set, also for Invalid.
Tile_Base(g) == Set(g.tileid, g.level, 0)

\* g with another id in the same tile: an assignment to fields.id.
WithId(g, id) == [tileid |-> g.tileid, level |-> g.level, id |-> id]

\* g + offset goes through Set, g++ counts in the 37 bit field.
Plus(g, offset) == Set(g.tileid, g.level, g.id + offset)
Increment(g)    == WithId(g, (g.id + 1) % IdFieldSize)

\* An id in the ranges Set leaves in an id.
Canonical(g) ==
  /\ g.tileid < kMaxGraphTileId
  /\ g.level < kMaxGraphHierarchy
=============================================================================
