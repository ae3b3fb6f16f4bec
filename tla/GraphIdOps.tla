----------------------------- MODULE GraphIdOps ------------------------------
(***************************************************************************)
(* A caller walks through edges and nodes with one GraphId variable, by    *)
(* the operations of graphid.h, finds the tile of a position               *)
(* (tilehierarchy.cc), writes the name of a tile's file and takes an id    *)
(* from a name (graphtile.cc, FileSuffix and GetTileId).                   *)
(***************************************************************************)
EXTENDS TilePath

CONSTANTS TileIdArgs, LevelArgs, IdArgs, Offsets   \* arguments of the calls

ASSUME ArgumentTypes ==
  /\ TileIdArgs \subseteq Nat
  /\ LevelArgs \subseteq Nat
  /\ IdArgs \subseteq Nat
  /\ Offsets \subseteq Nat

VARIABLES
  g,      \* the caller's id
  asked,  \* the arguments of the last Set, or <<>> before the first
  file    \* the last file name written and the tile it was written for

vars == <<g, asked, file>>

Init == /\ g = Invalid
        /\ asked = <<>>
        /\ file = [of |-> Invalid, path |-> NoPath]

Construct == \E t \in TileIdArgs, l \in LevelArgs, i \in IdArgs :
  /\ g' = Set(t, l, i)
  /\ asked' = <<t, l, i>>
  /\ UNCHANGED file

Advance == \E offset \in Offsets :
  /\ g' = Plus(g, offset)
  /\ UNCHANGED <<asked, file>>

Next_Id == /\ g' = Increment(g)
           /\ UNCHANGED <<asked, file>>

Base == /\ g' = Tile_Base(g)
        /\ UNCHANGED <<asked, file>>

\* A level that does not exist leaves the id the default, which is invalid.
Locate == \E l \in LevelArgs : \E cell \in Cells(l) \cap (TileIdArgs \cup {Outside}) :
  /\ g' = GetGraphId(cell, l)
  /\ asked' = IF HasLevel(l) THEN <<cell, l, 0>> ELSE <<>>
  /\ UNCHANGED file

\* A file is always that of a tile base, as in DoesTileExist and GraphTile.
WriteName ==
  /\ file' = [of |-> Tile_Base(g), path |-> FileSuffix(Tile_Base(g))]
  /\ UNCHANGED <<g, asked>>

\* GetTileId throws for a name without a group for the tile.
ReadName ==
  /\ IsTilePath(file.path)
  /\ g' = GetTileId(file.path)
  /\ asked' = <<g'.tileid, g'.level, 0>>
  /\ UNCHANGED file

Next == Construct \/ Advance \/ Next_Id \/ Base \/ Locate
        \/ WriteName \/ ReadName

Spec == Init /\ [][Next]_vars
-----------------------------------------------------------------------------
TypeOK == /\ g \in GraphIds
          /\ asked \in {<<>>} \cup (Nat \X Nat \X Nat)
          /\ file \in [of : GraphIds, path : Seq(Nat)]

(***************************************************************************)
(* No chain of Set, operator+, operator++ and Tile_Base turns an id that   *)
(* was ever Set into the pattern that Is_Valid rejects (graphid.cc:53-86), *)
(* although ++ wraps within the field and Set replaces large values.       *)
(***************************************************************************)
BuiltIdsStayValid == asked # <<>> => Is_Valid(g)

(***************************************************************************)
(* An id never leaves the tile it was Set to: ++ and + change the id field *)
(* only, an overflow of one field never carries into its neighbours.       *)
(***************************************************************************)
StaysInItsTile ==
  [][asked' = asked /\ asked # <<>> => Tile_Base(g') = Tile_Base(g)]_vars

(***************************************************************************)
(* The name FileSuffix writes for a tile of its level's grid is read back  *)
(* by GetTileId as that tile, so that two tiles never share a file         *)
(* (graphtile.cc:161-233), for every level whose numbers fit 32 bits.      *)
(* A tile id beyond the grid has no such name: it is another tile's.       *)
(***************************************************************************)
NamesReadBack ==
  /\ file.path # NoPath
  /\ InGrid(file.of)
  /\ LevelFits(file.of.level)
  => IsTilePath(file.path) /\ GetTileId(file.path) = file.of

=============================================================================
