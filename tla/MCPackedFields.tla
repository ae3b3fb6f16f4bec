--------------------------- MODULE MCPackedFields ----------------------------
(***************************************************************************)
(* Two components whose values share the bits of a word: GraphIds with     *)
(* their tiles' names, and the words that hold a value for each local      *)
(* edge.  They have no variable in common, and a behaviour follows one of  *)
(* them while the other rests in an initial state.                         *)
(***************************************************************************)
EXTENDS GraphIdOps, LocalEdges, TLC

\* At and beyond the limits of the fields and of the grids, and around the
\* powers of the group size.
MCTileIds == {0, 9, 99, 100, 103, 999, 1000,
              kMaxGraphTileId - 1, kMaxGraphTileId, kMaxGraphTileId + 1}
MCLevels  == {0, 1, 2, 3, 4, 5, kMaxGraphHierarchy, kMaxGraphHierarchy + 1}
MCIds     == {0, kMaxGraphId, kMaxGraphId + 1}
MCOffsets == {0, 1}

\* The grids of four, one and a quarter degree, an extra one whose numbers
\* overflow, and one of a single tile; level 4 does not exist.
MCLevelsOfHierarchy == {0, 1, 2, 3, 5}
MCMaxTileId == (0 :> 40) @@ (1 :> 64) @@ (2 :> 103) @@ (3 :> 0) @@ (5 :> 999)

\* Neighbours, the last local edge, indexes beyond it, among them 11 whose
\* shift of 33 is undefined; impacts 0, 3, 7 and the too large 12; transit ids
\* with bits in every shared field.
MCIndexes == {0, 1, 7, 8, 10, 11}
MCStopIndexes == {{}, {0, 2, 13, 23, 24, 31}}
MCStopImpacts == {{}, 0 .. 1, 0 .. 2, 2 .. 3}
MCDegrees == {0, 1, 185, 359, 360 + 359}

VARIABLE part
mc_vars == <<part, vars, words_vars>>

MCInit == \/ part = "ids" /\ Init /\ word = "edge_to_left" /\ WordsInit
          \/ part = "words" /\ Init /\ WordsInit

MCNext == \/ part = "ids" /\ Next /\ UNCHANGED <<part, words_vars>>
          \/ part = "words" /\ WordsNext /\ UNCHANGED <<part, vars>>

MCSpec == MCInit /\ [][MCNext]_mc_vars
==============================================================================
