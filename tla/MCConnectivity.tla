---------------------------- MODULE MCConnectivity ---------------------------
EXTENDS Connectivity, TLC

CONSTANTS r1, r2

\* Level 0 has two tiles; level 1 is a row of three and a tile apart.
MCMaxTileId == (0 :> 1) @@ (1 :> 3)
MCAdjacent == (0 :> {<<0, 1>>, <<1, 0>>})
              @@ (1 :> {<<0, 1>>, <<1, 0>>, <<1, 2>>, <<2, 1>>})

\* The ends of the row; a tile without a file.
Tile(l, t) == [tileid |-> t, level |-> l, id |-> 0]
MCQuestions == {<<Tile(1, 0), Tile(1, 2)>>, <<Tile(1, 3), Tile(1, 3)>>}

\* The middle of the row may come, the others may go.
MCFiles == {<<0, 0>>, <<1, 0>>, <<1, 1>>, <<1, 2>>}
MCFirstFiles == MCFiles \ {<<1, 1>>}
==============================================================================
