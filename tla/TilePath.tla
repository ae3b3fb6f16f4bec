------------------------------ MODULE TilePath -------------------------------
(***************************************************************************)
(* baldr/graphtile.cc, FileSuffix and GetTileId: the name of the file of a *)
(* tile, and the tile of a file name.  A name is written by printing one   *)
(* 32 bit number, level * 10^digits + tileid, with a '/' between groups of *)
(* three digits; here it is the sequence of the numbers between the        *)
(* slashes.  Thousand is the size of a group and UintSize that of the      *)
(* printed type, constants so that TLC can reach the overflow.             *)
(***************************************************************************)
EXTENDS GraphId, Integers, Sequences

CONSTANTS
  Levels,      \* levels of the hierarchy (TileHierarchy::levels)
  MaxTileId,   \* largest tile id of the grid of each level, from midgard
  Thousand,    \* 10^3
  UintSize     \* 2^32

ASSUME PathNumbers ==
  /\ Levels \subseteq 0 .. kMaxGraphHierarchy - 1
  /\ MaxTileId \in [Levels -> 0 .. kMaxGraphTileId - 1]
  /\ Thousand \in Nat /\ Thousand > 1
  /\ UintSize \in Nat /\ kMaxGraphTileId < UintSize
  /\ UintSize <= Thousand * Thousand * Thousand * Thousand

\* Thousand to the power k, for the four groups a 32 bit number can have.
Power(k) == CASE k = 0 -> 1
              [] k = 1 -> Thousand
              [] k = 2 -> Thousand * Thousand
              [] k = 3 -> Thousand * Thousand * Thousand
              [] OTHER -> Thousand * Thousand * Thousand * Thousand

\* A grid of one tile has no digits, so its name has no group for the tile.
MaxLength(level) ==
  CHOOSE k \in 0 .. 4 : /\ MaxTileId[level] < Power(k)
                        /\ \A j \in 0 .. k - 1 : MaxTileId[level] >= Power(j)

\* The groups of digits in which the stream prints n: at most four below
\* UintSize.
GroupCount(n) == CHOOSE k \in 1 .. 5 : /\ n < Power(k) \/ k = 5
                                       /\ \A j \in 1 .. k - 1 : n >= Power(j)
Grouped(n) == [i \in 1 .. GroupCount(n) |->
                 (n \div Power(GroupCount(n) - i)) % Thousand]

\* suffix[0] = '0': the first digit of a group of up to three becomes 0.
ZeroFirstDigit(group) == CASE group < 10  -> 0
                           [] group < 100 /\ group >= 10 -> group % 10
                           [] OTHER -> group % 100

HasLevel(level) == level \in Levels

\* The tile of a position (tilehierarchy.cc).  The grid gives the tile the
\* position lies in, or -1 outside the grid, which Set takes as unsigned.
Outside == UintSize - 1
Cells(level) == {Outside} \cup
                (IF HasLevel(level) THEN 0 .. MaxTileId[level] ELSE {})
GetGraphId(cell, level) ==
  IF HasLevel(level) THEN Set(cell, level, 0) ELSE Invalid

\* Mutant of Printed: level 0 is printed like the others, so that leading
\* zeros are lost.
PrintedNoZero(level, tileid) ==
  Grouped((level * Power(MaxLength(level)) + tileid) % UintSize)

Printed(level, tileid) ==
  IF level = 0
    THEN LET n == (Power(MaxLength(0)) + tileid) % UintSize
         IN  [Grouped(n) EXCEPT ![1] = ZeroFirstDigit(@)]
    ELSE Grouped((level * Power(MaxLength(level)) + tileid) % UintSize)

\* The name of no file: FileSuffix throws for a level that does not exist.
NoPath == <<>>
FileSuffix(g) == IF HasLevel(g.level) THEN Printed(g.level, g.tileid) ELSE NoPath

\* The tile of a file name, which has two to four groups (fewer throw).
IsTilePath(path) == Len(path) \in 2 .. 4
GetTileId(path) ==
  LET multiplier(i) == Power(Len(path) - i)
      id == CASE Len(path) = 2 -> path[2]
              [] Len(path) = 3 -> path[2] * multiplier(2) + path[3]
              [] OTHER -> path[2] * multiplier(2) + path[3] * multiplier(3) + path[4]
  IN  Set(id, path[1], 0)

\* The tiles of a level, and the levels whose names the number can hold.
InGrid(g) == HasLevel(g.level) /\ g.tileid <= MaxTileId[g.level]
LevelFits(level) ==
  /\ MaxLength(level) \in 1 .. 3
  /\ (IF level = 0 THEN 2 ELSE level + 1) * Power(MaxLength(level)) <= UintSize
  /\ level < Thousand
=============================================================================
