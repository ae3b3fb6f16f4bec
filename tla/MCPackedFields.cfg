SPECIFICATION MCSpec
CONSTANTS
  kMaxGraphTileId = 1677
  kMaxGraphHierarchy = 7
  kMaxGraphId = 1
  kInvalidIdBits = 0
  TileIdArgs <- MCTileIds
  LevelArgs <- MCLevels
  IdArgs <- MCIds
  Offsets <- MCOffsets
  Levels <- MCLevelsOfHierarchy
  MaxTileId <- MCMaxTileId
  Thousand = 10
  UintSize = 4295
  Indexes <- MCIndexes
  StopIndexes <- MCStopIndexes
  StopImpacts <- MCStopImpacts
  Degrees <- MCDegrees
INVARIANT BuiltIdsStayValid
INVARIANT NamesReadBack
INVARIANT ReadsBack
INVARIANT HeadingReadsBack
