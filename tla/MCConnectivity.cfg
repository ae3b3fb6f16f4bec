SPECIFICATION Spec
CONSTANTS
  r1 = r1
  r2 = r2
  Readers = {r1, r2}
  Levels = {0, 1}
  MaxTileId <- MCMaxTileId
  Adjacent <- MCAdjacent
  Questions <- MCQuestions
  Files <- MCFiles
  FirstFiles <- MCFirstFiles
  MaxChanges = 2
  LevelNotFound = LevelNotFound
  kMaxGraphTileId = 1677
  kMaxGraphHierarchy = 7
  kMaxGraphId = 1
  kInvalidIdBits = 0
  Thousand = 10
  UintSize = 4295
INVARIANT ConnectedByFiles
INVARIANT JoinedIsNotRejected
INVARIANT MapsAgreeWithAnswers
PROPERTY ImplementsRegions
PROPERTY EveryCallAnswered
