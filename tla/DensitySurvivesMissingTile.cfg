SPECIFICATION Spec
CONSTANTS
  kMaxGraphTileId = 3
  kMaxGraphHierarchy = 2
  kMaxGraphId = 4
  kInvalidIdBits = 3
  Levels = {0}
  Builds = {"full", "later", "region", "failed"}
  Build <- MCBuild
  QueryIds <- MCQueryIds
  max_cache_size_ = 3
  NoFile = NoFile
  Nullptr = Nullptr
  Thrown = Thrown
PROPERTY DensitySurvivesMissingTile
