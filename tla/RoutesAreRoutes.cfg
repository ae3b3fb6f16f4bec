SPECIFICATION MCSpec
CONSTANTS
  MaxFields = 2
  Arguments <- MCArguments
  Contents <- MCContents
  Cuts = {0, 1, 3, 4}
  HeaderSize = 4
  RecordSize <- MCRecordSize
  CountRange <- MCCountRange
  NameCounts = 4
  ShapeSizes = 4
  SizeRange = 100000
  kGridDim = 2
  MaxIndex = 4
INVARIANT RoutesAreRoutes
