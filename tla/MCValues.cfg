SPECIFICATION MCSpec
CONSTANTS
  TileDate <- MCTileDate
  Dates <- MCDates
  DowMasks <- MCDowMasks
  Zones <- MCZones
  NoZone = NoZone
  Empty = Empty
  Instants <- MCInstants
  AskedDays = {0, 1, 2, 3, 4, 5, 6}
  Times <- MCTimes
  Durations <- MCDurations
  e1 = e1
  e2 = e2
  h1 = h1
  h2 = h2
  NoVertex = NoVertex
  Holders = {h1, h2}
  v1 = v1
  v2 = v2
  Vertices = {v1, v2}
  ApproximatelyEqual <- MCApproximatelyEqual
  MaxIndex = 0
  Ids = {e1, e2}
  Edges <- MCEdges
  One = 10
  Epsilon = 1
  MaxEdges = 2
  Words = {"Main", "North", "West", "Northeast"}
  Cardinals = {"North", "West"}
  Diagonals = {"Northeast"}
  Lists <- MCLists
  MaxStretch = 3
SYMMETRY MCSymmetry
INVARIANT MaskIsSchedule
INVARIANT ReadersFollowSchedule
INVARIANT WeekdayIsNext
INVARIANT SecondsAreOfTheMinute
INVARIANT DateIsOfSeconds
INVARIANT LaterIsOnTheClock
INVARIANT NodeIsAtEnds
INVARIANT RoundTripIsEqual
INVARIANT EqualIsSymmetric
INVARIANT CommonNamesAreShared
INVARIANT BaseNamesAreShared
