SPECIFICATION Spec
CONSTANTS
  MaxRows = 2
  Tiles <- MCTiles
  Requests <- MCRequests
  Nullptr = Nullptr
  Thrown = Thrown
INVARIANTS
  DepartureIsOfLine
