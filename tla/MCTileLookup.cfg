SPECIFICATION Spec
CONSTANTS
  MaxRows = 4
  Tiles <- MCTiles
  Requests <- MCRequests
  Nullptr = Nullptr
  Thrown = Thrown
INVARIANTS
  CursorInTable
PROPERTIES
  ImplementsTableAnswers EveryCallReturns
