CONSTANTS
  Pieces = {p1}
  PipeSlots = 2
  PieceSlots = 1
  Addresses = 3
  ChildrenCount = 2
  MaxRestarts = 1
  CanKill = TRUE
  NoPiece = NoPiece
SPECIFICATION Spec
VIEW LiveState
INVARIANTS
  TokensBounded
  NoConcurrentSpawn
  ChildrenTracked
  ChildrenBounded
CHECK_DEADLOCK FALSE
