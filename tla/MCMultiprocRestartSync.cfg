CONSTANTS
  Pieces = {p1, p2}
  PipeSlots = 3
  PieceSlots = 1
  Addresses = 2
  ChildrenCount = 2
  MaxRestarts = 1
  CanKill = FALSE
  NoPiece = NoPiece
SPECIFICATION Spec
INVARIANT WritesSynchronised
