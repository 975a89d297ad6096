CONSTANTS
  Pieces = {p1, p2}
  PipeSlots = 2
  PieceSlots = 3
  Addresses = 1
  ChildrenCount = 1
  MaxRestarts = 0
  CanKill = FALSE
  NoPiece = NoPiece
SPECIFICATION Spec
INVARIANT NoStandoff
