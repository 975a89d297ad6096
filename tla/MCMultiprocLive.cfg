CONSTANTS
  Pieces = {p1}
  PipeSlots = 2
  PieceSlots = 1
  Addresses = 2
  ChildrenCount = 2
  MaxRestarts = 0
  CanKill = TRUE
  NoPiece = NoPiece
SPECIFICATION FairSpec
PROPERTIES
  HeaderServed
  DeadChildReaped
CHECK_DEADLOCK FALSE
