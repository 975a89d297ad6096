CONSTANTS
  Pieces = {p1, p2}
  PipeSlots = 4
  PieceSlots = 2
  Addresses = 3
  ChildrenCount = 2
  MaxRestarts = 0
  CanKill = TRUE
  NoPiece = NoPiece
SPECIFICATION SpecH
SYMMETRY PieceSymmetry
VIEW LiveState
INVARIANTS
  TypeOK
  MutualExclusion
  ChannelInSync
  HandlerFindsPayload
  
 
CHECK_DEADLOCK FALSE
