CONSTANTS
  NumPieces = 2
  PieceBlocks = 1
  Width = 2
  OurHash <- MCOurHash
  RemoteHashes <- MCRemoteHashes
  RemoteHas = {0, 1}
  Quiet = FALSE
  MaxChokes = 0
  MaxQueue = 2
SPECIFICATION Spec
INVARIANT RemoteInSync
