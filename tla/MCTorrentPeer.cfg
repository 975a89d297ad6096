CONSTANTS
  NumPieces = 2
  PieceBlocks = 2
  Width = 2
  OurHash <- MCOurHash
  RemoteHashes <- MCRemoteHashes
  RemoteHas = {0, 1}
  Quiet = FALSE
  MaxChokes = 1
  MaxQueue = 2
SPECIFICATION FairSpec
INVARIANTS
  TypeOK
  NotifiedPieceIntact
  RequestsServable
PROPERTIES
  ClosedEndsProcess
  NoRequestWhileChoked
CHECK_DEADLOCK FALSE
