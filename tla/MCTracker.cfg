CONSTANTS
  Protocols = {"udp", "http"}
  PeerLists <- MCPeerLists
  a = a
  b = b
  NoAddress = NoAddress
  Garbage = Garbage
  MaxPeers = 2
  ConnectionIds = {11, 12}
  MaxAnnounces = 2
  MaxTime = 2
  ConnectTimeout = 2
  RecvSize = 2
  Ports = {80, 443}
SPECIFICATION FairSpec
INVARIANTS
  TypeOK
  AddressesAnswerThisCall
  ConnectionIdCurrent
  HttpAddressesGenuine
  RecvInsideBuffer
  ExceptionHasCause

  
  
CHECK_DEADLOCK FALSE
