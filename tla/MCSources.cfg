CONSTANTS
  Names <- MCNames
  Letters <- MCLetters
  Numerals <- MCNumerals
  Documents <- MCDocuments
  Uris <- MCUris
  Trackers <- MCTrackers
  SizeModulus = 1000
  HashBytes = 2
  Sha1 <- MCSha1
  Padding = 3
  MaxCalls = 2
SPECIFICATION Spec
INVARIANTS
  BencodeFaithful
  HashIsOfInfo
  MagnetHashRight
  AnnounceReachesTracker
  CrashHasCause
CHECK_DEADLOCK FALSE
