CONSTANTS
  Width = 2
  ThisBytes = 3
  FriendBytes = 2
  NotFound = NotFound
SPECIFICATION FairSpec
INVARIANTS
  TypeOK
  FoundIsComplement
  SeederSearchComplete
PROPERTY SearchReturns
