CONSTANTS
  Width = 2
  ThisBytes = 2
  FriendBytes = 2
  NotFound = NotFound
SPECIFICATION Spec
INVARIANT FindsOccurrence
