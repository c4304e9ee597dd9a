SPECIFICATION Spec
VIEW Memories
CONSTANTS
  MaxItems = 7
  NestingLimit = 2
  NumberRoom = 2
  INT_MAX = 30
  DefaultSize = 4
  MaxList = 5
  MaxMembers = 3
  MaxText = 2
  MaxLinks = 4
CHECK_DEADLOCK FALSE
INVARIANTS
  HeapSound
  ListsLinked
PROPERTIES
  NothingLost
  EditsLists
  FailsCleanly
  CopiesAndCompares
  
  RoundTrips
  PrintFits
