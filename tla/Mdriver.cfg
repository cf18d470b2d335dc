SPECIFICATION Spec
CONSTANTS
  MAX_HEAP = 44
  CHUNKSIZE = 20
  Ids = {0, 1, 2}
  Sizes = {0, 1, 3, 12}
  MaxRequests = 6
  MaxReplayed = 4
  SpeedRuns = 2
INVARIANTS
  TypeOK
  TagsAgree
  HeapIsConsistent
  FreeListIsDoublyLinked
  BlocksAreOwned
  ReplaysAlike
  UtilizationAtMostOne
PROPERTIES
  FailsOnlyWhenFull
  ImplementsAllocator
