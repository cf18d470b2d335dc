SPECIFICATION HSpec
CONSTANTS
  MaxAddress = 7
  MaxRefs = 6
  Inputs <- CommandLines
INVARIANTS
  TypeOK
  QueueIsPermutation
  OneLinePerBlock
  QueueOrderedByAge
  MissesAccountedFor
PROPERTIES
  ModifyHits
  ImplementsLRU
