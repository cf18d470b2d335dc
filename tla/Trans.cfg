SPECIFICATION Spec
CONSTANTS
  Sizes <- TestSizes
  Layouts <- LinkerLayouts
INVARIANTS
  TypeOK
  ValidForSupported
  EachElementOnce
  MissesWithinLimits
