SPECIFICATION Spec
CONSTANTS
  Misses <- MissesOfTrans
  OtherMisses = {0, 2500}
  LastTest = 2
INVARIANT NoCreditUnvalidated
