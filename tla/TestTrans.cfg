SPECIFICATION FairSpec
CONSTANTS
  Misses <- MissesOfTrans
  OtherMisses = {0, 2500}
  LastTest = 2
INVARIANTS
  TypeOK
  PointsAreEarned
  CorrectMeansValidated
  CrashHasCause
PROPERTY DriverFinishes
