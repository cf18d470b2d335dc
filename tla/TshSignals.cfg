SPECIFICATION Spec
CONSTANTS
  Pids = {p1, p2}
  NoPid = NoPid
  MAXJOBS = 2
  JidBound = 2
  Typed = {"SIGINT", "SIGTSTP"}
  KeysAtOnce = 1
SYMMETRY PidSymmetry
INVARIANTS
  TypeOK
  PidUnique
  NoStaleJob
  EveryChildListed
  SurvivesWithRoom
  NoLostStatus
  ForegroundIsAwaited
PROPERTIES
  OthersUndisturbed
  ImplementsJobControl
