SPECIFICATION Spec
CONSTANTS
  Pids = {p1, p2, p3, p4}
  NoPid = NoPid
  MAXJOBS = 4
  JidBound = 7
SYMMETRY PidSymmetry
INVARIANTS
  TypeOK
  KeysWellFormed
  NamesHoldUntilRecycled
