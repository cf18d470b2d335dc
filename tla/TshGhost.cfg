SPECIFICATION Spec
CONSTANTS
  Pids = {p1, p2}
  NoPid = NoPid
  MAXJOBS = 2
  JidBound = 2
  Typed = {}
  KeysAtOnce = 0
INVARIANT AtMostOneFG
