SPECIFICATION Spec
CONSTANTS
  Pids = {p1}
  NoPid = NoPid
  MAXJOBS = 1
  JidBound = 1
  Typed = {"SIGINT"}
  KeysAtOnce = 1
PROPERTY CtrlCReachesForeground
