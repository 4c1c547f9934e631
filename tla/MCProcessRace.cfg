SPECIFICATION Spec
CONSTANTS
  Starts = {s1, s2}
  Stops = {t1}
  Pids = {p1, p2, p3}
  NoPid = nopid
  Ports = {8188}
  Versions = {v1, v2}
  NoVersion = noversion
  Foreign = foreign
  Serial = FALSE
  Thieves = TRUE
  CtlCrashes = TRUE
  Faults = TRUE
CHECK_DEADLOCK FALSE
SYMMETRY Symmetry
INVARIANTS
  SignalsOnlyOwn
  OnlyFaultsLeaveChildren
  StoppedMeansGone
