SPECIFICATION FairSpec
CONSTANTS
  Starts = {s1, s2}
  Stops = {t1}
  Pids = {p1, p2, p3}
  NoPid = nopid
  Ports = {8188}
  Versions = {v1}
  NoVersion = noversion
  Foreign = foreign
  Serial = TRUE
  Thieves = FALSE
  CtlCrashes = FALSE
  Faults = TRUE
CHECK_DEADLOCK FALSE
INVARIANTS
  RunningIsTracked
PROPERTIES
  CommandsEnd
