SPECIFICATION Spec
CONSTANTS
  Patches = {p1, p2}
  Starts = {s1}
  Ports = {a1, a2}
  Gpus = {g1}
  Roots = {m1, m2}
  Hosted = {m1, m2}
  Absent = absent
  Null = null
  Nobody = nobody
  Serial = TRUE
SYMMETRY Symmetry
CHECK_DEADLOCK FALSE
INVARIANTS
  RunsAsConfigured
PROPERTIES
  UnnamedUnchanged
