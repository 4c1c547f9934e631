SPECIFICATION Spec
CONSTANTS
  Patches = {p1, p2}
  Starts = {}
  Ports = {a1, a2}
  Gpus = {g1}
  Roots = {m1}
  Hosted = {m1}
  Absent = absent
  Null = null
  Nobody = nobody
  Serial = FALSE
CHECK_DEADLOCK FALSE
PROPERTY
  UnnamedUnchanged
