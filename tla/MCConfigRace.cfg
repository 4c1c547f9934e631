SPECIFICATION Spec
CONSTANTS
  Patches = {p1, p2}
  Starts = {}
  Ports = {a1}
  Gpus = {g1}
  Roots = {m1, m2, m3}
  Hosted = {m1, m2}
  Absent = absent
  Null = null
  Nobody = nobody
  Serial = FALSE
SYMMETRY Symmetry
CHECK_DEADLOCK FALSE
INVARIANTS
  TypeOK
  PrimaryBound
  OneConfiguration
  RowHolderIsFree
