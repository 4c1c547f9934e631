SPECIFICATION Spec
CONSTANTS
  Requests = {q1, q2}
  Lists = {l1}
  Ids = {1, 2, 3, 4}
  Earlier = {2, 3}
  Owners = {o1}
  Names = {n1, n2, n3}
  Statuses = {s1, s2}
  None = none
  MAX_LIST_LIMIT = 2
  MaxClock = 1
  Named = {2, 3}
  MaxExpected = 2
  Faults = TRUE
SYMMETRY Symmetry
CHECK_DEADLOCK FALSE
INVARIANTS
  TypeOK
  OneWinner
  ListIsExact
  DeadlockNeedsGuess

  
