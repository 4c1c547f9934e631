SPECIFICATION Spec
CONSTANTS
  Installers = {i1, i2, i3}
  Base = base
  NoTree = notree
  Nobody = nobody
  Serial = FALSE
  Crashes = TRUE
  IOFaults = TRUE
CHECK_DEADLOCK FALSE
SYMMETRY Symmetry
INVARIANTS
  LockHasOwner
  SuccessIsOnDisk
PROPERTIES
  InstalledNeverLost
  ImplementsTree
  AbandonedLockRefusesInstalls
