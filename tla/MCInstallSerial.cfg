SPECIFICATION FairSpec
CONSTANTS
  Installers = {i1, i2, i3}
  Base = base
  NoTree = notree
  Nobody = nobody
  Serial = TRUE
  Crashes = FALSE
  IOFaults = FALSE
CHECK_DEADLOCK FALSE
INVARIANTS
  ActiveCoherent
PROPERTIES
  InstallsAreAtomic
  LockReleased
