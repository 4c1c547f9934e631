SPECIFICATION Spec
CONSTANTS
  Installers = {i1, i2}
  Base = base
  NoTree = notree
  Nobody = nobody
  Serial = TRUE
  Crashes = FALSE
  IOFaults = TRUE
CHECK_DEADLOCK FALSE
INVARIANT FailedInstallKeepsActive
