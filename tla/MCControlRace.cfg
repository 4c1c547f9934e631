SPECIFICATION FairSpec
CONSTANTS
  Requests = {q1, q2}
  Refs = {f1, f2}
  FirstRef = f1
  NoRef = noref
  BadRef = badref
  Commits = {c1}
  NoCommit = nocommit
  NoRun = norun
  Thieves = TRUE
  ApiCrashes = TRUE
  CtlKills = TRUE
  IOFaults = TRUE
CHECK_DEADLOCK FALSE
INVARIANTS
  TypeOK
  CompletedIsReal
  RecordedWasInstalled
  RecordMatchesDisk
  NothingLostInTurn
PROPERTIES
  RequestsAnswered
