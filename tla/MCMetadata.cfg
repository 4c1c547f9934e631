SPECIFICATION Spec
CONSTANTS
  Requests = {q1, q2}
  Earlier = {e1, e2}
  Names = {n1}
  Paths = {p1}
  Slugs = {s1}
  Nothing = nothing
  Versions <- ShippedVersions
  Profiles <- ShippedProfiles
  Rules <- ShippedRules
  Cudas <- SomeCudas
  Gpus <- SomeGpus
  Faults = TRUE
SYMMETRY Symmetry
CHECK_DEADLOCK FALSE
INVARIANTS
  TypeOK
  InstancesAreWellFormed
  DefaultHostComplete
  OnlyRacesBreak
  DeclaredErrorsOnly
  RecommendationFits
