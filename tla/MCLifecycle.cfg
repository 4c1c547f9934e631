SPECIFICATION FairSpec
CONSTANTS
  Order <- SomeOrder
  Required = {"postgres", "http_client"}
  Probes = {q1}
CHECK_DEADLOCK FALSE
INVARIANTS
  OnlyInvalidLeaks
  ReadyIsTruthful
PROPERTIES
  ReleasedInReverse
  LifespanEnds
