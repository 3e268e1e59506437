CONSTANTS
  N = 2
  Starts = {s1}
  Stops = {t1, t2}
  Runs = {r1}
  Nobody = Nobody
  Overlap = FALSE
  MaxFaults = 2
SPECIFICATION FairSpec
INVARIANTS
  Accounted
  DependenciesUp
  StopSeenByStart
PROPERTIES
  FailureNotSwallowed
  CallsReturn
CHECK_DEADLOCK FALSE
