\* Two Starts and three Stops: a Stop that fails, one that succeeds, a restart.
CONSTANTS
  Filters = {f1, f2}
  Uncomparable = {f2}
  Starts = {s1, s2}
  Stops = {t1, t2, t3}
  Nobody = Nobody
  MaxRoutes = 2
  MaxUses = 1
  MaxMessages = 2
  MaxFaults = 1
SPECIFICATION FairSpec
INVARIANTS
  HandlersFindChains
  StartedAgrees
PROPERTIES
  NothingRebuilt
  CallsReturn
CHECK_DEADLOCK FALSE
