\* Run alone, with a component that fails to stop.
CONSTANTS
  N = 2
  Starts = {}
  Stops = {}
  Runs = {r1}
  Nobody = Nobody
  Overlap = FALSE
  MaxFaults = 2
SPECIFICATION Spec
INVARIANT CleanRunStoppedAll
CHECK_DEADLOCK FALSE
