CONSTANTS
  Kinds = {"sqs", "pubsub", "jetstream", "core", "http"}
  Starts = {s1, s2}
  Stops = {t1, t2}
  Slots = {w1, w2}
  Nobody = Nobody
  MaxRuns = 2
  MaxMessages = 2
  MaxFaults = 1
SPECIFICATION FairSpec
INVARIANTS
  QuietOnceReleased
  OnlyFailuresTold
PROPERTIES
  KeepsContract
  StopReturns
  FailuresTold
CHECK_DEADLOCK FALSE
