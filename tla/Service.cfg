\* One Run, two events on their way at once, two outages; two Stops that expire,
\* or another fault.
CONSTANTS
  N = 2
  Starts = {}
  Stops = {}
  Runs = {r1}
  Nobody = Nobody
  Overlap = FALSE
  MaxFaults = 2
  Events = {e1, e2}
  Subscriptions = {"jetstream", "core", "other"}
  MaxOutages = 2
SPECIFICATION ServiceFairSpec
INVARIANTS
  CleanShutdown
  PublishFindsConnection
PROPERTY DeadSubscriptionEndsRun
CHECK_DEADLOCK FALSE
