\* Two callers that publish twice each, over four seconds; tokens that expire
\* at once, soon or late, a lifetime that wraps, caches that outlive the token
\* and none at all; one fault.
CONSTANTS
  Callers = {p1, p2}
  Nobody = Nobody
  Lifetimes = {0, 2, 5}
  CacheTTLs = {0, 1, 3}
  MaxDuration = 4
  Retries = 1
  MaxPublishes = 2
  MaxTime = 3
  MaxFaults = 1
SPECIFICATION FairSpec
INVARIANTS
  OneFetchPerTTL
  ServedWithinLifetime
PROPERTY PublishReturns
CHECK_DEADLOCK FALSE
