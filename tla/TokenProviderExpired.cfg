\* One caller, and a token that expires before the destination sees it.
CONSTANTS
  Callers = {p1}
  Nobody = Nobody
  Lifetimes = {2}
  CacheTTLs = {0}
  MaxDuration = 4
  Retries = 1
  MaxPublishes = 2
  MaxTime = 3
  MaxFaults = 1
SPECIFICATION Spec
INVARIANT GivenUpCannotSucceed
CHECK_DEADLOCK FALSE
