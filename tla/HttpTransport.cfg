\* Up to three attempts, two faults.  A caller's rules answer an unset status,
\* which is written as 202, refuse (409), ask for a retry (429), or give one that
\* cannot be written (99); its RetryOn, if any, repeats a 409 and a 202.
CONSTANTS
  DefaultRetry = 2
  MaxCount = 1
  RuleStatuses = {0, 99, 409, 429}
  RetryStatuses = {202, 409}
  MaxFaults = 2
SPECIFICATION Spec
INVARIANTS
  SuccessWasAcked
  GivenUpWasRefused
  RepeatedOnlyUnheard
CHECK_DEADLOCK FALSE
