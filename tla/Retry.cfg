\* Durations of 5 bits: attempts 0 to 4 reach the cap, the wrap and saturation.
CONSTANTS
  Width = 5
  MaxRetries = 4
  MaxDeliveries = 2
SPECIFICATION Spec
INVARIANTS
  DelayIsExponential
  RetriesDoNotMultiply
CHECK_DEADLOCK FALSE
