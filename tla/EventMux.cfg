\* One message and two workers: two deliveries of the same message overlap.
\* Three deliveries with MaxRetries 0 or 1 reach past the limit, with one fault.
\* Every delivery but MaxRetries + 1 of them takes a fault not to settle it, so
\* MaxDeliveries is never what stops the message.
CONSTANTS
  Msgs = {m1}
  Workers = {w1, w2}
  NoMsg = NoMsg
  MaxRetries = 1
  MaxDeliveries = 3
  MaxFaults = 1
SPECIFICATION FairSpec
INVARIANTS
  DecidedOnce
  AckedAfterResult
  DiscardedAfterCopy
  NackedWithinLimit
  ReportedAsDecided
  WorkingPublishersSuffice
  UndecidedOnlyByCopyPanic
PROPERTIES
  KeepsPromise
  EventuallySettled
CHECK_DEADLOCK FALSE
