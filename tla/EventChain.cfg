\* A message and one or two derived from it, or from one another: two hops, a
\* redelivery, the copy of a result, the result of a copy.  Some first messages
\* have an id, a type or a correlation id that HTTP does not accept.
CONSTANTS
  MaxMessages = 3
  MaxKeys = 1
  Hops = {"sns", "pubsub", "nats", "http"}
SPECIFICATION Spec
INVARIANTS
  ReadsAsPublished
  AttributesFit
  CorrelationKept
  CausationIsParent
  ResultNotMarked
  TraceKept
CHECK_DEADLOCK FALSE
