SPECIFICATION FairSpec
CONSTANTS
  Emails = {e1, e2}
  Procs = {p1}
  Concurrency = 2
  MaxAttempts = 2
  SweepAttempts = 3
  Chunk = 1
  Budget <- ApiOnce
  None = None
INVARIANTS
  DeliveredAtMostOnce
PROPERTIES
  ImplementsDelivery
  ImplementsFairness
  BootRecoversPending
CHECK_DEADLOCK FALSE
