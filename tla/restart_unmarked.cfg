SPECIFICATION FairSpec
CONSTANTS
  Emails = {e1}
  Procs = {p1, p2}
  Concurrency = 1
  MaxAttempts = 2
  SweepAttempts = 3
  Chunk = 1
  Budget <- RestartOnce
  None = None
PROPERTIES
  EveryRowFinishes
CHECK_DEADLOCK FALSE
