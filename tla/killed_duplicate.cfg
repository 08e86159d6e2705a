SPECIFICATION Spec
CONSTANTS
  Emails = {e1}
  Procs = {p1, p2}
  Concurrency = 1
  MaxAttempts = 2
  SweepAttempts = 3
  Chunk = 1
  Budget <- CrashOnce
  None = None
SYMMETRY Symmetry
INVARIANTS
  DeliveredAtMostOnce
CHECK_DEADLOCK FALSE
