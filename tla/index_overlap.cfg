SPECIFICATION Spec
CONSTANTS
  Emails = {e1}
  Procs = {p1, p2}
  Concurrency = 1
  Attempts = 2
  MaxStalled = 1
  MaxPending = 2
  Budget <- NoFaults
  None = None
SYMMETRY Symmetry
INVARIANTS
  IndexReflectsRow
CHECK_DEADLOCK FALSE
