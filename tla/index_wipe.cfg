SPECIFICATION Spec
CONSTANTS
  Emails = {e1}
  Procs = {p1}
  Concurrency = 1
  Attempts = 2
  MaxStalled = 1
  MaxPending = 2
  Budget <- WipeOnce
  None = None
SYMMETRY Symmetry
INVARIANTS
  MappingExplicit
CHECK_DEADLOCK FALSE
