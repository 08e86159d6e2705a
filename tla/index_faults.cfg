SPECIFICATION Spec
CONSTANTS
  Emails = {e1}
  Procs = {p1, p2}
  Concurrency = 1
  Attempts = 2
  MaxStalled = 1
  MaxPending = 2
  Budget <- AllFaults
  None = None
CONSTRAINT TwoFaults
SYMMETRY Symmetry
INVARIANTS
  TypeOK
  EveryRowSearchable
  StaleHasCause
  MappingKept
CHECK_DEADLOCK FALSE
