SPECIFICATION Spec
CONSTANTS
  Emails = {e1}
  Procs = {p1, p2}
  Concurrency = 1
  MaxAttempts = 2
  SweepAttempts = 3
  Chunk = 1
  Budget <- AllFaults
  None = None
SYMMETRY Symmetry
CONSTRAINT TwoFaults
INVARIANTS
  TypeOK
  ExclusiveRuns
  SendingHasRun
  DuplicatesCharged
  ClaimsBounded
  SentWasDelivered
  NoStrandedRow
PROPERTIES
  FinishedIsFinal
CHECK_DEADLOCK FALSE
