SPECIFICATION Spec
CONSTANTS
  Runs = {r1, r2}
  Flows = {f1}
  None = None
  W = 2
  StateTtl = 1
  MaxLag = 0
  MaxTime = 5
  Budget <- PostOnce
SYMMETRY Symmetry
INVARIANTS
  EveryHitNotified
CHECK_DEADLOCK FALSE
