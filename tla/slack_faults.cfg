SPECIFICATION Spec
CONSTANTS
  Runs = {r1, r2}
  Flows = {f1, f2}
  None = None
  W = 2
  StateTtl = 1
  MaxLag = 1
  MaxTime = 3
  Budget <- AllFaults
CONSTRAINT TwoFaults
SYMMETRY Symmetry
INVARIANTS
  TypeOK
  OneMessageWhileItLasts
  MessagesBounded
  HitNotified
CHECK_DEADLOCK FALSE
