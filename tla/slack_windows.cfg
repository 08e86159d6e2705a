SPECIFICATION Spec
CONSTANTS
  Runs = {r1, r2}
  Flows = {f1}
  None = None
  W = 2
  StateTtl = 1
  MaxLag = 1
  MaxTime = 5
  Budget <- NoFaults
SYMMETRY Symmetry
INVARIANTS
  WindowsLineUp
CHECK_DEADLOCK FALSE
