SPECIFICATION Spec
CONSTANTS
  Rows = {e1, e2}
  Times = {1}
  PageSize = 2
  MaxAsked = 2
  Budget <- Submissions
SYMMETRY Symmetry
INVARIANTS
  NewRowsRead
CHECK_DEADLOCK FALSE
