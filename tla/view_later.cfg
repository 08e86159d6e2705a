SPECIFICATION Spec
CONSTANTS
  Rows = {e1, e2}
  Times = {1, 2}
  PageSize = 1
  MaxAsked = 2
  Budget <- Submissions
INVARIANTS
  NewRowsCounted
CHECK_DEADLOCK FALSE
