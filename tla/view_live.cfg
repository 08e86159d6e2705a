SPECIFICATION FairSpec
CONSTANTS
  Rows = {e1, e2}
  Times = {1, 2}
  PageSize = 1
  MaxAsked = 2
  Budget <- Reparks
INVARIANTS
  TypeOK
PROPERTIES
  ViewConverges
CHECK_DEADLOCK FALSE
