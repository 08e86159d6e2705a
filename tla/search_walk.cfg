SPECIFICATION FairSpec
CONSTANTS
  e1 = e1
  e2 = e2
  e3 = e3
  me = me
  other = other
  Rows <- AllRows
  Mail <- Posts
  Me = me
  Tab = "scheduled"
  Within <- Parts
  Queries <- Hello
  Start <- Places
  Times = {1, 2}
  PageSize = 1
  MaxPageSize = 2
  MaxHits = 2
  MaxAsked = 2
  Budget <- All
CONSTRAINT OneDisturbance
INVARIANTS
  TypeOK
  OwnRowsOnly
  PagesPartition
PROPERTIES
  SearchConverges
CHECK_DEADLOCK FALSE
