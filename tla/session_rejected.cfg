SPECIFICATION FairSpec
CONSTANTS
  Tabs = {t1}
  Accounts = {g1}
  SessionTtl = 2
  StateTtl = 1
  MaxTime = 2
  MaxFlows = 2
  Retries = 1
  Budget <- All
  None = None
CONSTRAINT OneDisturbance
PROPERTY RejectedGoesToLogin
CHECK_DEADLOCK FALSE
