SPECIFICATION Spec
CONSTANTS
  Tabs = {t1, t2}
  Accounts = {g1, g2}
  SessionTtl = 2
  StateTtl = 1
  MaxTime = 2
  MaxFlows = 2
  Retries = 1
  Budget <- All
  None = None
CONSTRAINT OneDisturbance
INVARIANT OneUserShown
CHECK_DEADLOCK FALSE
