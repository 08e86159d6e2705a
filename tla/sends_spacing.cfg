SPECIFICATION Spec
CONSTANTS
  Emails = {0, 1}
  HourlyLimit <- OneSender
  NULL = NULL
  EnvLimit = 2
  GlobalLimit = 0
  CampaignLimit = 3
  MinDelay = 2
  W = 3
  MaxLag = 2
  Start = 3
  DelayMs = 0
  MaxTime = 8
INVARIANTS
  SendsSpaced
CHECK_DEADLOCK FALSE
