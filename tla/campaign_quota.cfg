SPECIFICATION Spec
CONSTANTS
  Emails = {0, 1}
  HourlyLimit <- TwoSenders
  NULL = NULL
  EnvLimit = 1
  GlobalLimit = 2
  CampaignLimit = 1
  MinDelay = 1
  W = 3
  MaxLag = 2
  Start = 3
  DelayMs = 0
  MaxTime = 8
INVARIANTS
  CampaignQuotaKept
CHECK_DEADLOCK FALSE
