SPECIFICATION Spec
CONSTANTS
  Emails = {0, 1, 2}
  HourlyLimit <- TwoSenders
  NULL = NULL
  EnvLimit = 1
  GlobalLimit = 2
  CampaignLimit = 3
  MinDelay = 1
  W = 3
  MaxLag = 2
  Start = 3
  DelayMs = 0
  MaxTime = 7
INVARIANTS
  TypeOK
  SenderQuotaKept
  GlobalQuotaKept
PROPERTIES
  GrantsSpaced
CHECK_DEADLOCK FALSE
