SPECIFICATION Spec
CONSTANTS
  Emails = {0, 1, 2}
  HourlyLimit <- OneSender
  NULL = NULL
  EnvLimit = 1
  GlobalLimit = 0
  CampaignLimit = 3
  MinDelay = 2
  W = 3
  MaxLag = 2
  Start = 3
  DelayMs = 0
  MaxTime = 8
PROPERTIES
  ReparkedToNextWindow
CHECK_DEADLOCK FALSE
