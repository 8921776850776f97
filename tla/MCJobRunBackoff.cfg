CONSTANTS
  RunIds = {r1}
  Handlers <- AllHandlers
  MaxBackoffWait = 8
  MaxOverlap = 1
  FailCap = 9
SPECIFICATION FairSpec
PROPERTY BackoffSkipsAsDocumented
