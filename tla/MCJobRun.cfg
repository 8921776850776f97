CONSTANTS
  RunIds = {r1, r2}
  Handlers <- AllHandlers
  MaxBackoffWait = 8
  MaxOverlap = 2
  FailCap = 9
SPECIFICATION FairSpec
INVARIANTS
  StoppedJobIsReported
  GivesUpInTime
PROPERTY
  RetriedAfterBackoff
