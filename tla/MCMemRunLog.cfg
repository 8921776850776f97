CONSTANTS
  Runs <- FiveRuns
  StartTime <- Times
  MaxOverlap = 4
  MaxLen = 3
SPECIFICATION Spec
INVARIANT NewestKept
PROPERTY KeepsRunLog
