CONSTANTS
  Runs <- TenRuns
  StartTime <- TenTimes
  MaxOverlap = 3
  MaxEntries = 3
  MaxHistories = 2
  NoFile = NoFile
  Faults <- IoErrors
  MaxFailures = 1
SPECIFICATION Spec
INVARIANTS
  ReadInOrder
  IndexMatchesFiles
  OldestGoFirst
PROPERTY AnswerIsTrue
