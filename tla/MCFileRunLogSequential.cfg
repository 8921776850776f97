CONSTANTS
  Runs <- EightRuns
  StartTime <- Times
  MaxOverlap = 1
  MaxEntries = 2
  MaxHistories = 2
  NoFile = NoFile
  Faults <- Crashes
  MaxFailures = 0
SPECIFICATION Spec
INVARIANTS
  FromIndexIsSlice
  FromEntryTimeIsRight
  StoredStays
PROPERTY KeepsRunLog
