CONSTANTS
  Tests = {t1, t2}
  MaxOut = 1
  Faults <- AllFaults
SPECIFICATION FairSpec
INVARIANTS
  ResultIsTrue
  NothingLeftRunning
PROPERTIES
  CancelEndsShell
  ClientReleased
CHECK_DEADLOCK FALSE
