CONSTANTS
  often = often
  seldom = seldom
  Jobs <- TwoJobs
  RawSpec <- SmallSpecs
  Calendar <- SmallCalendar
  Second = 2
  Horizon = 4
  Nil = Nil
  MaxTime = 10
  MaxStarts = 2
SPECIFICATION FairSpec
INVARIANTS
  NoSecondForgotten
  OncePerSecond
PROPERTY DueIsPopped
CHECK_DEADLOCK FALSE
