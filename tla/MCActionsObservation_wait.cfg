SPECIFICATION FairWait
CONSTANTS
  Modes <- AllModes
  MaxRuns = 3
  MaxTime = 4
  Second = 2
  Grace = 1
  Timeout = 2
  PageSize = 1
  MaxPages = 3
INVARIANTS MatchIsMine VisibleIsFound
PROPERTIES WaitEnds
CHECK_DEADLOCK FALSE
