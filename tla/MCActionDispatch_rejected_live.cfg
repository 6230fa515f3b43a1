SPECIFICATION Spec
CONSTANTS
  a1 = a1
  a2 = a2
  Actions <- OneAction
  Native <- OneAction
  NoAction = NoAction
  MaxRuns = 3
  MaxHead = 2
  MaxCrashes = 1
  MaxResumes = 0
  Failures <- NoFailures
  Faults <- NoFaults
INVARIANTS RejectedHasNoEffect
CHECK_DEADLOCK FALSE
