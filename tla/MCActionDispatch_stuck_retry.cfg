SPECIFICATION FairSpec
CONSTANTS
  a1 = a1
  a2 = a2
  Actions <- OneAction
  Native <- OneAction
  NoAction = NoAction
  MaxRuns = 3
  MaxHead = 1
  MaxCrashes = 1
  MaxResumes = 0
  Failures <- KernelFailures
  Faults <- NoFaults
PROPERTIES IntentSettles
CHECK_DEADLOCK FALSE
