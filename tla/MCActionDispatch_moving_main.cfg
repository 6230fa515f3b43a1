SPECIFICATION SecondActionSpec
CONSTANTS
  a1 = a1
  a2 = a2
  Actions <- AllActions
  Native <- OneAction
  NoAction = NoAction
  MaxRuns = 4
  MaxHead = 2
  MaxCrashes = 1
  MaxResumes = 1
  Failures <- AllFailures
  Faults <- TransientFaults
INVARIANTS OneRunPerIntent NoConcurrentRuns CompletionOwned
PROPERTIES IntentSettlesOrIsStranded
CHECK_DEADLOCK FALSE
