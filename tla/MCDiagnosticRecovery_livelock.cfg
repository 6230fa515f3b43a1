SPECIFICATION FairSpec
CONSTANTS
  Actions = {1, 2}
  Providers = {1, 2, 3}
  Native = 3
  Registry <- WorkflowDispatch
  Kernels <- ShippedKernel
  Reliable = {}
  Failures = {"kernel"}
  MaxFaults = 0
PROPERTY LoopsBroken
CHECK_DEADLOCK FALSE
