SPECIFICATION FairSpec
CONSTANTS
  Actions = {1, 2}
  Providers = {1, 2, 3}
  Native = 3
  Registry <- BoundAndUnbound
  Kernels <- ShippedAndLarger
  Reliable = {2}
  Failures = {"kernel", "postcondition", "policy"}
  MaxFaults = 3
INVARIANTS OneInFlight SuspendedWhileUnresolved
PROPERTIES NoProviderTwice Recovers
CHECK_DEADLOCK FALSE
