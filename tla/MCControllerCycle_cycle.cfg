SPECIFICATION FairCycle
CONSTANTS
  Works = {1, 2}
  Tasks = {"one"}
  Modes = {"external", "provider"}
  Errors = {"planning", "authority"}
  Truncated = FALSE
  MaxCrashes = 2
INVARIANTS NeverAmbiguous CloseAfterMerge
PROPERTIES OwnerYields ClosedOwnerYields
CHECK_DEADLOCK FALSE
