SPECIFICATION CycleSpec
CONSTANTS
  Works = {1}
  Tasks = {"one", "other"}
  Modes = {"provider"}
  Errors = {}
  Truncated = FALSE
  MaxCrashes = 1
INVARIANTS OneIntent
CHECK_DEADLOCK FALSE
