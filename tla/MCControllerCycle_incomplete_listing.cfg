SPECIFICATION CycleSpec
CONSTANTS
  Works = {1}
  Tasks = {"task"}
  Modes = {"external"}
  Errors = {}
  Truncated = TRUE
  MaxCrashes = 0
PROPERTIES ClosureObserved
CHECK_DEADLOCK FALSE
