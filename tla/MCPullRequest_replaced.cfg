SPECIFICATION Spec
CONSTANTS
  MaxMain = 2
  MaxCommits = 1
  MaxRuns = 2
  MaxCrashes = 0
  Checked = {}
  Fallback = {}
INVARIANTS ReplacedOnce
CHECK_DEADLOCK FALSE
