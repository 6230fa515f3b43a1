SPECIFICATION FairSpec
CONSTANTS
  MaxMain = 2
  MaxCommits = 2
  MaxRuns = 4
  MaxCrashes = 1
  Checked = {2}
  Fallback = {1}
INVARIANTS MergedPassed ValidatedOnce ReplacedStaysOut
PROPERTIES EvidenceArrives
CHECK_DEADLOCK FALSE
