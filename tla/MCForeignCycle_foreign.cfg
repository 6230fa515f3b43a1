SPECIFICATION Spec
CONSTANTS
  MaxMain = 2
  MaxEdits = 2
  MaxChanges = 2
  MaxRevision = 5
  MaxRuns = 1
  MaxCommits = 2
INVARIANTS VerifiedEvidence
PROPERTIES LedgerKept StaleStaysStopped
CHECK_DEADLOCK FALSE
