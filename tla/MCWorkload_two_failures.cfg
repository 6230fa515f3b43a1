SPECIFICATION LoopSpec
CONSTANTS
  i1 = i1
  i2 = i2
  c1 = c1
  c2 = c2
  c3 = c3
  None = None
  Branches = {b1}
  MaxFailures = 2
  MaxCrashes = 0
  Issues <- MCIssues
  Criteria <- MCCriteria
  CriteriaOf <- MCCriteriaOf
INVARIANTS OneActiveFailure
CHECK_DEADLOCK FALSE
