SPECIFICATION FairLoop
CONSTANTS
  i1 = i1
  i2 = i2
  c1 = c1
  c2 = c2
  c3 = c3
  None = None
  Branches = {b1}
  MaxFailures = 1
  MaxCrashes = 2
  Issues <- MCIssues
  Criteria <- MCCriteria
  CriteriaOf <- MCCriteriaOf
INVARIANTS Ordered OneWorkload
PROPERTIES Settles
CHECK_DEADLOCK FALSE
