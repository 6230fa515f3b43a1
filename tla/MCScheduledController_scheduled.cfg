SPECIFICATION FairSpec
CONSTANTS
  branch = branch
  sol = sol
  t1 = t1
  t2 = t2
  t3 = t3
  Mutable = {branch}
  Pins = {sol}
  Critical = {branch, sol}
  Tasks <- MCTasks
  Locks <- MCLocks
  Scopes = {w, v}
  MaxLanes = 2
  MaxChanges = 2
  None = None
INVARIANTS KnowsItsGround LanesApart
CHECK_DEADLOCK FALSE
PROPERTIES CompletionEarned RestsAtLast
