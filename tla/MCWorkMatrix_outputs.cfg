SPECIFICATION Spec
CONSTANTS
  c1 = c1
  c2 = c2
  a = a
  b = b
  c = c
  this = this
  other = other
  Commits = {c1, c2}
  Branch = main
  Cases = {a, b, c}
  Identities = {this, other}
  Histories <- MCHistories
  Callers = {"workflow", "printed"}
  MaxMoves = 1
  None = None
INVARIANTS PlanIsRead
CHECK_DEADLOCK FALSE
