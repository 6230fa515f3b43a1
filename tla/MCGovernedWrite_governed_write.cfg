SPECIFICATION Spec
CONSTANTS
  Clients = {l}
  Gated = {}
  Allowed = {"branch create", "file create"}
  Lane = l
  a = a
  b = b
  Texts = {a, b}
  TextOf <- MCTextOf
  None = None
  MaxAttempts = 1
  MaxPushes = 1
  MaxDeletions = 1
  MaxRuns = 2
  MaxCI = 2
  MaxTouches = 1
INVARIANTS ConfirmedProof Accounted
CHECK_DEADLOCK FALSE
