SPECIFICATION EngineSpec
CONSTANTS
  Clients = {c1, c2}
  Gated = {c1}
  Allowed = {"branch create", "file create", "file update", "file delete"}
  Texts = {a, b}
  None = None
  MaxAttempts = 1
  MaxPushes = 1
  MaxDeletions = 1
SYMMETRY Symmetry
INVARIANTS ReceiptHonest
PROPERTIES NoLostUpdate
CHECK_DEADLOCK FALSE
