SPECIFICATION Spec
CONSTANTS
  p1 = p1
  p2 = p2
  e1 = e1
  w1 = w1
  r1 = r1
  r2 = r2
  r3 = r3
  r4 = r4
  c1 = c1
  github = github
  connector = connector
  Writers <- OneWriter
  Engines <- OneEngine
  Works <- OneWork
  Registrations <- NewAndMigrated
  Blockers <- OneReceipt
  Clearances <- SafetyPassed
  Genuine <- SafetyPassed
  Inventory <- MigrateSafety
  Enrolment <- EnrolMigrated
  NoWork = NoWork
  Delays = FALSE
  MaxEntries = 3
  MaxHead = 1
  MaxDeletions = 0
INVARIANTS StaysReadable
CHECK_DEADLOCK FALSE
