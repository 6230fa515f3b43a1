SPECIFICATION Spec
CONSTANTS
  p1 = p1
  p2 = p2
  e1 = e1
  w1 = w1
  r1 = r1
  r2 = r2
  r3 = r3
  r4 = r4
  c1 = c1
  github = github
  connector = connector
  Writers <- TwoWriters
  Engines <- OneEngine
  Works <- OneWork
  Registrations <- NewAndMigrated
  Blockers <- SafetyAndRed
  Clearances <- CiPassed
  Genuine <- CiPassed
  Inventory <- MigrateSafety
  Enrolment <- EnrolMigrated
  NoWork = NoWork
  Delays = TRUE
  MaxEntries = 3
  MaxHead = 2
  MaxDeletions = 1
SYMMETRY Swapped
INVARIANTS RecordedOnce MigratedFirst EscalationSticks
PROPERTIES DenialStops
CHECK_DEADLOCK FALSE
