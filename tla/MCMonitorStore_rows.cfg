\* Rows and a backup; no reader holds a snapshot.
CONSTANTS
  Writes = {w1, w2, w3}
  Volume = {w2}
  Backups = {b1}
  Prunes = {}
  Vacuums = {}
  Sentinel = Sentinel
  Capacity = 2
  BatchSize = 2
  MaxRetries = 1
  Readers = FALSE
SPECIFICATION Spec
INVARIANTS TypeOK Accounted CommitOrder BackupComplete ShutdownDrains
PROPERTY ImplementsJournal
CHECK_DEADLOCK FALSE
