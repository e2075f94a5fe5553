\* Two rows, a prune, a vacuum and readers, with a fair writer.
CONSTANTS
  Writes = {w1, w2}
  Volume = {w2}
  Backups = {}
  Prunes = {p1}
  Vacuums = {v1}
  Sentinel = Sentinel
  Capacity = 2
  BatchSize = 2
  MaxRetries = 0
  Readers = TRUE
SPECIFICATION FairSpec
PROPERTIES ShutdownEnds AcceptedIsHandled
CHECK_DEADLOCK FALSE
