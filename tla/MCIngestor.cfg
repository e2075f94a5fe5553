CONSTANTS
  a = a
  b = b
  None = None
  Nodes = {a, b}
  RawPackets <- MCRawPackets
  NodeDBs <- MCNodeDBs
  TTL = 2
  Bucket = 2
  DedupLimit = 1
  DedupDrop = 1
  QueueMax = 3
  MaxTime = 3
  MaxEvents = 3
  MaxStarts = 2
SPECIFICATION Spec
INVARIANTS CountedOnce ExactCounters RowIsOneObservation
PROPERTY RowsGrow
CHECK_DEADLOCK FALSE
