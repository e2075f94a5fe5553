CONSTANTS
  None = None
  MaxRegions = 2
  MaxOps = 2
SPECIFICATION SetupSpec
CHECK_DEADLOCK FALSE
INVARIANTS QueueIsDriven
PROPERTIES ShutdownEnds
