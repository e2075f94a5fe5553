SPECIFICATION Spec
CONSTANTS
  Devices = {0}
  Default = 0
  None = None
  MaxChunks = 1
  MaxInbox = 1
  MaxPending = 1
CHECK_DEADLOCK FALSE
INVARIANTS
  LeaseCoversReading
  LeaseIsUsed
  RecordingHasCapture
  SidecarIsTrue
  NoGhostCapture
PROPERTIES
  StopTakesEffect
