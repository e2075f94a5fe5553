SPECIFICATION FairSpec
CONSTANTS
  Radios = {r1}
  UsbRadios = {}
  Interfaces = {i1, i2}
  None = None
  LastDelay = 0
  MaxCommands = 1
  MaxSignals = 1
  MaxEvents = 1
  SetupFails = TRUE
CHECK_DEADLOCK FALSE
PROPERTY RetryGoesOn
