SPECIFICATION Spec
CONSTANTS
  Radios = {r1}
  UsbRadios = {r1}
  Interfaces = {i1, i2}
  None = None
  LastDelay = 1
  MaxCommands = 1
  MaxSignals = 1
  MaxEvents = 1
  SetupFails = TRUE
CHECK_DEADLOCK FALSE
SYMMETRY InterfaceSymmetry
INVARIANTS
  OneInterface
  RetryAfterSuccess
  NoRetryWhileUp
  LossIsNoticed
