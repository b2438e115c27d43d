SPECIFICATION Spec
CHECK_DEADLOCK FALSE
CONSTANTS
  Device = {d1}
  MaxConn = 2
  MaxLife = 2
  MaxFaults = 1
  Window = 1
  None = None
INVARIANTS
  ObeysLatest
  StoppedHasPoller
  CutOnlyByFault
PROPERTY StartsAgain
