\* A counter of four values and six packets, so that it wraps; the device
\* stops at the bound.
CONSTANTS
  SeqMod = 4
  Repeats = TRUE
  MaxSent = 6
  MaxRestarts = 1
  MaxFaults = 1
CHECK_DEADLOCK FALSE
SPECIFICATION Spec
INVARIANTS
  EveryNumberCounted
  LossesAreMissing
  EndsOnlyOnRepeat
