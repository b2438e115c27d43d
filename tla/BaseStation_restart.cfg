SPECIFICATION Spec
CONSTANTS
  Device = {d1, d2}
  Bs = b
  Rx = {r1, r2}
  Heard <- MCHeard
  Bucket <- MCBucket
  Talking = {d2}
  Overheard <- MCOverheard
  Window = 1
  MaxLife = 2
  None = None
  d1 = d1
  d2 = d2
  r1 = r1
  r2 = r2
INVARIANTS
  TypeOK
  ForwardsOnlyWithRoute
  PassedWithGateway
PROPERTY
  EventuallyBack
