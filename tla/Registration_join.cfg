CONSTANTS
  b1 = b1
  b2 = b2
  d1 = d1
  d2 = d2
  d3 = d3
  All = All
  None = None
  Device = {d1, d2, d3}
  Bs = {b1, b2}
  Reach <- Diamond
  Reporting = {d3}
  Foreign = {d3}
  Lossy = FALSE
SPECIFICATION JoinSpec
SYMMETRY TwoDevices
INVARIANTS
  TypeOK
  NoLeakedLock
  ConnectedIsApproved
  NoForwardingLoop
  RoutesContinue
  FramesAreRouted
PROPERTIES
  JoinedForGood
  GrowsAsTree
