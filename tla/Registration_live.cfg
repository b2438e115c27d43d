CONSTANTS
  b1 = b1
  b2 = b2
  d1 = d1
  d2 = d2
  d3 = d3
  All = All
  None = None
  Device = {d1, d2}
  Bs = {b1}
  Reach <- Line
  Reporting = {d2}
  Foreign = {}
  Lossy = TRUE
SPECIFICATION LineSpec
PROPERTIES EventuallyConnected
