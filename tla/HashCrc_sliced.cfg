SPECIFICATION Spec
CHECK_DEADLOCK FALSE
CONSTANTS
  Data <- MCData
  Proto <- QuietProtos
  TableBits <- MCTableBits
INVARIANTS
  HashIsCrc32c
  FlsIsHighestBit
