\* The protocol numbers of vTSD and vSON (nso_packet.h) and of data.
SPECIFICATION Spec
CHECK_DEADLOCK FALSE
CONSTANTS
  Data <- NoData
  Proto <- VnfProtos
  TableBits <- OneTable
INVARIANTS
  BucketInTable
