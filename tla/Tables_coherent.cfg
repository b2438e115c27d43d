SPECIFICATION Spec
CHECK_DEADLOCK FALSE
CONSTANTS
  Kinds = {"arp", "nbr", "local", "son", "bspc"}
  Id = {1, 2, 3}
  Hop = {h1, h2}
  Direct = h1
  Rx = {r1, r2}
  FwdWriter = {r1}
  Entry = {e1, e2, e3, e4}
  Head = Head
  Null = Null
  None = None
  Poison1 = Poison1
  Poison2 = Poison2
  BucketBits = 1
  Bucket <- MCBucket
  HashId <- MCHashId
  HashAddr <- MCHashAddr
SYMMETRY Symmetry
INVARIANTS
  TypeOK
  PointersMatch
  TableCoherent
  LookupFindsLatest
  DuplicatesBounded
  RecFits
