\* Two nodes that may be their own neighbour, two qualities, file errors.
CONSTANTS
  ID = {n1, n2}
  Bs = {b1}
  Intf = {i1}
  Quality = {1, 2}
  MaxFaults = 2
SPECIFICATION FairSpec
INVARIANTS
  TypeOK
  LinkSymmetry
  UniqueLinks
  CacheCoherent
PROPERTIES
  ImplementsMembership
  SilentNodeLeaves
