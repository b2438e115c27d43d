\* Two receivers, so that one may sleep while the other is woken.
CONSTANTS
  r1 = r1
  r2 = r2
  s1 = s1
  p1 = p1
  p2 = p2
  Tx = Tx
  None = None
  Receiver = {r1, r2}
  Sender = {s1}
  Packet = {p1, p2}
  MaxQueue = 3
SPECIFICATION FairSpec
INVARIANTS
  NoLostWakeup
  GateOpens
PROPERTIES
  ImplementsMailbox
  ConnectedReports
