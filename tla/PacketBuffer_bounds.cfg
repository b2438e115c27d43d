\* Four headers and a rest fit the headroom, as 14 fits 64; five interfaces.
CONSTANTS
  Eth = 2
  Mtu = 2
  AdvLen = 1
  Zeroes = Zeroes
  Msg = {m1, m2}
  Headroom = 9
  Ifaces = 5
SPECIFICATION BufferSpec
INVARIANTS
  BufferBounds
  RxHasRoom
