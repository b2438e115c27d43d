CONSTANTS
  Eth = 2
  Mtu = 2
  AdvLen = 1
  Zeroes = Zeroes
  Msg = {m1, m2}
  Headroom = 9
  Ifaces = 2
SPECIFICATION BufferSpec
INVARIANTS AdvertisesOnAll
