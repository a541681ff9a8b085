\* Bursts of two, three mbufs that are used again, the SPIs of two tunnels in one cache entry.
CONSTANTS
  sA = sA
  sB = sB
  sT = sT
  aA = aA
  aB = aB
  NoSa = NoSa
  BYPASS = BYPASS
  DISCARD = DISCARD
  NoPkt = NoPkt
  Mbufs = {m1, m2, m3}
  Wire <- MCWire
  Sas <- MCSas
  Spi <- MCSpi
  SaType <- MCSaType
  SaAddr <- MCSaAddr
  Spis = {0, 1, 2, 3}
  Addrs = {aA, aB}
  Sad <- MCSad
  HasSad = {"v4", "v6"}
  InlineSas = {sB}
  CacheSz = 2
  SpOn <- MCSpOn
  UdpEncap = TRUE
  HasUserdata = TRUE
  MAX_PKT_BURST = 2
SPECIFICATION Spec
INVARIANTS InTypeOK LookupExact CacheSound InboundPolicy MbufInOnePlace
SYMMETRY MCSymmetry
