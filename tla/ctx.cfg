\* Both modes, safety: bursts of 3, devices of 3 descriptors.
CONSTANTS
  pktA = {a1, a2, a3, a4}
  pktB = {b1}
  pktI = {i1, i2, i3}
  pktC = {c1}
  pktN = {n1}
  saA = saA
  saB = saB
  saI = saI
  saC = saC
  NoSa = NoSa
  Pkts <- MCPkts
  SaPtrs <- MCSaPtrs
  SaOf <- MCSaOf
  SaType <- MCSaType
  SaQp <- MCSaQp
  NbQps = 2
  MAX_PKT_BURST = 3
  PmdDepth = 3
SYMMETRY MCSymmetry
SPECIFICATION Spec
INVARIANTS TypeOK InFlightExact BufHasRoom OlPktsFit MbufAccounted
PROPERTY ImplementsLife
