\* Both modes, liveness: bursts of 1, dequeues of 2 operations, devices of 4 descriptors: with its four
\* mbufs the first queue pair uses up several dequeues in a row while the second one has work.
CONSTANTS
  pktA = {a1,a2,a3,a4}
  pktB = {b1}
  pktI = {}
  pktC = {}
  pktN = {}
  saA = saA
  saB = saB
  saI = saI
  saC = saC
  NoSa = NoSa
  Pkts <- MCPkts
  SaPtrs <- MCSaPtrs
  SaOf <- MCSaOf
  SaType <- MCSaType
  SaQp <- MCSaQp
  NbQps = 2
  MAX_PKT_BURST = 1
  PmdDepth = 4
SPECIFICATION FairSpec
PROPERTY CryptoCompletes
