\* With and without a fragment table; a NIC with fewer descriptors than a buffer; fair.
CONSTANTS
  portA = portA
  portB = portB
  NoHop = NoHop
  whole = {w1, w2}
  big = {b1}
  huge = {h1}
  offl = {o1}
  lost = {l1}
  Pkts <- MCPkts
  Ports <- MCPorts
  MAX_PKT_BURST = 4
  MAX_FRAG = 2
  MaxRouted = 3
  NicDepth = 2
  NbFrags <- MCNbFrags
  Offload = {o1}
  LpmHop <- MCLpmHop
  SaPort <- MCSaPort
  MayNotFragment = {h1}
SPECIFICATION FairSpec
INVARIANTS TxTypeOK TableHasRoom RefExact RightPort
PROPERTIES NoOvertaking EveryPktQueued TxCompletes
