\* Two sockets; gateways with SAs in both directions and gateways that only encrypt.
CONSTANTS
  HALF = 8
  QSort <- MergeSort
  NbSockets = 2
  SaTables <- SaArrays
  RuleTables <- MCRuleTables
  Configs <- MCSocketConfigs
  SpiValues = {2, 3}
  MaxSa = 2
  MaxFailing = 0
  MaxR4 = 1
  MaxR6 = 1
  Modes = {"ip4-tunnel"}
  Enable = {FALSE}
SPECIFICATION Spec
INVARIANT SocketsAgree
CHECK_DEADLOCK FALSE
