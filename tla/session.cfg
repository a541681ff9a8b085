\* Three devices, one or two lcore parameters on three contexts, tables of two entries; both modes, a pool that sessions can leak from.
CONSTANTS
  gcm = gcm
  cbc = cbc
  ctr = ctr
  saG = saG
  saC = saC
  saO = saO
  saP = saP
  saQ = saQ
  MaxParams = 2
  QpCounts = {1, 2}
  Reqs = {0, 2}
  Ctx <- MCCtx
  Algos <- Algorithms
  NbCdevs = 3
  Confs <- MCConfs
  RunConfs <- MCRunConfs
  MAX_QP_PER_LCORE = 2
  CDEV_MAP_ENTRIES = 9
  SA <- MCSA
  SaDir <- MCSaDir
  SaAlgo <- MCSaAlgo
  SaType <- MCSaType
  CpuDevs = {1}
  PoolSize = 2
SPECIFICATION SesSpec
INVARIANTS QpExclusive MapSound MapComplete SesTypeOK SessionUsable
CHECK_DEADLOCK FALSE
