\* Two lcores, three packets in bursts of up to two, three sequence numbers.
CONSTANTS
  sG = sG
  sI = sI
  sH = sH
  sT = sT
  sP = sP
  sL = sL
  sB = sB
  sC = sC
  l1 = l1
  l2 = l2
  NoSa = NoSa
  BYPASS = BYPASS
  DISCARD = DISCARD
  Lcores = {l1, l2}
  Sas <- MCSas
  SaRec <- MCSaRec
  Envs <- MCEnvs
  MAX_PKT_BURST = 2
  MaxPkts = 3
  SEQ_MOD = 3
SPECIFICATION OutSpec
INVARIANTS OutTypeOK OutPolicy NonceUnique EspRoundTrip
SYMMETRY MCSymmetry
CHECK_DEADLOCK FALSE
