\* Configuration on every machine, lcores on those of MCRunEnvs, vectors of up to two packets.
CONSTANTS
  m1 = m1
  m2 = m2
  NoPkt = NoPkt
  Envs <- AllEnvs
  RunEnvs <- AllRun
  TrafficEnvs <- MCTrafficEnvs
  Mbufs = {m1, m2}
  Wire <- MCWire
  NbSa = 2
  SpiIn <- MCSpiIn
  SaPort <- MCSaPort
  Unprotected = {1}
  SpOn <- MCSpOn
  Route <- MCRoute
  VectorSize = 2
  MAX_RX_QUEUE_PER_LCORE = 3
SPECIFICATION EvSpec
INVARIANTS EvTypeOK PathComplete EvPolicy
PROPERTY EthCoreLifetime
CHECK_DEADLOCK FALSE
