\* Two receiving lcores, two keys, two rows; three lcores in every assignment of roles.
CONSTANTS
  kA = kA
  kB = kB
  NoKey = NoKey
  RxLcores = {1, 2}
  Keys = {kA, kB}
  Entries = 2
  TIMEOUT = 0
  Traffic <- MCTraffic
  MaxFlowPkts = 2
  MaxTime = 1
  KLcores = {0, 1, 2}
  MainLcore = 0
  Roles <- MCRoles
  MaxRequests = 2
  MaxKniPkts = 1
SPECIFICATION ThreadsSpec
INVARIANTS ThreadsTypeOK FlowAccounted
PROPERTY KniResponsive
CHECK_DEADLOCK FALSE
