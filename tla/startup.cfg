\* One socket, SPIs that are less than half the range apart.
CONSTANTS
  HALF = 8
  QSort <- MergeSort
  NbSockets = 1
  SaTables <- SaArrays
  RuleTables <- MCRuleTables
  Configs <- MCConfigs
  SpiValues = {1, 3, 6}
  MaxSa = 3
  MaxFailing = 2
  MaxR4 = 2
  MaxR6 = 1
  Modes = {"ip4-tunnel", "ip6-tunnel", "transport"}
  Enable = {FALSE, TRUE}
SPECIFICATION Spec
INVARIANTS TypeOK PolicySelectsItsSa SpiPresentFinds ExitsForCause SadMatchesPolicy
CHECK_DEADLOCK FALSE
