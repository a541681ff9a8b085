\* SPIs from the whole range of the word.
CONSTANTS
  HALF = 8
  QSort <- MergeSort
  NbSockets = 1
  SaTables <- SaArrays
  RuleTables <- MCRuleTables
  Configs <- MCConfigs
  SpiValues = {1, 4, 6, 8, 10}
  MaxSa = 5
  MaxFailing = 0
  MaxR4 = 0
  MaxR6 = 0
  Modes = {"ip4-tunnel"}
  Enable = {FALSE}
SPECIFICATION Spec
INVARIANT SpiPresentFinds
CHECK_DEADLOCK FALSE
