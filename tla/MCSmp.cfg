SPECIFICATION Spec
CONSTANTS
  MaxCpus = 3
  MaxDomains = 2
  MaxRanges = 2
  Cores = {0, 1, 2, 3}
  PmMap <- MCPmMap
  NumTests = 3
  Setups <- MCSetups
CHECK_DEADLOCK FALSE
INVARIANTS SettingsRight CpusRight
PROPERTIES StartEnds
