CONSTANTS
  N = 3
  Enabled = {0, 2}
  MasterCores = {0, 2}
  NumTests = 2
  Stages <- MCStages
  TestMode <- MCTestMode
  NumWindows = 5
  Populated = {0, 1, 3, 4}
  MapLimit = 4
  MaxPass = 2
  Behind <- MCBehind
  BootImages = {"low", "high", "boot"}
  Configs <- MCConfigs
  MaxInput = 2
SPECIFICATION Spec
CHECK_DEADLOCK FALSE
INVARIANTS CoresMeet ProgramOutsideWindow
PROPERTIES TestingInOrder KeysTakeEffect RunEnds
