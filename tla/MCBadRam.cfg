CONSTANTS
  W = 4
  Val <- MCVal
  MaxPatterns = 3
  MaxFaults = 6
  Modes = {"BADRAM", "MEMMAP"}
SPECIFICATION Spec
INVARIANTS AllCaptured TableTight
