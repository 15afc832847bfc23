SPECIFICATION BoardSpec
CONSTANTS
  RingSize = 4
  ErSize = 6
  KcSize = 3
  Retries = 2
  Keys <- MCKeys
  Values <- MCValues
  Setups <- MCSetups
  Scans <- MCScans
  FieldWidth = 4
  Kbds = {1, 2}
CHECK_DEADLOCK FALSE
INVARIANTS DriveRight KeysRight
PROPERTIES IoProgress
