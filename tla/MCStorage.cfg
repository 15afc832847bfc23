SPECIFICATION Spec
CONSTANTS
  MaxCluster = 7
  Copies = 2
  Slots = 4
  SlotsPerSector = 2
  MaxReport = 2
  ReportSize = 2
  Settings = {"a", "b"}
  Default = "a"
  Foreign <- MCForeign
  Drives <- MCDrives
  BlockSize = 4
  DirEntrySize = 2
  MinFat16 = 3
  MinFat32 = 6
  MinEntry = 2
  EntryPart = 2
  MaxFaults = 1
  MaxPulls = 1
INVARIANTS FilesIntact MountRight
PROPERTIES OperationsEnd
