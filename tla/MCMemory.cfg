SPECIFICATION BootSpec
CONSTANTS
  PageSize = 2
  ReservedStart = 8
  ReservedEnd = 12
  AddrMod = 128
  MapSize = 8
  Maps <- MCMaps
  Program <- MCProgram
  LowHeapLimit = 6
  HeapLimit = 40
  PageMod = 64
  Requests = {1, 3}
  Alignments = {1, 2}
  Oversized = FALSE
  MaxMarks = 1
  MaxBlocks = 2
  E820Maps <- MCE820Maps
  AffinityTables <- MCAffinityTables
  Limits <- MCLimits
  LowLoadLimit = 8
  HighLoadLimit = 32
  LowestLoad = 1
  ProgramSize = 2
  WindowSize = 16
  PinnedSize = 32
  CpuModes = {"nopae", "pae", "lm"}
  NoPaeWindows = 3
  PaePages = 48
  Firmwares <- MCFirmwares
  FirstTry = 10
  Headroom = 2
  MinH = 6
  MinV = 4
  MaxChanges = 2
  MinStart = 10
  BenchAlign = 2
  CopyBlock = 2
  MinWorkset = 16
  MaxL2 = 12
  MaxL3 = 24
  MinRam = 4
  CacheSizes <- MCCacheSizes
  Clocks = {0, 1, 5}
  ClksPerMsecs = {0, 3}
  MaxIter = 6
  MaxSpeed = 50
  MaxShrink = 4
INVARIANTS UsableMemoryOnly BlocksApart WindowsRight EfiSetupRight
PROPERTIES WindowsApart EfiEnds
