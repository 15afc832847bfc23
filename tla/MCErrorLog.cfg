CONSTANTS
  c0 = c0
  c1 = c1
  c2 = c2
  CPU = {c0, c1, c2}
  NoCpu = NoCpu
  Master = c0
  ErrorLimit = 2
  CeccLimit = 4
  EccCounts = {1, 2}
  MaxFound = 3
  MenuValues = {}
  MayRestart = TRUE
  Pollers = {c0, c1, c2}
  LogModes = {TRUE, FALSE}
  LogMaxPasses = 2
  MaxPasses = 2
  TicksPerTest = 1
  TicksPerPass = 1
  ReportSize = 12
  SlogSize = 6
  HeadLengths = {1, 4, 12, 13}
  TestLength = 2
  EndLength = 2
  StatusLength = 2
SPECIFICATION LogSpec
CHECK_DEADLOCK FALSE
INVARIANTS EveryErrorCounted NoFalsePass LogTruthful
PROPERTIES StopsOnError
