CONSTANTS
  c0 = c0
  c1 = c1
  c2 = c2
  CPU = {c0, c1, c2}
  Master = c0
  Program <- MCProgram
  Pollers = {}
  EccInput = FALSE
  Num = 3
  Leader = 1
  Low = 1
  High = 20
  BootAddrs = {1, 3, 10}
  Unusable = {3}
  Size = 5
  p1 = p1
  p2 = p2
  Pointers = {p1, p2}
  Movable = {p1}
  Addend <- MCAddend
  TableOffset = 2
  Rela = TRUE
  MaxMoves = 2
SPECIFICATION MCSpec
INVARIANTS LeaveTogether RestartRight
PROPERTIES TestFinishes CoresRestart
