SPECIFICATION Spec
CONSTANTS
  Machines <- MCMachines
  MaxSpdSlot = 3
  MaxDmiDevs = 5
  MaxAddr = 6
  MaxFails = 2
CHECK_DEADLOCK FALSE
INVARIANTS ModulesShown
PROPERTIES StartupEnds
