CONSTANTS
    Buses <- MCBuses
    Empty <- MCEmpty
    LatePlugs <- MCLatePlugs
    MaxKeyboards = 2
    MaxHci = 3
    MaxHcd = 2
    BufferLength = 6
    MaxRoutePort = 3
    MaxAddress = 4
    MaxSlots = 4
    HeapSize = 8
    MaxFails = 2
    MaxPlugs = 3
SPECIFICATION Spec
CHECK_DEADLOCK FALSE
INVARIANTS DevicesRight
PROPERTIES FoundDevicesKept ScansDone
