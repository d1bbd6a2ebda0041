SPECIFICATION Spec
CONSTANTS
    Devices = {d1, d2}
    Strangers = {d2}
    None = None
    MaxFails = 1
    FirstVehicle = "tesla"
    MaxWaits = 1
    MaxLines = 1
    MaxUser = 1
    MaxOutages = 1
INVARIANTS
    NeverStranded
    ConnectingHasOp
    ReadingsFit
PROPERTIES
    DropNoticed
    Reconnects
CHECK_DEADLOCK FALSE
