SPECIFICATION Spec
CONSTANTS
    Devices = {d1, d2}
    Strangers = {d2}
    None = None
    MaxFails = 1
    FirstVehicle = "tesla"
    MaxWaits = 1
    MaxLines = 1
    MaxUser = 1
    MaxOutages = 1
INVARIANT TypeOK
CHECK_DEADLOCK FALSE
