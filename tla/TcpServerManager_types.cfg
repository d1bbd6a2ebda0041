SPECIFICATION Spec
CONSTANTS
    Conns = {c1, c2}
    None = None
    Lines = {"AUTH", "ATREBOOT"}
    SerialLines = {}
    Rebinds = TRUE
    MaxRx = 1
    MaxDrain = 1
    MaxBacklog = 1
INVARIANT TypeOK
