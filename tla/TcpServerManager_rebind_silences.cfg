SPECIFICATION Spec
CONSTANTS
    Conns = {c1}
    None = None
    Lines = {"AUTH"}
    SerialLines = {}
    Rebinds = TRUE
    MaxRx = 1
    MaxDrain = 1
    MaxBacklog = 1
PROPERTIES
    StreamsThroughRebinds
