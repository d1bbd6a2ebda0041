SPECIFICATION Spec
CONSTANTS
    Conns = {c1, c2}
    None = None
    Lines = {"AUTH", "PING"}
    SerialLines = {"ATPC", "ATREBOOT"}
    Rebinds = TRUE
    MaxRx = 2
    MaxDrain = 2
    MaxBacklog = 1
INVARIANTS
    CommandsWhole
    NoCrossTalk
PROPERTIES
    NothingSwallowed
