SPECIFICATION Spec
CONSTANTS
    Addrs = {a1, a2}
    Devices = {d1, d2}
    None = None
    Home = a1
    FirstBudget = 1
    RapidRetries = 2
    MaxRetries = 4
    MaxPending = 2
INVARIANTS
    HuntSafe
    NoStaleBytes
PROPERTIES
    SwitchOnlyToTarget
    ExhaustedIsFinal
    HuntEnds
