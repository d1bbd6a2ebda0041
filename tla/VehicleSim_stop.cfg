SPECIFICATION Spec
CONSTANTS
    Addresses = {a1}
    PollWindows = 1
    QueueMax = 1
    MaxLines = 1
    MaxTs = 0
    MaxWork = 0
    MaxLate = 0
    SkipMs = 1
    IntervalMs = 1
    MaxPieces = 2
    MaxKeys = 0
PROPERTY
    CtrlCStops
