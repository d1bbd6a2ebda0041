SPECIFICATION ElmSpec
CONSTANTS
    InitLen = 2
    PidCount = 2
    BufferMax = 3
    MaxSent = 4
    VinLength = 5
    HistoryMax = 2
    Air = 2
INVARIANT CallbackThreadSafe
