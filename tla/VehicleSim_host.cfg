SPECIFICATION Spec
CONSTANTS
    Addresses = {a1, a2}
    PollWindows = 2
    QueueMax = 2
    MaxLines = 3
    MaxTs = 2
    MaxWork = 1
    MaxLate = 1
    SkipMs = 1
    IntervalMs = 1
    MaxPieces = 3
    MaxKeys = 4
INVARIANTS
    RowsFaithful
    RunnersFit
    KeysKept
PROPERTIES
    DevicesFound
    RunEnds
