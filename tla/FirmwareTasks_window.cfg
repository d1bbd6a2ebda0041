SPECIFICATION Spec
CONSTANTS
    TINY = 1
    SHORT = 1
    MED = 1
    LONG = 1
    SEARCHING = 2
    SEPARATOR = 2
    Fast = 1
    Medium = 2
    Long = 8
    Slow = 2
    Age2 = 9
    Age5 = 10
    Age10 = 20
    Window = 2
    RetryMax = 1
    Hold = 1
    Clock = 32
INVARIANTS
    BeaconInWindow
