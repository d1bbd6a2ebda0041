SPECIFICATION Spec
CONSTANTS
    TINY = 1
    SHORT = 1
    MED = 1
    LONG = 1
    SEARCHING = 2
    SEPARATOR = 2
    Fast = 1
    Medium = 1
    Long = 2
    Slow = 1
    Age2 = 3
    Age5 = 4
    Age10 = 5
    Window = 2
    RetryMax = 1
    Hold = 2
    Clock = 4
INVARIANTS
    HousekeepingSafe
    BeaconKeepsPace
PROPERTIES
    LedPlaysOn
