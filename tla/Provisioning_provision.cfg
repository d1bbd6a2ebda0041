SPECIFICATION LiveSpec
CONSTANTS
    Pairs = {a, b}
    LongPairs = {b}
    None = None
    Garbled = Garbled
    HoldTicks = 2
    MaxWire = 5
    MaxCuts = 1
    MaxShort = 1
INVARIANTS
    RunsHonest
PROPERTIES
    WipedOnlyWhenAsked
    StoredIsJoined
