SPECIFICATION Spec
CONSTANTS
    Pairs = {a, b}
    LongPairs = {}
    None = None
    Garbled = Garbled
    HoldTicks = 2
    MaxWire = 3
    MaxCuts = 1
    MaxShort = 1
INVARIANTS
    UnprovisionedShowsAp
