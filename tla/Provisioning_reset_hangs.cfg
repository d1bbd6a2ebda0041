SPECIFICATION LiveSpec
CONSTANTS
    Pairs = {a}
    LongPairs = {}
    None = None
    Garbled = Garbled
    HoldTicks = 2
    MaxWire = 3
    MaxCuts = 1
    MaxShort = 1
PROPERTIES
    ButtonCheckEnds
