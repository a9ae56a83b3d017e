SPECIFICATION CheckedSpec
CONSTANTS
    RADIX = 2
    SCHAR = 4
    Sizes <- MCSizes
    Recalled <- MCRecalled
    REMANENCE = 1
    BOOT = 3
    MAX_TICKER = 5
    MAX_POINTS = 1
INVARIANTS
    SplitInRegisters
PROPERTIES
    TimerSpec
