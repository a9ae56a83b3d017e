SPECIFICATION CheckedSpec
CONSTANTS
    RET_STACK_SIZE = 12
    MINIMUM_RET_STACK_SIZE = 2
    TOPREALREG = 2
    LETTERED = 1
    REG_WORDS = 2
    STAT_WORDS = 3
    LOCAL_MARKER = 32
    LOCAL_RANGE = 16
    PCs = {1}
    RegsArgs <- AllRegs
    LocArgs = {0, 1}
    DataWords = {0}
    MAX_LEN = 15
INVARIANTS NoOverlap LayoutCoherent DoubleHasRoom
PROPERTIES GrowthKeepsHeadroom
