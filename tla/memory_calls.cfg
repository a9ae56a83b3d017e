SPECIFICATION CheckedSpec
CONSTANTS
    RET_STACK_SIZE = 8
    MINIMUM_RET_STACK_SIZE = 7
    TOPREALREG = 0
    LETTERED = 0
    REG_WORDS = 2
    STAT_WORDS = 7
    LOCAL_MARKER = 32
    LOCAL_RANGE = 8
    PCs = {1, 5}
    RegsArgs = {0}
    LocArgs = {0, 1}
    DataWords <- Misleading
    MAX_LEN = 1
INVARIANTS LocalRegsInnermost RunningHasBase
PROPERTIES CallsNest
