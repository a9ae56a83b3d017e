SPECIFICATION MCSpec
CONSTANTS
    TOPREALREG = 8
    SMALL_STACK = 4
    STACK_SIZE = 5
    EXTRA_REG = 3
    Keyed = {1001}
    Calculated = {903}
    Natives <- MCNatives
    Routines <- MCRoutines
    RegsArgs = {2, 8}
    Used = {0, 12}
    Restored <- MCRestored
    EDITS = 1
PROPERTIES ValuesSpec
