SPECIFICATION Spec
CONSTANTS
    BASE = 3
    GLOBALS = 5
    LOCALS = 2
    LOCAL_LIM = 3
    DISP_LIM = 4
    STEPS = 10
    MAX_DIGITS = 4
INVARIANTS
    DigitsAgree
    MenusAgree
    ExitLeaves
