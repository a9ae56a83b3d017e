SPECIFICATION Spec
CONSTANTS
    HALF = 2
    Lengths <- MCLengths
    Operands <- MCOperands
INVARIANTS
    RootsFloored
