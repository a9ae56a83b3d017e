SPECIFICATION Spec
CONSTANTS
    HALF = 2
    Lengths <- MCLengths
    Operands <- MCOperands
INVARIANTS
    SumsTold
    WordQuotientsTold
    RotationsTold
    BitsAndPowersTold
    RemaindersTold
    PrimesTold
