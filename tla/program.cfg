SPECIFICATION CheckedSpec
CONSTANTS
    END = "END"
    LBL = "LBL"
    Singles <- MCSingles
    Doubles <- MCDoubles
    LabelWords <- MCDoubles
    Seconds <- MCSeconds
    LIB = 10
    NUMPROG_LIMIT = 4
    NUMPROG_FLASH_MAX = 6
    Backups <- MCBackups
    Withheld = {0, 1}
    MAX_RETURNS = 1
    MAX_ARG = 2
INVARIANTS
    ProgramsWhole
    PcAtStep
    BoundsExact
    StepsInvert
    NumbersLead
    LabelsFound
    ReturnsAtStep
PROPERTIES
    ListingSpec
    BackToError
    CountedSteps
