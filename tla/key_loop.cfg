SPECIFICATION Spec
CONSTANTS
    MAX_EVENTS = 2
    MAX_HELD = 2
    PAUSE = 2
PROPERTIES
    StopNeverStarts
    StopWorks
    PauseEnds
    CommandSettles
