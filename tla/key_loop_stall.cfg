SPECIFICATION Spec
CONSTANTS
    MAX_EVENTS = 2
    MAX_HELD = 1
    PAUSE = 1
PROPERTIES
    RunsOn
