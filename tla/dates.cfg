SPECIFICATION Spec
CONSTANTS
    Starts <- MCStarts
    Ends <- MCEnds
INVARIANTS
    DatesAndDays
    EasterOnSunday
PROPERTIES
    CalendarSpec
