CONSTANTS
    Period = 2
    OverTime = 9
    LongPressTime = 31
    Limit = 64
    MaxClicks = 3
    MinAge = 3
    MaxSpan = 22
SPECIFICATION Spec
INVARIANTS Inv ReportedInTime
PROPERTIES ReportIsRight
