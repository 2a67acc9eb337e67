SPECIFICATION DateSpec
CONSTANTS
    Dates <- SomeDates
    DaySeconds <- SomeSeconds
    IsrReadsAt = {"main", "check"}
    MaxTicks = 3
    MaxCalls = 4
INVARIANTS GotRight DatesAreRight
CHECK_DEADLOCK FALSE
