SPECIFICATION Spec
CONSTANTS
    Leds = {1, 2}
    ActiveHigh = {1}
    Timers = {0}
    Periods = {10, 20}
    Blinks <- SomeBlinks
    Blocks = {b1, b2}
    NULL = NULL
    CriticalHooks = TRUE
    MaxCalls = 5
INVARIANTS Inv ShowsAsAsked
CHECK_DEADLOCK FALSE
