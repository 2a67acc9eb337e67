CONSTANTS
    TaskNum = 1
    EventNum = 2
    Delays = {0}
    Messages = {m1}
    NULL = NULL
    CriticalHooks = TRUE
    IsrCalls = {"start"}
    QuietAt <- Never
    SendQuietAt <- Never
    MaxTick = 0
    MaxCalls = 0
SPECIFICATION Spec
INVARIANTS NoLostStart

