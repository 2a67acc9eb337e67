CONSTANTS
    TaskNum = 2
    EventNum = 2
    Delays = {1}
    Messages = {m1}
    NULL = NULL
    CriticalHooks = TRUE
    IsrCalls = {"start", "stop", "send"}
    QuietAt <- LosingPoints
    SendQuietAt <- MessagePoints
    MaxTick = 1
    MaxCalls = 1
SPECIFICATION FairSpec
INVARIANTS TypeOK NoLostStart NoGhostRequest MsgNotNull
PROPERTIES RunsAsRequested EveryRequestRuns
