SPECIFICATION FairConsole
CONSTANTS
    Wanted = {"event", "msg", "timer", "device"}
    Rooms <- SomeRooms
    TickFirst = FALSE
    Token <- SomeTokens
    Commands <- SomeCommands
    Lines <- SomeLines
    Separator <- SomeSeparators
    BufferLen = 6
    Delay = 2
    MaxGap = 1
    SenderWaits = TRUE
    QuietAt = {"clear"}
    MaxLines = 2
INVARIANTS TablesExist LinesRunRight ParamsComeBack
PROPERTIES EveryLineRuns
CHECK_DEADLOCK FALSE
