SPECIFICATION Spec
CONSTANTS
    Coroutines = {c1, c2}
    TasksMax = 2
    Events = {e1, e2}
    Masks = {{e1}}
    Delays = {1}
    QuietAt <- Stores
    Window = 0
    MaxTick = 1
    MaxCalls = 1
INVARIANTS TypeOK EventsExact NonePassedOver BusyWithinAll
PROPERTY EveryoneWakes
