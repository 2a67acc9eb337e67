CONSTANTS
    TimerNum = 2
    AlarmNum = 1
    Delays = {1, 2}
    TicksPerSec = 2
    Seconds = {0, 2}
    CriticalHooks = TRUE
    MaxTick = 4
    MaxSets = 3
SPECIFICATION Spec
INVARIANTS Inv LastSettingWins
PROPERTIES FiresOnTime AlarmsOnTime
