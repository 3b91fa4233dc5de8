SPECIFICATION TimerFairSpec
CONSTANTS
    a = a
    b = b
    Timers = {a, b}
    Interval <- MCInterval
    MinDelay = 1
    Word = 64
    MaxClock = 6
    NoAlarm = NoAlarm
INVARIANTS EntriesAreCurrent CancelledStaysOut FirstIsArmed
PROPERTY DueTimersRun
CHECK_DEADLOCK FALSE
