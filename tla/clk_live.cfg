CONSTANTS
    Futures = {f1, f2}
    Paced = {f1, f2}
    Interval = 1
    MaxTime = 1
    Backwards = FALSE
SPECIFICATION TickingSpec
INVARIANTS
    PendingTracked
    UsedUpWhenDue
    BeatsKept
PROPERTIES
    SleepsEnd
    StopEndsSleeps
