CONSTANTS
    EventHandler = {h1, h2}
    InitialSize = 2
    Delay = {1, 2}
    Interval = {0, 1}
    MaxTimers = 2
    MaxSize = 8
    MaxTime = 2
SPECIFICATION FairSpec
INVARIANTS IInv NeverOversleeps
PROPERTIES IsTimerQueue DueTimerDispatched
