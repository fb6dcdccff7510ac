CONSTANTS
    EventHandler = {h1}
    Handler = h1
    Times = {0, 1, 2}
    InitialSize = 3
    Delay = {0, 1}
    Interval = {0}
    MaxTimers = 3
    MaxSize = 6
    MaxTime = 1
SPECIFICATION FilledSpec
INVARIANTS IdsMatchHeap HeapOrdered FreeIdFound
