CONSTANTS
    MaxCalls = 3
    MaxTransports = 4
    MaxResets = 2
SPECIFICATION FairSpec
INVARIANTS IInv OwnReply NoDanglingDispatcher NoLateReply ExecutedAtMostTwice
PROPERTY CallReturns
CHECK_DEADLOCK FALSE
