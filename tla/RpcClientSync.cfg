CONSTANTS
    MaxCalls = 2
    MaxTransports = 1
    MaxResets = 0
SPECIFICATION Spec
INVARIANT SyncReplyReceived
CHECK_DEADLOCK FALSE
