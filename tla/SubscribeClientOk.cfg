CONSTANTS
    Topic = {t1}
    enableBuffering = FALSE
    keepAliveTryTimes = 3
    MaxCalls = 1
    MaxFailures = 0
    MaxInFlight = 3
SPECIFICATION Spec
INVARIANT SubscribeOkExpected
CHECK_DEADLOCK FALSE
