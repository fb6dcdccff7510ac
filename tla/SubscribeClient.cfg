CONSTANTS
    Topic = {t1}
    enableBuffering = TRUE
    keepAliveTryTimes = 2
    MaxCalls = 3
    MaxFailures = 2
    MaxInFlight = 1
SPECIFICATION FairSpec
INVARIANTS IInv KeepAliveArmed SubscribedAtBroker
PROPERTIES SilentLossDetected SubscriptionAnswered
CHECK_DEADLOCK FALSE
