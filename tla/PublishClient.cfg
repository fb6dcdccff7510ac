CONSTANTS
  brokerBuffering = TRUE
  keepAliveTryTimes = 1
  MaxMessages = 3
  MaxFailures = 2
  MaxEnds = 1
  MaxInFlight = 1
SPECIFICATION FairSpec
INVARIANTS IInv HandlerUnlessError SentAtMostOnce
PROPERTIES ClearedWhenRead BufferFlushed LossRepaired
CHECK_DEADLOCK FALSE
