CONSTANTS
  brokerBuffering = TRUE
  keepAliveTryTimes = 1
  MaxMessages = 1
  MaxFailures = 1
  MaxEnds = 0
  MaxInFlight = 1
SPECIFICATION Spec
INVARIANT ProbeWithoutError
CHECK_DEADLOCK FALSE
