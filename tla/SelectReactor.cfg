CONSTANTS
  Handle = {0, 1, 2}
  Connections = {1, 2, 3}
  Kind = {"svc", "tcp"}
SPECIFICATION FairSpec
INVARIANTS IInv RegistrationsMatch CalledForOwnEvent
PROPERTY InputServed
CHECK_DEADLOCK FALSE
