SPECIFICATION Spec
CONSTANTS
    Topic = {t1}
    Msg = {m1, m2}
    Handler = {h1, h2}
    NoHandler = NoHandler
    ClientId = {0, 1, 2}
    MaxBufferSize = 1
    MaxOneCharId = 2
INVARIANTS
    AckedSubscriptionsDurable
    IInv
PROPERTIES
    LeavesByDelete
SYMMETRY Addresses
