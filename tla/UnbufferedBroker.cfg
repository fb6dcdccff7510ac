SPECIFICATION FairSpec
CONSTANTS
    Topic = {t1}
    Msg = {m1, m2}
    Handler = {h1, h2}
    MaxBufferSize = 1
INVARIANT
    IInv
PROPERTIES
    LeavesByDelete
    PendingIsSent
