SPECIFICATION FairSpec
CONSTANTS
    Topic = {t1}
    Msg = {m1}
    Handler = {h1, h2}
    NoHandler = NoHandler
    ClientId = {0, 1, 2}
    MaxBufferSize = 2
    MaxOneCharId = 2
PROPERTY
    PendingIsSent
