SPECIFICATION FairSpec
CONSTANTS
    Topic = {t1}
    Msg = {m1}
    Handler = {h1, h2}
    NoHandler = NoHandler
    ClientId = {0, 1}
    MaxBufferSize = 2
    MaxOneCharId = 1
PROPERTY
    OnlineClientIsSent
