SPECIFICATION Spec
CONSTANTS
    Topic = {t1}
    Msg = {m1}
    Handler = {h1}
    NoHandler = NoHandler
    ClientId = {0, 1, 2}
    MaxBufferSize = 2
    MaxOneCharId = 2
INVARIANT
    NoDanglingHandler
