SPECIFICATION Spec
CONSTANTS
    Topic = {t1}
    Msg = {}
    Handler = {h1}
    NoHandler = NoHandler
    ClientId = {0, 1, 2, 3, 4, 5, 6, 7, 8, 9, 10}
    MaxBufferSize = 2
    MaxOneCharId = 9
INVARIANT
    IdIsOneCharacter
