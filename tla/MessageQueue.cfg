SPECIFICATION FairSpec
CONSTANTS
    Producer = {p1, p2}
    Consumer = {c1, c2}
    Item = {x1, x2, x3, x4}
    NoItem = NoItem
    m_highWaterMark = 2
    m_lowWaterMark = 1
INVARIANTS
    NoMutualWait
    IInv
PROPERTIES
    IsFifo
    EveryItemTaken
    WaitersAreSignalled
