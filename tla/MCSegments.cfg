SPECIFICATION FairSpec
CONSTANTS
    Slot = {s1, s2}
    Writer = {w1, w2}
    Request = {r1}
    Free = free
    LaneCount = 1
    SealMinimum = 1
    SealThreshold = 2
    MaxInflightSeals = 1
    MaxWrites = 2
    MaxFails = 1
    MaxEpoch = 1
CHECK_DEADLOCK FALSE
INVARIANTS
    TypeOK
    DurableResolves
    LiveExact
    FlushCovers
PROPERTIES
    FlushAnswered
    WriteReturns
    ImplementsDurableStore
