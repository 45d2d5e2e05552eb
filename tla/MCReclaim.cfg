SPECIFICATION ReclaimSpec
CONSTANTS
    Slot = {s1}
    Request = {}
    Name = {n1}
    SealMinimum = 2
    SealThreshold = 2
    MaxWrites = 2
    MaxFails = 1
    MaxEpoch = 1
    Writer = {w1}
    Reader = {rd}
    Free = free
    LaneCount = 1
    MaxInflightSeals = 1
    Lifetime = 1
    Floor = 1
    PromptScan = FALSE
    MaxDeletes = 1
    MaxPacks = 1
CHECK_DEADLOCK FALSE
INVARIANTS
    LiveExact
    ReadsSucceed
PROPERTIES
    ReclaimImplementsDurableStore
