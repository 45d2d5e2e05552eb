SPECIFICATION ReclaimSpec
CONSTANTS
    Slot = {s1}
    Writer = {w1}
    Request = {r1}
    Name = {n1}
    Reader = {}
    Free = free
    LaneCount = 1
    SealMinimum = 3
    SealThreshold = 3
    MaxInflightSeals = 1
    MaxWrites = 2
    MaxFails = 0
    MaxEpoch = 0
    Lifetime = 2
    Floor = 1
    PromptScan = TRUE
    MaxDeletes = 1
    MaxPacks = 0
CHECK_DEADLOCK FALSE
INVARIANTS
    CheckpointsIntact
