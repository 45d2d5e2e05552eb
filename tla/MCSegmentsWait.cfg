SPECIFICATION FairSpec
CONSTANTS
    Slot = {s1, s2}
    Writer = {w1, w2}
    Request = {r1}
    Free = free
    LaneCount = 2
    SealMinimum = 1
    SealThreshold = 1
    MaxInflightSeals = 1
    MaxWrites = 2
    MaxFails = 0
    MaxEpoch = 0
CHECK_DEADLOCK FALSE
PROPERTIES
    FlushAnswered
