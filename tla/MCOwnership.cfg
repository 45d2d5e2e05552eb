SPECIFICATION FairSpec
CONSTANTS
    Node = {a, b}
    NoNode = none
    MarkerEpochs = {1}
    MaxGen = 2
    MaxRev = 3
    MaxEpoch = 2
    MaxInc = 2
    MaxOrphans = 1
CHECK_DEADLOCK FALSE
INVARIANTS
    TypeOK
    EpochsFollowGenerations
    LatestWriterExact
    OpenedAboveFloor
    OneOwnerPerGeneration
PROPERTIES
    CellSpec
    HandoffResolves
