SPECIFICATION FairSpec
CONSTANTS
    Node = {a, b}
    NoNode = none
    MaxWrites = 2
    MaxEpoch = 1
    MaxRestarts = 1
CHECK_DEADLOCK FALSE
PROPERTIES
    WriteSettles
    GapsClose
