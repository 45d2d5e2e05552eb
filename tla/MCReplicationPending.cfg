SPECIFICATION Spec
CONSTANTS
    Node = {a, b}
    NoNode = none
    MaxWrites = 2
    MaxEpoch = 2
    MaxRestarts = 1
SYMMETRY NodeSymmetry
CHECK_DEADLOCK FALSE
INVARIANTS
    LineageHonest
