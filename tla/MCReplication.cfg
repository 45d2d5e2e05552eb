SPECIFICATION Spec
CONSTANTS
    Node = {a, b}
    NoNode = none
    MaxWrites = 2
    MaxEpoch = 3
    MaxRestarts = 1
SYMMETRY NodeSymmetry
CHECK_DEADLOCK FALSE
INVARIANTS
    TypeOK
    OnlyStrandedLost
    PrunedIsDurable
    NoRegression
