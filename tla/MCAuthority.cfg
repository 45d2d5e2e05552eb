SPECIFICATION Spec
CONSTANTS
    Node = {a, b}
    NoNode = none
    TTL = 6
    Final = 6
    Drain = 4
    Slack = 2
    Prompt = TRUE
    MaxGen = 3
SYMMETRY NodeSymmetry
INVARIANTS
    TypeOK
    ExclusiveAuthority
    SuccessorOpensAlone
    PredecessorStopped
PROPERTIES
    OnlyOwnershipRevives
