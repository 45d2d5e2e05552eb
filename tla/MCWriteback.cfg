SPECIFICATION FairReadSpec
CONSTANTS
    DataKey = {d}
    FenceKey = {m}
    NoKey = nokey
    AckSsd = TRUE
    BatchMax = 2
    Writers = 2
    Lanes = 2
    PerLane = 1
    MaxOps = 2
    MaxFails = 1
    MaxErrors = 1
    MaxCrashes = 1
CHECK_DEADLOCK FALSE
INVARIANTS
    TypeOK
    
    AnswersSurvive
    RecoveryOpens
    RemotePrefix
    NoFalseDivergence

PROPERTIES
    Drains
