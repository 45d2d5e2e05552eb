SPECIFICATION Spec
CONSTANTS
    Inode = {a}
    Client = {c}
    Cells = 2
    InitSize = 0
    Extents = {{1}}
    MaxOperations = 2
    Stops = FALSE
    MaxWrites = 1
    MaxPunches = 0
    MaxFails = 0
CHECK_DEADLOCK FALSE
INVARIANTS
    ReadsRegular
