SPECIFICATION Spec
CONSTANTS
    Inode = {a,b}
    Client = {c}
    Cells = 2
    InitSize = 2
    Extents = {{1}}
    MaxOperations = 2
    Stops = TRUE
    MaxWrites = 2
    MaxPunches = 1
    MaxFails = 1
CHECK_DEADLOCK FALSE
INVARIANTS
    TypeOK
    ReadsRegular
    FlushApplies
    NobodyStuck
PROPERTIES
    ImplementsVolatileFile
SYMMETRY InodeSymmetry
