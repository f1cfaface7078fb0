SPECIFICATION Spec
CONSTANTS
    n1 = n1
    n2 = n2
    Names = {n1, n2}
    MaxBlocks = 2
    MaxFiles = 5
    MaxConns = 1
INVARIANTS
    TypeOK
    NothingIsKept
    SavedIsWhole
    CameraSurvives
CHECK_DEADLOCK FALSE
