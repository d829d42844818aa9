SPECIFICATION FairSpec
CONSTANTS
    Data <- MCData
    Root <- MCRoot
    Needs <- MCNeeds
    SomeBlank = TRUE
    MostNeed = 3
    MinZoom = 0
    MaxZoom = 1
    ZoomLimit = 2
    AlwaysExtend = TRUE
    ExtendMax = 0
    CanTruncate = TRUE
    UsesGamma = TRUE
    UsesDropping = TRUE
    MaxGamma = 1
    MaxDrop = 1
    CPUs = 2
    TempFiles = 8
INVARIANTS
    TypeOK
    ZoomsUniform
    LeavesRespected
    ExtendedFarEnough
PROPERTIES
    Terminates
