SPECIFICATION Spec
CONSTANTS
    Data <- MCData
    Root <- MCRoot
    Needs <- MCNeeds
    SomeBlank = FALSE
    MostNeed = 2
    MinZoom = 1
    MaxZoom = 3
    ZoomLimit = 3
    AlwaysExtend = FALSE
    ExtendMax = 0
    CanTruncate = TRUE
    UsesGamma = FALSE
    UsesDropping = TRUE
    MaxGamma = 0
    MaxDrop = 1
    CPUs = 2
    TempFiles = 8
INVARIANTS
    WrittenOnce
    CompleteThrough
PROPERTIES
    GrowsByLevels
    FinishedStay
