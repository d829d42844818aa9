CONSTANTS
    MaxZoom = 2
    BaseZoom = 2
    RateNum = 3
    RateDen = 2
    Side = 2
    Density = 0
    Inputs <- Four
    MostFeatures = 5
    Available <- Few
    Memory = 3
    CPUS = 2
    Page = 1
    MaxUnit = 2

SPECIFICATION Spec

INVARIANTS
    FilesKept
    SortedStably

PROPERTIES
    SortsForDropping
