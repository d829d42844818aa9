CONSTANTS
    MaxZoom = 2
    BaseZoom = 3
    RateNum = 5
    RateDen = 2
    Side = 3
    Density = 2
    MaxDots = 12

SPECIFICATION MCSpec

INVARIANTS
    NoMoreThanRate
    NoLessThanRate
    NowhereSparse
