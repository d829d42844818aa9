SPECIFICATION FairSpec
CONSTANTS
    One = One
    Two = Two
    Layers = {One, Two}
    Requests <- EveryStrategy
    MaxValue = 3
    MaxGamma = 1
    EarlyDetail = 4
    Detail = 2
    MinDetail = 1
INVARIANTS
    ClustersKept
    Reported
    ChildrenOnce
    LeafSuffices
    NeverEmptied
    Accounted
PROPERTIES
    Terminates
