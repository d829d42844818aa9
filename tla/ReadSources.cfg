CONSTANTS
    Inputs <- EverySource
    CPUS = 3
    ReadBuf = 2
    ParseMin = 2
    ParseMax = 4
    QueueMax = 2

SPECIFICATION Spec

INVARIANTS
    EachOnce
    BatchesApart
    InputOrder
