CONSTANTS
    Names = {"a", "b"}
    Ids = {"i"}
    Requests <- MCRequests

SPECIFICATION Spec

CHECK_DEADLOCK FALSE

INVARIANTS
    TypeOK
    FirstOfEach
    Conserved
    IdsMerged
    OrderRestored
    ChildrenFound
