CONSTANTS
    Catalogue <- MCCatalogue
    Requests <- MCRequests
    Deepest = 2
    CPUs = 2
    BatchLimit = 2
    SizeLimit = 2

SPECIFICATION FairSpec

CHECK_DEADLOCK FALSE

INVARIANTS
    OverzoomWhole
    ClaimsCover

PROPERTIES
    Joins
    Finishes
