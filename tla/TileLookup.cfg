CONSTANTS
    Sea = Sea
    Land = Land
    Contents = {Sea, Land}
    Earlier <- MCEarlier
    Tiles <- MCTiles
    MaxZoom = 2
    LeafSize = 1
    RootLimit = 3
    IntBits = 4

SPECIFICATION Spec

CHECK_DEADLOCK FALSE

INVARIANTS
    TilesFound
