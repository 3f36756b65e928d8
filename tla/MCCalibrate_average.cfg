SPECIFICATION Spec
CONSTANTS
    GridShapes <- MCGridShapes
    GridCounts = {1, 2, 3}
    Tilts <- MCTilts
    Lenses <- MCLenses
    Serial = "A1"
    IMAGE_SIZE = 6
    SENSOR_SIZE = 4
    LIMIT_HORIZONTAL <- Limit17
    LIMIT_VERTICAL <- Limit8
CHECK_DEADLOCK FALSE
INVARIANTS
    LinesAccounted
    LatticeAveraged
    ReadsExplained
    ArrayMeasured
    DataRestored
    SamplesPlaced
