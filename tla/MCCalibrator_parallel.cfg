SPECIFICATION FairSpec
CONSTANTS
    NoWorker = NoWorker
    NoImage = NoImage
    NoSerial = NoSerial
    i1 = i1
    i2 = i2
    i3 = i3
    i4 = i4
    i5 = i5
    wide = wide
    tele = tele
    camA = camA
    camB = camB
    Workers = {w1, w2, w3}
    Images = {i1, i2, i3, i4, i5}
    Usable = {i1, i2, i3, i4}
    Lenses = {wide, tele}
    Serials = {camA, camB}
    SerialOf <- TwoCameras
    LensOf <- MCLensOf
CHECK_DEADLOCK FALSE
INVARIANTS
    ClustersPartitionGrids
    GridsExplained
PROPERTIES
    CalibrationEnds
