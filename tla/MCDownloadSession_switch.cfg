SPECIFICATION Spec
CONSTANTS
    Devices = {1, 2}
    PhotoCount <- MCPhotoCount
    TimeOf <- DistinctTimes
    MaxShows = 1
    MaxDownloads = 1
    MaxFailures = 2
CHECK_DEADLOCK FALSE
INVARIANTS
    PairsIntact
