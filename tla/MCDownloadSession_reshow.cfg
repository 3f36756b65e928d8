SPECIFICATION Spec
CONSTANTS
    Devices = {1}
    PhotoCount <- MCPhotoCount
    TimeOf <- DistinctTimes
    MaxShows = 2
    MaxDownloads = 0
    MaxFailures = 0
CHECK_DEADLOCK FALSE
INVARIANTS
    PointersValid
