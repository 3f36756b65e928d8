SPECIFICATION FairSpec
CONSTANTS
    Devices = {1}
    PhotoCount <- MCPhotoCount
    TimeOf <- DistinctTimes
    MaxShows = 1
    MaxDownloads = 2
    MaxFailures = 0
CHECK_DEADLOCK FALSE
PROPERTIES
    DownloadsExecuted
