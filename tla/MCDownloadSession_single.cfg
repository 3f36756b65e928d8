SPECIFICATION FairSpec
CONSTANTS
    Devices = {1}
    PhotoCount <- MCPhotoCount
    TimeOf <- DistinctTimes
    MaxShows = 1
    MaxDownloads = 2
    MaxFailures = 1
CHECK_DEADLOCK FALSE
INVARIANTS
    NoUndefined
    PhotosSaved
    FormFollowsDownload
PROPERTIES
    SessionProgresses
