SPECIFICATION Spec
CONSTANTS
    Photos <- MCPhotos
    CalibImages <- MCCalibImages
    Others = {"firmware", "missing"}
    Missing <- MCMissing
    Listings <- MCListings
    MaxPhotos = 3
    Invocations <- MCInvocations
    FlatImages = {"mod2"}
    Unmatched <- MCUnmatched
    Workers = 2
    MaxRuns = 2
    MaxFaults = 1
    Width = 6
    Height = 4
    Bytes <- MCBytes
    Prefixed = {0, 17}
    ArraySize = 6
    AreaSize = 20
    MaxViews = 2
    MaxZooms = 2
CHECK_DEADLOCK FALSE
INVARIANTS
    ListParsed
    UndefinedExplained
    FilesConsistent
    ResultsComplete
    ViewerConsistent
    RawDecoded
    AccessorsIndependent
PROPERTIES
    InvocationEnds
