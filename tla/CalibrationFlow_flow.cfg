SPECIFICATION FairSpec
CONSTANTS
    NumImages = 4
    Flat = {2}
    Unmatched = {{1, 3}}
    MaxCrashes = 2
    MaxFailures = 2
    MaxRuns = 4
CHECK_DEADLOCK FALSE
INVARIANTS
    CrashDamageBounded
PROPERTY
    AttemptEnds
