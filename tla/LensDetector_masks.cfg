SPECIFICATION FairSpec
CONSTANTS
    Cols = 5
    Rows = 3
    MAX_LENS_SIZE = 2
    HIGHPASS_CUTOFF = 1
    Reach = 1
CHECK_DEADLOCK FALSE
INVARIANTS
    LensesFound
    SpectrumSymmetric
PROPERTY
    DetectEnds
