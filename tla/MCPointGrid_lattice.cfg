SPECIFICATION Spec
CONSTANTS
    Columns = 9
    Rows = 6
    Lattice <- MCLattice
    Shifts <- MCShifts
    MaxDefects = 1
    ImageSizes = {0, 2, 18, 54}
    MAX_DIFF = 6
    CONSTRUCT_LIM = 40
    Header = 6
CHECK_DEADLOCK FALSE
INVARIANTS
    LatticeRecovered
    GridConsistent
    LossConfined
    CompleteImageDefined
