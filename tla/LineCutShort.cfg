CONSTANTS
    OutSize = 2
    InSize = 3
    Capacity = 2
    Programs <- MCPrograms
    Readers <- MCReaders
    Modes <- MCModes
SPECIFICATION Spec
INVARIANT
    AllQueued
CHECK_DEADLOCK FALSE
