CONSTANTS
    OutSize = 2
    InSize = 3
    Capacity = 2
    Programs <- MCPrograms
    Readers <- MCReaders
    Modes <- MCModes
SPECIFICATION FairSpec
INVARIANTS
    TypeOK
    ReadsAreExact
    BytesKept
PROPERTIES
    IsByteStream
CHECK_DEADLOCK FALSE
