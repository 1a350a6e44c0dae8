CONSTANTS
    Clients = {c1, c2, c3}
    Backlog = 2
    Limits = {2, 4}
    NoClient = none
SPECIFICATION FairSpec
INVARIANTS
    TypeOK
    ReapingKeepsUp
    NoConnectionDropped
PROPERTIES
    EveryClientServed
    
    FullTableDrains
