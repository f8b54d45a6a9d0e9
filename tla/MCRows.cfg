SPECIFICATION Spec
CONSTANTS
    Clients = {a, b, d}
    Script <- RowScript
    InitialTable <- PlainTable
    Tries = 2
    Attempts = 2
SYMMETRY Symmetry
INVARIANTS
    TypeOK
    NoRowTwice
    FragmentIdsNeverReused
    HighWater
PROPERTIES
    SnapshotIsolation
    
    EveryTryIsNewer
