SPECIFICATION Spec
CONSTANTS
    Clients = {a, b, d}
    Script <- TableScript
    InitialTable <- IndexedTable
    Tries = 2
    Attempts = 2
SYMMETRY Symmetry
INVARIANTS
    
    HighWater
PROPERTIES
    SnapshotIsolation
