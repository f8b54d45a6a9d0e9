SPECIFICATION Spec
CONSTANTS
    Clients = {a, b, d}
    Script <- SchemaScript
    InitialTable <- IndexedTable
    Tries = 2
    Attempts = 2
SYMMETRY Symmetry
INVARIANTS
    ColumnsReadOwnData
    ValuesReachable
    NonNullHolds
    IndexFieldsExist
    
PROPERTIES
    SnapshotIsolation
