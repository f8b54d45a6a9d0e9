SPECIFICATION Spec
CONSTANTS
    Clients = {a, b}
    Script <- DropAndAdd
    InitialTable <- PlainTable
    Tries = 2
    Attempts = 2
SYMMETRY Symmetry
INVARIANTS
    ColumnsReadOwnData
