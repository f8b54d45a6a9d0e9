SPECIFICATION Spec
CONSTANTS
    Clients = {a, b, d}
    Script <- RestoreAndAppends
    InitialTable <- PlainTable
    Tries = 2
    Attempts = 2
SYMMETRY Symmetry
INVARIANTS
    FragmentIdsNeverReused
