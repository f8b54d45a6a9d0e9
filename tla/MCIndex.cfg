SPECIFICATION Spec
CONSTANTS
    Clients = {a, b, d}
    Script <- IndexScript
    InitialTable <- IndexedTable
    Tries = 2
    Attempts = 2
SYMMETRY Symmetry
INVARIANTS
    IndexSound
    FragmentIdsNeverReused
