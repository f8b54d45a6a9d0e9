SPECIFICATION Spec
CONSTANTS
    Clients = {a, b}
    Script <- TwoDeferred
    InitialTable <- HoledTable
    Tries = 2
    Attempts = 2
SYMMETRY Symmetry
INVARIANTS
    IndexSound
