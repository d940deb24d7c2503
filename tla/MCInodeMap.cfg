\* One thread; the table doubles from one bucket to two and four, and any
\* allocation may fail.  File 0 is the number that changes places with the
\* root.
SPECIFICATION Spec
CONSTANTS
    Limit = 8
    Threads = {t1}
    Root = 5
    Files = {0, 1, 2}
    Cells = {c1, c2, c3}
    InitialCapacity = 1
    AllocFails = TRUE
    MaxLookups = 2
    MaxLost = 1
    NoCell = NoCell
SYMMETRY CellSymmetry
INVARIANTS
    Resolves
    RefcountMatches
    HashConsistent
