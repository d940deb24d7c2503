\* Two threads look the same file up and forget it; the table never grows.
SPECIFICATION Spec
CONSTANTS
    Limit = 8
    Threads = {t1, t2}
    Root = 5
    Files = {1}
    Cells = {c1, c2, c3}
    InitialCapacity = 4
    AllocFails = FALSE
    MaxLookups = 3
    MaxLost = 0
    NoCell = NoCell
INVARIANTS
    Resolves
