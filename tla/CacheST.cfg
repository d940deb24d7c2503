\* Three keys compete for two entries; no symmetry, because of the refinement.
SPECIFICATION Spec
CONSTANTS
    Keys = {k1, k2, k3}
    Count = 2
    Blocks = {b1, b2, b3}
    NoKey = NoKey
    NoBlock = NoBlock
INVARIANTS
    HeapExact
    UniqueKeys
PROPERTIES
    StoreSpec
