\* One entry, as data_cache has, and one key suffice.
SPECIFICATION Spec
CONSTANTS
    Keys = {k1, k2}
    Count = 1
    Blocks = {b1, b2}
    NoKey = NoKey
    NoBlock = NoBlock
INVARIANTS
    NoAssertFailure
